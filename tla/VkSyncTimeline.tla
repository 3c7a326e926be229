--------------------------- MODULE VkSyncTimeline ---------------------------
(***************************************************************************)
(* The emulated timeline semaphore of the Vulkan runtime                   *)
(* (vulkan/runtime/vk_sync_timeline.c).  A timeline is a counter           *)
(* `highest_past', the highest submitted value `highest_pending' and a     *)
(* list of time points, each a binary sync that the GPU signals.  Points   *)
(* are reference counted and recycled through a free list; the state       *)
(* itself is reference counted by the points in use.                       *)
(*                                                                         *)
(* A client is one activity that uses the timeline and holds at most one   *)
(* point: a thread inside a call, or a queue submission that keeps a point *)
(* between two calls.  A region of code under state->mutex is one step,    *)
(* except that the garbage collection loop takes one step per point.       *)
(***************************************************************************)
EXTENDS Integers, Sequences, FiniteSets

CONSTANTS
  Clients,      \* threads and queue submissions
  Points,       \* storage for time points; exhausting it is an allocation failure
  MaxValue,     \* bound on the timeline values that are used
  NoClient,     \* the mutex is free
  NoPoint       \* a client holds no point

ASSUME NoneAssumption == NoClient \notin Clients /\ NoPoint \notin Points
ASSUME FiniteAssumption == IsFiniteSet(Clients) /\ IsFiniteSet(Points)
ASSUME MaxValueAssumption == MaxValue \in Nat

Values == 1 .. MaxValue

VARIABLES
  highest_past, highest_pending,   \* the two counters of the state
  pending_points,                  \* installed points, in list order
  free_points,                     \* recycled points (the list order is left open)
  created,                         \* points that have been allocated from the heap
  value, refcount, pending,        \* the fields of a point
  state_refcount, freed,           \* references to the state; the state's memory is gone
  alive,                           \* the vk_sync has not been finished
  mutex,                           \* the client inside state->mutex
  signaled,                        \* the binary sync of a point has signaled
  todo,                            \* values the GPU was asked to signal and has not
  pc, arg, kind, point             \* per client: program point, value, flavour, point held

stateVars == << highest_past, highest_pending, pending_points, free_points, created,
                value, refcount, pending, state_refcount, freed, alive >>
pointVars == << pending_points, free_points, created, value, refcount, pending,
                state_refcount, freed, alive >>
clientVars == << pc, arg, kind, point >>
vars == << stateVars, mutex, signaled, todo, clientVars >>

-----------------------------------------------------------------------------
GcPcs == {"alloc_gc", "signal_gc", "value_gc", "wait_gc", "finish_gc"}
LockedPcs == GcPcs \cup {"wait_loop"}
WaitPcs == {"wait_cond", "wait_woken", "wait_gc", "wait_loop", "wait_sync"}
Pcs == LockedPcs \cup WaitPcs \cup
       {"idle", "ok", "alloced", "submitted", "got", "value_read", "unref_state"}

\* Values of points that are being allocated or are not installed yet.
InFlight == { arg[c] : c \in {d \in Clients : pc[d] \in {"alloc_gc", "alloced", "submitted"}} }

RangeOf(s) == { s[i] : i \in 1 .. Len(s) }

\* list_del of one entry
Without(s, p) ==
  LET i == CHOOSE j \in 1 .. Len(s) : s[j] = p
  IN  [ j \in 1 .. (Len(s) - 1) |-> IF j < i THEN s[j] ELSE s[j + 1] ]

Goto(c, l) == pc' = [pc EXCEPT ![c] = l]
\* The call is over; its local variables are gone.
Leave(c) == arg' = [arg EXCEPT ![c] = 0] /\ kind' = [kind EXCEPT ![c] = "complete"]
Lock(c) == mutex = NoClient /\ mutex' = c
Unlock(c) == mutex = c /\ mutex' = NoClient
\* A critical section without a loop: one step that finds the mutex free.
LockUnlock == mutex = NoClient /\ UNCHANGED mutex

\* u_cnd_monotonic_broadcast: every sleeper wakes up and contends for the mutex.
Broadcast(c, l) ==
  pc' = [ d \in Clients |-> IF d = c THEN l
                            ELSE IF pc[d] = "wait_cond" THEN "wait_woken" ELSE pc[d] ]

-----------------------------------------------------------------------------
Init ==
  /\ highest_past \in 0 .. MaxValue
  /\ highest_pending = highest_past
  /\ pending_points = << >>
  /\ free_points = {}
  /\ created = {}
  /\ value = [p \in Points |-> 0]
  /\ refcount = [p \in Points |-> 0]
  /\ pending = [p \in Points |-> FALSE]
  /\ state_refcount = 1
  /\ freed = FALSE
  /\ alive = TRUE
  /\ mutex = NoClient
  /\ signaled = [p \in Points |-> FALSE]
  /\ todo = {}
  /\ pc = [c \in Clients |-> "idle"]
  /\ arg = [c \in Clients |-> 0]
  /\ kind = [c \in Clients |-> "complete"]
  /\ point = [c \in Clients |-> NoPoint]

\* Mutant: the point counts as unused one reference early.
UnrefPointLocked_TooEarly(p, n) ==
  /\ refcount' = [refcount EXCEPT ![p] = @ - n]
  /\ free_points' = IF refcount[p] <= n + 1 THEN free_points \cup {p} ELSE free_points
  /\ state_refcount' = IF refcount[p] = n THEN state_refcount - 1 ELSE state_refcount

\* Dropping n references to p under the mutex.  The last one moves the point to
\* the free list and gives up the point's reference to the state.
UnrefPointLocked(p, n) ==
  /\ refcount' = [refcount EXCEPT ![p] = @ - n]
  /\ free_points' = IF refcount[p] = n THEN free_points \cup {p} ELSE free_points
  /\ state_refcount' = IF refcount[p] = n THEN state_refcount - 1 ELSE state_refcount

\* The garbage collector looks at the first pending point p: it stops at a point
\* that is not submitted, or that somebody waits for unless it drains.
GcLooksAt(p, drain) ==
  /\ value[p] <= highest_pending
  /\ refcount[p] <= 1 \/ drain

Drains(c) == pc[c] \in {"signal_gc", "value_gc", "finish_gc"}

\* Mutant: the result of the zero-timeout wait is ignored.
GcStops_IgnoresTimeout(c) ==
  ~ /\ pending_points # << >>
    /\ GcLooksAt(Head(pending_points), Drains(c))

GcStops(c) ==
  ~ /\ pending_points # << >>
    /\ GcLooksAt(Head(pending_points), Drains(c))
    /\ signaled[Head(pending_points)]

\* One round of the loop: the zero-timeout wait succeeds and the point completes.
GcComplete(c) ==
  LET p == Head(pending_points) IN
  /\ mutex = c /\ pc[c] \in GcPcs
  /\ ~ GcStops(c)
  /\ highest_past' = value[p]
  /\ pending' = [pending EXCEPT ![p] = FALSE]
  /\ pending_points' = Tail(pending_points)
  /\ UnrefPointLocked(p, 1)
  /\ UNCHANGED << highest_pending, created, value, freed, alive, mutex, signaled, todo,
                  clientVars >>

\* The zero-timeout wait fails and the caller returns the error.  finish() is only
\* called on an idle, working device.
GcFail(c) ==
  /\ pc[c] \in GcPcs \ {"finish_gc"}
  /\ pending_points # << >>
  /\ GcLooksAt(Head(pending_points), Drains(c))
  /\ Unlock(c)
  /\ Goto(c, "idle") /\ Leave(c)
  /\ UNCHANGED << stateVars, signaled, todo, point >>

-----------------------------------------------------------------------------
(* vk_sync_timeline_alloc_point, called for a signal operation of a submission.
   The client's contract (asserted by install): signal values grow. *)
AllocStart(c, v) ==
  /\ pc[c] = "idle" /\ alive
  /\ v > highest_pending
  /\ \A u \in InFlight : u < v
  /\ Lock(c)
  /\ Goto(c, "alloc_gc")
  /\ arg' = [arg EXCEPT ![c] = v]
  /\ UNCHANGED << stateVars, signaled, todo, kind, point >>

\* A recycled point is preferred to a new one; its sync is reset.
AllocPoint(c, p) ==
  /\ pc[c] = "alloc_gc" /\ GcStops(c)
  /\ IF free_points = {} THEN p \in Points \ created ELSE p \in free_points
  /\ free_points' = free_points \ {p}
  /\ created' = created \cup {p}
  /\ signaled' = [signaled EXCEPT ![p] = FALSE]
  /\ value' = [value EXCEPT ![p] = arg[c]]
  /\ refcount' = [refcount EXCEPT ![p] = @ + 1]
  /\ state_refcount' = state_refcount + 1
  /\ point' = [point EXCEPT ![c] = p]
  /\ Unlock(c)
  /\ Goto(c, "alloced")
  /\ UNCHANGED << highest_past, highest_pending, pending_points, pending, freed, alive,
                  todo, arg, kind >>

\* Out of memory, or the reset of a recycled point failed.
AllocFail(c) ==
  /\ pc[c] = "alloc_gc" /\ GcStops(c)
  /\ Unlock(c)
  /\ Goto(c, "idle") /\ Leave(c)
  /\ UNCHANGED << stateVars, signaled, todo, point >>

\* The driver hands the point's sync to the kernel.
DriverSubmit(c) ==
  /\ pc[c] = "alloced"
  /\ todo' = todo \cup {value[point[c]]}
  /\ Goto(c, "submitted")
  /\ UNCHANGED << stateVars, mutex, signaled, arg, kind, point >>

GpuSignal(p) ==
  /\ pending[p] \/ \E c \in Clients : pc[c] = "submitted" /\ point[c] = p
  /\ ~ signaled[p]
  /\ signaled' = [signaled EXCEPT ![p] = TRUE]
  /\ todo' = todo \ {value[p]}
  /\ UNCHANGED << stateVars, mutex, clientVars >>

\* Mutant: install forgets to wake the waiters.
PointInstall_Silent(c) ==
  LET p == point[c] IN
  /\ pc[c] = "submitted"
  /\ \A u \in InFlight : value[p] <= u
  /\ LockUnlock
  /\ highest_pending' = value[p]
  /\ pending' = [pending EXCEPT ![p] = TRUE]
  /\ pending_points' = Append(pending_points, p)
  /\ Goto(c, "idle") /\ Leave(c)
  /\ point' = [point EXCEPT ![c] = NoPoint]
  /\ UNCHANGED << highest_past, free_points, created, value, refcount, state_refcount,
                  freed, alive, signaled, todo >>

\* vk_sync_timeline_point_install; the list takes over the client's reference.
\* Submissions to one timeline are installed in the order of their values.
PointInstall(c) ==
  LET p == point[c] IN
  /\ pc[c] = "submitted"
  /\ \A u \in InFlight : value[p] <= u
  /\ LockUnlock
  /\ highest_pending' = value[p]
  /\ pending' = [pending EXCEPT ![p] = TRUE]
  /\ pending_points' = Append(pending_points, p)
  /\ Broadcast(c, "idle") /\ Leave(c)
  /\ point' = [point EXCEPT ![c] = NoPoint]
  /\ UNCHANGED << highest_past, free_points, created, value, refcount, state_refcount,
                  freed, alive, signaled, todo >>

\* vk_sync_timeline_get_point: the first pending point at or above v, referenced.
FirstAtLeast(v) ==
  CHOOSE i \in 1 .. Len(pending_points) :
    /\ value[pending_points[i]] >= v
    /\ \A j \in 1 .. (i - 1) : value[pending_points[j]] < v

\* The other outcomes (nothing to wait for, VK_NOT_READY) change nothing.
GetPoint(c, v) ==
  LET p == pending_points[FirstAtLeast(v)] IN
  /\ pc[c] = "idle" /\ alive
  /\ LockUnlock
  /\ highest_past < v
  /\ \E i \in 1 .. Len(pending_points) : value[pending_points[i]] >= v
  /\ refcount' = [refcount EXCEPT ![p] = @ + 1]
  /\ point' = [point EXCEPT ![c] = p]
  /\ Goto(c, "got")
  /\ UNCHANGED << highest_past, highest_pending, pending_points, free_points, created, value,
                  pending, state_refcount, freed, alive, signaled, todo, arg, kind >>

\* Mutant: the last reference to the point keeps the state's reference.
PointUnref_KeepsState(c) ==
  LET p == point[c] IN
  /\ pc[c] \in {"alloced", "got"}
  /\ LockUnlock
  /\ refcount' = [refcount EXCEPT ![p] = @ - 1]
  /\ free_points' = IF refcount[p] = 1 THEN free_points \cup {p} ELSE free_points
  /\ Goto(c, "idle") /\ Leave(c)
  /\ point' = [point EXCEPT ![c] = NoPoint]
  /\ UNCHANGED << highest_past, highest_pending, pending_points, created, value, pending,
                  state_refcount, freed, alive, signaled, todo >>

\* vk_sync_timeline_point_unref, by a submission that is cleaned up.  The state
\* reference of a freed point is dropped after the mutex is released.
PointUnref(c) ==
  LET p == point[c] IN
  /\ pc[c] \in {"alloced", "got"}
  /\ LockUnlock
  /\ refcount' = [refcount EXCEPT ![p] = @ - 1]
  /\ free_points' = IF refcount[p] = 1 THEN free_points \cup {p} ELSE free_points
  /\ Goto(c, IF refcount[p] = 1 THEN "unref_state" ELSE "idle") /\ Leave(c)
  /\ point' = [point EXCEPT ![c] = NoPoint]
  /\ UNCHANGED << highest_past, highest_pending, pending_points, created, value, pending,
                  state_refcount, freed, alive, signaled, todo >>

\* vk_sync_timeline_state_unref: the last reference frees the points and the state.
StateUnref(c) ==
  LET last == state_refcount = 1 IN
  /\ pc[c] = "unref_state"
  /\ state_refcount' = state_refcount - 1
  /\ freed' = last
  /\ free_points' = IF last THEN {} ELSE free_points
  /\ pending_points' = IF last THEN << >> ELSE pending_points
  /\ created' = IF last THEN created \ (free_points \cup RangeOf(pending_points)) ELSE created
  /\ Goto(c, "idle") /\ Leave(c)
  /\ UNCHANGED << highest_past, highest_pending, value, refcount, pending, alive, mutex,
                  signaled, todo, point >>

-----------------------------------------------------------------------------
(* vk_sync_timeline_signal, from the host.  The caller guarantees what the
   function asserts: no signal operation of the timeline is outstanding. *)
SignalStart(c, v) ==
  /\ pc[c] = "idle" /\ alive
  /\ \A i \in 1 .. Len(pending_points) : signaled[pending_points[i]]
  /\ \A u \in InFlight : v < u
  /\ Lock(c)
  /\ Goto(c, "signal_gc")
  /\ arg' = [arg EXCEPT ![c] = v]
  /\ UNCHANGED << stateVars, signaled, todo, kind, point >>

\* A value that does not increase the counter loses the device.
SignalReject(c) ==
  /\ pc[c] = "signal_gc" /\ GcStops(c)
  /\ arg[c] <= highest_past
  /\ Unlock(c)
  /\ Goto(c, "idle") /\ Leave(c)
  /\ UNCHANGED << stateVars, signaled, todo, point >>

\* Mutant: highest_pending is left behind.
SignalAdvance_PastOnly(c) ==
  /\ pc[c] = "signal_gc" /\ GcStops(c)
  /\ arg[c] > highest_past
  /\ highest_past' = arg[c]
  /\ highest_pending' = highest_pending
  /\ Unlock(c)
  /\ Broadcast(c, "idle") /\ Leave(c)
  /\ UNCHANGED << pointVars, signaled, todo, point >>

SignalAdvance(c) ==
  /\ pc[c] = "signal_gc" /\ GcStops(c)
  /\ arg[c] > highest_past
  /\ highest_past' = arg[c]
  /\ highest_pending' = arg[c]
  /\ Unlock(c)
  /\ Broadcast(c, "idle") /\ Leave(c)
  /\ UNCHANGED << pointVars, signaled, todo, point >>

(* vk_sync_timeline_get_value reads the counter after it released the mutex. *)
ValueStart(c) ==
  /\ pc[c] = "idle" /\ alive
  /\ Lock(c)
  /\ Goto(c, "value_gc")
  /\ UNCHANGED << stateVars, signaled, todo, arg, kind, point >>

ValueUnlock(c) ==
  /\ pc[c] = "value_gc" /\ GcStops(c)
  /\ Unlock(c)
  /\ Goto(c, "value_read")
  /\ UNCHANGED << stateVars, signaled, todo, arg, kind, point >>

ValueRead(c) ==
  /\ pc[c] = "value_read"
  /\ arg' = [arg EXCEPT ![c] = highest_past]
  /\ kind' = [kind EXCEPT ![c] = "complete"]
  /\ Goto(c, "ok")
  /\ UNCHANGED << stateVars, mutex, signaled, todo, point >>

(* vk_sync_timeline_wait, for a submission ("pending") or for the signal. *)
\* Mutant: a wait for completion is answered once the value is submitted.
WaitForPending_Returns(c, v, k) ==
  \/ highest_pending < v /\ LockUnlock /\ Goto(c, "wait_cond")
  \/ highest_pending >= v /\ LockUnlock /\ Goto(c, "ok")

WaitForPending(c, v, k) ==
  \/ highest_pending < v /\ LockUnlock /\ Goto(c, "wait_cond")
  \/ highest_pending >= v /\ k = "pending" /\ LockUnlock /\ Goto(c, "ok")
  \/ highest_pending >= v /\ k = "complete" /\ Lock(c) /\ Goto(c, "wait_gc")

WaitStart(c, v, k) ==
  /\ pc[c] = "idle" /\ alive
  /\ arg' = [arg EXCEPT ![c] = v]
  /\ kind' = [kind EXCEPT ![c] = k]
  /\ IF v = 0 THEN Goto(c, "ok") /\ UNCHANGED mutex ELSE WaitForPending(c, v, k)
  /\ UNCHANGED << stateVars, signaled, todo, point >>

WaitWoken(c) ==
  /\ pc[c] = "wait_woken"
  /\ WaitForPending(c, arg[c], kind[c])
  /\ UNCHANGED << stateVars, signaled, todo, arg, kind, point >>

\* u_cnd_monotonic_timedwait times out.
WaitTimeout(c) ==
  /\ pc[c] \in {"wait_cond", "wait_woken"}
  /\ LockUnlock
  /\ Goto(c, "idle") /\ Leave(c)
  /\ UNCHANGED << stateVars, signaled, todo, point >>

AtWaitLoop(c) == pc[c] = "wait_loop" \/ (pc[c] = "wait_gc" /\ GcStops(c))

WaitDone(c) ==
  /\ AtWaitLoop(c)
  /\ highest_past >= arg[c]
  /\ Unlock(c)
  /\ Goto(c, "ok")
  /\ UNCHANGED << stateVars, signaled, todo, arg, kind, point >>

\* Reference the first pending point and wait for its sync without the mutex.
WaitOnPoint(c) ==
  LET p == Head(pending_points) IN
  /\ AtWaitLoop(c)
  /\ highest_past < arg[c]
  /\ refcount' = [refcount EXCEPT ![p] = @ + 1]
  /\ point' = [point EXCEPT ![c] = p]
  /\ Unlock(c)
  /\ Goto(c, "wait_sync")
  /\ UNCHANGED << highest_past, highest_pending, pending_points, free_points, created, value,
                  pending, state_refcount, freed, alive, signaled, todo, arg, kind >>

\* The wait succeeded: drop the reference; complete the point unless somebody did.
WaitRelock(c) ==
  LET p == point[c] IN
  /\ pc[c] = "wait_sync" /\ signaled[p]
  /\ Lock(c)
  /\ highest_past' = IF pending[p] THEN value[p] ELSE highest_past
  /\ pending_points' = IF pending[p] THEN Without(pending_points, p) ELSE pending_points
  /\ UnrefPointLocked(p, IF pending[p] THEN 2 ELSE 1)
  /\ pending' = [pending EXCEPT ![p] = FALSE]
  /\ point' = [point EXCEPT ![c] = NoPoint]
  /\ Goto(c, "wait_loop")
  /\ UNCHANGED << highest_pending, created, value, freed, alive, signaled, todo, arg, kind >>

\* Mutant: a failed wait keeps its reference to the point.
WaitSyncFail_Leaks(c) ==
  /\ pc[c] = "wait_sync"
  /\ LockUnlock
  /\ point' = [point EXCEPT ![c] = NoPoint]
  /\ Goto(c, "idle") /\ Leave(c)
  /\ UNCHANGED << stateVars, signaled, todo >>

\* The wait timed out or failed.
WaitSyncFail(c) ==
  /\ pc[c] = "wait_sync"
  /\ LockUnlock
  /\ UnrefPointLocked(point[c], 1)
  /\ point' = [point EXCEPT ![c] = NoPoint]
  /\ Goto(c, "idle") /\ Leave(c)
  /\ UNCHANGED << highest_past, highest_pending, pending_points, created, value, pending,
                  freed, alive, signaled, todo >>

\* The caller looks at the result of a wait or of get_value.
Return(c) ==
  /\ pc[c] = "ok"
  /\ Goto(c, "idle") /\ Leave(c)
  /\ UNCHANGED << stateVars, mutex, signaled, todo, point >>

(* vk_sync_timeline_finish.  The client ensures that nothing is in flight; only
   submissions that are still cleaned up may hold points. *)
FinishStart(c) ==
  /\ pc[c] = "idle" /\ alive
  /\ \A d \in Clients : pc[d] \in {"idle", "ok", "got", "unref_state"}
  /\ \A i \in 1 .. Len(pending_points) : signaled[pending_points[i]]
  /\ Lock(c)
  /\ Goto(c, "finish_gc")
  /\ UNCHANGED << stateVars, signaled, todo, arg, kind, point >>

FinishUnlock(c) ==
  /\ pc[c] = "finish_gc" /\ GcStops(c)
  /\ alive' = FALSE
  /\ Unlock(c)
  /\ Goto(c, "unref_state")
  /\ UNCHANGED << highest_past, highest_pending, pending_points, free_points, created, value,
                  refcount, pending, state_refcount, freed, signaled, todo, arg, kind, point >>

-----------------------------------------------------------------------------
\* The timeline is destroyed and nobody refers to it.
Terminated == freed /\ UNCHANGED vars

ClientStep(c) ==
  \/ GcComplete(c) \/ GcFail(c)
  \/ \E v \in Values : AllocStart(c, v) \/ SignalStart(c, v) \/ GetPoint(c, v)
  \/ \E p \in Points : AllocPoint(c, p)
  \/ AllocFail(c) \/ DriverSubmit(c) \/ PointInstall(c) \/ PointUnref(c) \/ StateUnref(c)
  \/ SignalReject(c) \/ SignalAdvance(c)
  \/ ValueStart(c) \/ ValueUnlock(c) \/ ValueRead(c)
  \/ \E v \in 0 .. MaxValue, k \in {"pending", "complete"} : WaitStart(c, v, k)
  \/ WaitWoken(c) \/ WaitTimeout(c) \/ WaitDone(c) \/ WaitOnPoint(c)
  \/ WaitRelock(c) \/ WaitSyncFail(c) \/ Return(c)
  \/ FinishStart(c) \/ FinishUnlock(c)

Next ==
  \/ \E c \in Clients : ClientStep(c)
  \/ \E p \in Points : GpuSignal(p)
  \/ Terminated

Spec == Init /\ [][Next]_vars

\* A client inside a call keeps running, the mutex starves nobody and the GPU
\* finishes its work.  Nobody has to start a call, fail or time out.
Fairness ==
  /\ \A c \in Clients :
       /\ WF_vars(GcComplete(c)) /\ WF_vars(SignalReject(c) \/ SignalAdvance(c))
       /\ WF_vars(AllocFail(c) \/ \E p \in Points : AllocPoint(c, p))
       /\ WF_vars(ValueUnlock(c)) /\ WF_vars(FinishUnlock(c))
       /\ WF_vars(WaitDone(c) \/ WaitOnPoint(c))
       /\ SF_vars(WaitWoken(c)) /\ SF_vars(WaitRelock(c))
  /\ \A p \in Points : WF_vars(GpuSignal(p))

FairSpec == Spec /\ Fairness

-----------------------------------------------------------------------------
\* The types of the variables; counters and reference counts never fall below 0.
TypeOK ==
  /\ highest_past \in Nat /\ highest_pending \in Nat
  /\ pending_points \in Seq(Points)
  /\ free_points \in SUBSET Points /\ created \in SUBSET Points
  /\ value \in [Points -> Nat]
  /\ refcount \in [Points -> Nat]
  /\ pending \in [Points -> BOOLEAN]
  /\ state_refcount \in Nat /\ freed \in BOOLEAN /\ alive \in BOOLEAN
  /\ mutex \in Clients \cup {NoClient}
  /\ signaled \in [Points -> BOOLEAN]
  /\ todo \in SUBSET Nat
  /\ pc \in [Clients -> Pcs]
  /\ arg \in [Clients -> Nat]
  /\ kind \in [Clients -> {"pending", "complete"}]
  /\ point \in [Clients -> Points \cup {NoPoint}]

\* The comment on vk_sync_timeline_point: a point is linked in pending_points exactly
\* when it is pending, in free_points exactly when its reference count is 0, and no
\* point is linked twice.
PointLists ==
  /\ \A p \in Points : pending[p] <=> p \in RangeOf(pending_points)
  /\ \A p \in created : p \in free_points <=> refcount[p] = 0
  /\ free_points \subseteq created
  /\ \A i, j \in 1 .. Len(pending_points) : pending_points[i] = pending_points[j] => i = j

Holders(p) == { c \in Clients : point[c] = p }

\* The reference count of a point counts its holders exactly: the clients that wait for
\* it or carry it, and the pending list.  No reference leaks and none is dropped twice.
RefsExact ==
  \A p \in Points : refcount[p] = Cardinality(Holders(p)) + (IF pending[p] THEN 1 ELSE 0)

\* The state is referenced once by the vk_sync, once per point in use and once per
\* client about to drop a reference, so it is freed exactly when none is left and
\* nobody uses it afterwards.
StateRefsExact ==
  /\ state_refcount = (IF alive THEN 1 ELSE 0)
                      + Cardinality({p \in Points : refcount[p] > 0})
                      + Cardinality({c \in Clients : pc[c] = "unref_state"})
  /\ freed <=> state_refcount = 0
  /\ freed => \A c \in Clients : pc[c] \in {"idle", "ok"}

\* Pending points are strictly increasing, lie between the two counters, and the last
\* one is highest_pending: what first_point and complete_point assert, and what lets
\* the garbage collector stop at the first busy point.
PendingOrdered ==
  /\ \A i \in 1 .. Len(pending_points) :
       /\ highest_past < value[pending_points[i]]
       /\ value[pending_points[i]] <= highest_pending
       /\ \A j \in 1 .. (i - 1) : value[pending_points[j]] < value[pending_points[i]]
  /\ IF pending_points = << >> THEN highest_past = highest_pending
     ELSE value[pending_points[Len(pending_points)]] = highest_pending

\* "Now that we know all our time points exist" (vk_queue_submit_final): a value whose
\* submission was waited for always yields a point or needs none; get_point does not
\* answer VK_NOT_READY.
PendingValueHasPoint ==
  \A v \in Values :
    v <= highest_pending =>
      \/ v <= highest_past
      \/ \E i \in 1 .. Len(pending_points) : value[pending_points[i]] >= v

\* A successful wait for v, and a counter value v that was read, mean that every signal
\* operation up to v has really executed.
ResultSound ==
  \A c \in Clients :
    pc[c] = "ok" /\ kind[c] = "complete" =>
      arg[c] <= highest_past /\ \A u \in todo : arg[c] < u

\* The counters never decrease.
CountersMonotone ==
  [][highest_past' >= highest_past /\ highest_pending' >= highest_pending]_vars

\* A point is never recycled out from under a client that holds it: its value stays
\* and its sync is not reset.
HeldPointStable ==
  [][\A c \in Clients, p \in Points :
       point[c] = p /\ point'[c] = p =>
         value'[p] = value[p] /\ (signaled[p] => signaled'[p])]_vars

\* A wait for a value that has been submitted returns: no wakeup is lost and the points
\* in front of it complete.
WaitTerminates ==
  \A c \in Clients :
    (pc[c] \in WaitPcs /\ arg[c] <= highest_pending) ~> pc[c] \notin WaitPcs

-----------------------------------------------------------------------------
(* The parts of the inductive invariant that are not properties above. *)

HoldingPcs == {"alloced", "submitted", "got", "wait_sync"}
FlightPcs == {"alloc_gc", "alloced", "submitted"}
IdlePcs == {"idle", "ok", "got", "unref_state"}

\* A client inside a critical section owns the mutex.
MutexOwned == \A c \in Clients : pc[c] \in LockedPcs => mutex = c

\* A client holds a point exactly between the calls that give and take it.
PointHeld == \A c \in Clients : point[c] # NoPoint <=> pc[c] \in HoldingPcs

\* A point that is in use has been allocated and not been freed.
UsedIsCreated == \A p \in Points : refcount[p] > 0 => p \in created

\* A point that is not installed yet belongs to its submission alone, and the GPU
\* cannot signal it before it is submitted.
SubmissionOwns ==
  \A c \in Clients : pc[c] \in {"alloced", "submitted"} =>
    /\ value[point[c]] = arg[c]
    /\ ~ pending[point[c]]
    /\ pc[c] = "alloced" => ~ signaled[point[c]]
    /\ \A d \in Clients : point[d] = point[c] => d = c

\* Values in flight are new and distinct.
FlightAbove ==
  \A c \in Clients : pc[c] \in FlightPcs =>
    /\ highest_pending < arg[c]
    /\ \A d \in Clients : pc[d] \in FlightPcs /\ arg[d] = arg[c] => d = c

\* While the host signals, the outstanding points have signaled and later signal
\* operations have higher values.
SignalQuiet ==
  \A c \in Clients : pc[c] = "signal_gc" =>
    /\ \A d \in Clients : pc[d] \in FlightPcs => arg[c] < arg[d]
    /\ \A i \in 1 .. Len(pending_points) : signaled[pending_points[i]]

\* Nobody is inside a call when the vk_sync is finished, or after.
FinishQuiet ==
  /\ ~ alive => \A c \in Clients : pc[c] \in IdlePcs
  /\ \A c \in Clients : pc[c] = "finish_gc" => \A d \in Clients \ {c} : pc[d] \in IdlePcs

\* A waiter past the first phase waits for a submitted value, on the first pending
\* point or on one that has completed meanwhile.
WaiterAtHead ==
  \A c \in Clients :
    /\ pc[c] \in {"wait_gc", "wait_loop", "wait_sync"} => arg[c] <= highest_pending
    /\ pc[c] = "wait_sync" /\ pending[point[c]] =>
         pending_points # << >> /\ point[c] = Head(pending_points)

\* What the GPU still has to signal belongs to a point that is pending or submitted.
TodoHasPoint ==
  \A u \in todo : \E p \in Points :
    /\ value[p] = u /\ ~ signaled[p]
    /\ pending[p] \/ \E c \in Clients : pc[c] = "submitted" /\ point[c] = p

\* A result is at most the counter.
ResultReached ==
  \A c \in Clients : pc[c] = "ok" /\ kind[c] = "complete" => arg[c] <= highest_past

\* The inductive invariant of the proofs.
IndInv ==
  /\ TypeOK /\ MutexOwned /\ PointHeld /\ PointLists /\ UsedIsCreated
  /\ RefsExact /\ StateRefsExact /\ PendingOrdered
  /\ SubmissionOwns /\ FlightAbove /\ SignalQuiet /\ FinishQuiet /\ WaiterAtHead
  /\ TodoHasPoint /\ ResultReached

-----------------------------------------------------------------------------
InCall(c) == pc[c] \in WaitPcs \cup {"ok"}

Abstract == INSTANCE TimelineSemaphore WITH
  counter <- highest_past,
  submitted <- highest_pending,
  call <- [ c \in Clients |-> IF pc[c] = "ok" THEN "done"
                              ELSE IF InCall(c) THEN "waiting" ELSE "none" ],
  want <- [ c \in Clients |-> IF InCall(c) THEN arg[c] ELSE 0 ],
  flavour <- kind

\* The emulated timeline implements the timeline semaphore: the counter only moves to
\* submitted values or by a host signal with nothing outstanding, and a call succeeds
\* only when the counter (or the submission) has reached its value.
ImplementsTimeline == Abstract!Spec
=============================================================================
