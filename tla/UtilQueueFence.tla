--------------------------- MODULE UtilQueueFence ---------------------------
(***************************************************************************)
(* The futex implementation of util_queue_fence (util/u_queue.h and        *)
(* do_futex_fence_wait in util/u_queue.c): one word that is 0 (signalled), *)
(* 1 (unsignalled) or 2 (unsignalled, may have waiters).  Each atomic      *)
(* access is one step.                                                     *)
(***************************************************************************)
EXTENDS Integers

CONSTANTS
  Waiters,      \* threads that wait for the fence
  Workers       \* threads that run the job and signal the fence

VARIABLES
  val,          \* fence->val
  pc, v,        \* waiters: program point, local copy of val
  spc,          \* workers: "none", or "wake" between the exchange and futex_wake
  timed         \* the waiter has a timeout

vars == << val, pc, v, spc, timed >>

WaiterPcs == {"idle", "read", "loop", "futex", "asleep", "reread", "done", "timeout"}
Waiting(w) == pc[w] \in {"read", "loop", "futex", "asleep", "reread"}

Goto(w, l) == pc' = [pc EXCEPT ![w] = l]

\* util_queue_fence_init
Init ==
  /\ val = 0
  /\ pc = [w \in Waiters |-> "idle"] /\ v = [w \in Waiters |-> 0]
  /\ spc = [s \in Workers |-> "none"]
  /\ timed = [w \in Waiters |-> FALSE]

\* `The caller must ensure that no other thread may currently be waiting (or about to wait)
\* on the fence.'  A worker of the previous job may still be about to wake sleepers.
Reset ==
  /\ val = 0 /\ \A w \in Waiters : pc[w] = "idle"
  /\ val' = 1
  /\ UNCHANGED << pc, v, spc, timed >>

\* Mutant: sleepers are not woken.
MustWake_Never == FALSE
MustWake == val = 2

\* util_queue_fence_signal, when the job that the fence was reset for is complete: the
\* exchange ...
Signal(s) ==
  /\ spc[s] = "none" /\ val # 0
  /\ val' = 0
  /\ spc' = [spc EXCEPT ![s] = IF MustWake THEN "wake" ELSE "none"]
  /\ UNCHANGED << pc, v, timed >>

\* ... and futex_wake of everybody who sleeps on the word.
FutexWake(s) ==
  /\ spc[s] = "wake"
  /\ spc' = [spc EXCEPT ![s] = "none"]
  /\ pc' = [w \in Waiters |-> IF pc[w] = "asleep" THEN "reread" ELSE pc[w]]
  /\ UNCHANGED << val, v, timed >>

\* util_queue_fence_wait, util_queue_fence_wait_timeout: the check without a lock
WaitStart(w, t) ==
  /\ pc[w] = "idle"
  /\ Goto(w, IF val = 0 THEN "done" ELSE "read")
  /\ timed' = [timed EXCEPT ![w] = t]
  /\ UNCHANGED << val, v, spc >>

\* do_futex_fence_wait: v = fence->val
WaitRead(w) ==
  /\ pc[w] \in {"read", "reread"}
  /\ v' = [v EXCEPT ![w] = val]
  /\ Goto(w, IF val = 0 THEN "done" ELSE "loop")
  /\ UNCHANGED << val, spc, timed >>

\* Mutant: the word is stored, not exchanged.
Announced_Stored == 2
\* The compare-and-exchange of 1 by 2.
Announced == IF val = 1 THEN 2 ELSE val

\* Announce the waiter, unless the word says already that there are some.
WaitAnnounce(w) ==
  /\ pc[w] = "loop"
  /\ IF v[w] = 2 THEN Goto(w, "futex") /\ UNCHANGED << val, v >>
     ELSE /\ v' = [v EXCEPT ![w] = val]
          /\ val' = Announced
          /\ Goto(w, IF val = 0 THEN "done" ELSE "futex")
  /\ UNCHANGED << spc, timed >>

\* Mutant: the caller sleeps whatever the word is.
Sleeps_Always == TRUE
Sleeps == val = 2

\* futex_wait(&fence->val, 2): the kernel compares the word and puts the caller to sleep.
FutexWait(w) ==
  /\ pc[w] = "futex"
  /\ Goto(w, IF Sleeps THEN "asleep" ELSE "reread")
  /\ UNCHANGED << val, v, spc, timed >>

\* A signal handler may interrupt the system call; the timeout may expire.
FutexReturn(w) ==
  /\ pc[w] = "asleep"
  /\ \/ Goto(w, "reread")
     \/ timed[w] /\ Goto(w, "timeout")
  /\ UNCHANGED << val, v, spc, timed >>

\* The caller looks at the result.
Return(w) ==
  /\ pc[w] \in {"done", "timeout"}
  /\ Goto(w, "idle") /\ v' = [v EXCEPT ![w] = 0] /\ timed' = [timed EXCEPT ![w] = FALSE]
  /\ UNCHANGED << val, spc >>

WaiterStep(w) == WaitRead(w) \/ WaitAnnounce(w) \/ FutexWait(w)

Next ==
  \/ Reset
  \/ \E s \in Workers : Signal(s) \/ FutexWake(s)
  \/ \E w \in Waiters : \/ \E t \in BOOLEAN : WaitStart(w, t)
                        \/ WaiterStep(w) \/ FutexReturn(w) \/ Return(w)

Spec == Init /\ [][Next]_vars

\* Threads that can run do run.  No job completes of necessity, no sleep is interrupted.
FairSpec ==
  /\ Spec
  /\ \A s \in Workers : WF_vars(FutexWake(s))
  /\ \A w \in Waiters : WF_vars(WaiterStep(w))

-----------------------------------------------------------------------------
\* The three states of the word (u_queue.h) and the program points.
TypeOK ==
  /\ val \in 0 .. 2
  /\ pc \in [Waiters -> WaiterPcs] /\ v \in [Waiters -> 0 .. 2]
  /\ spc \in [Workers -> {"none", "wake"}]
  /\ timed \in [Waiters -> BOOLEAN]

\* No wakeup is lost: whoever sleeps is announced in the word, or a worker that signalled
\* the fence is about to wake all sleepers (util_queue_fence_signal wakes only when it
\* finds 2).
SleepersAnnounced ==
  \A w \in Waiters : pc[w] = "asleep" => val = 2 \/ \E s \in Workers : spc[s] = "wake"

\* A wait for a fence that is signalled returns.
WaitReturns == \A w \in Waiters : (Waiting(w) /\ val = 0) ~> ~ Waiting(w)

Abstract == INSTANCE QueueFence WITH
  signalled <- val = 0,
  call <- [ w \in Waiters |-> IF pc[w] \in {"done", "timeout"} THEN pc[w]
                              ELSE IF Waiting(w) THEN "waiting" ELSE "none" ]

\* The futex word implements the fence that UtilQueue uses: a wait succeeds only when the
\* fence is signalled, nobody but the worker signals it and nobody but the owner resets it.
ImplementsFence == Abstract!Spec
=============================================================================
