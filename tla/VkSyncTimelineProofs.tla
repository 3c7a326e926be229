------------------------ MODULE VkSyncTimelineProofs ------------------------
(***************************************************************************)
(* Proofs about VkSyncTimeline for every number of clients, points and     *)
(* values: the inductive invariant IndInv, the safety properties it        *)
(* implies, and the two action properties.                                 *)
(***************************************************************************)
EXTENDS VkSyncTimelineReleases, VkSyncTimelineTakes

-----------------------------------------------------------------------------
(* The steps of a call that change nothing but the caller's program point. *)

\* vk_sync_timeline_gc_locked returns an error and its caller passes it on.
LEMMA GcFailStep ==
  ASSUME IndInv, NEW c \in Clients, GcFail(c)
  PROVE  Moves(c, "idle", 0, "complete")
BY DEF IndInv, TypeOK, Moves, GcFail, Unlock, Goto, Leave, PlainPcs, HoldingPcs, LockedPcs, GcPcs

\* vk_sync_timeline_alloc_point fails without a point.
LEMMA AllocFailStep ==
  ASSUME IndInv, NEW c \in Clients, AllocFail(c)
  PROVE  Moves(c, "idle", 0, "complete")
BY DEF IndInv, TypeOK, Moves, AllocFail, Unlock, Goto, Leave, PlainPcs, HoldingPcs, LockedPcs, GcPcs

\* vk_sync_timeline_signal refuses a value that does not increase the counter.
LEMMA SignalRejectStep ==
  ASSUME IndInv, NEW c \in Clients, SignalReject(c)
  PROVE  Moves(c, "idle", 0, "complete")
BY DEF IndInv, TypeOK, Moves, SignalReject, Unlock, Goto, Leave, PlainPcs, HoldingPcs,
       LockedPcs, GcPcs

\* vk_sync_timeline_get_value takes the mutex.
LEMMA ValueStartStep ==
  ASSUME IndInv, NEW c \in Clients, ValueStart(c)
  PROVE  Moves(c, "value_gc", arg[c], kind[c])
BY DEF IndInv, TypeOK, Moves, ValueStart, Lock, Goto, PlainPcs, HoldingPcs, LockedPcs, GcPcs

\* vk_sync_timeline_get_value has collected and releases the mutex.
LEMMA ValueUnlockStep ==
  ASSUME IndInv, NEW c \in Clients, ValueUnlock(c)
  PROVE  Moves(c, "value_read", arg[c], kind[c])
BY Zenon DEF IndInv, TypeOK, FinishQuiet, IdlePcs, Moves, ValueUnlock, Unlock, Goto, PlainPcs,
       HoldingPcs, LockedPcs, GcPcs

\* vk_sync_timeline_get_value reads highest_past without the mutex.
LEMMA ValueReadStep ==
  ASSUME IndInv, NEW c \in Clients, ValueRead(c)
  PROVE  Moves(c, "ok", highest_past, "complete")
BY DEF IndInv, TypeOK, Moves, ValueRead, Goto, PlainPcs, HoldingPcs, LockedPcs, GcPcs

\* The first phase of a wait: sleep, return, or go on with the mutex.
LEMMA WaitForPendingStep ==
  ASSUME IndInv, NEW c \in Clients, NEW v \in Nat, NEW k \in {"pending", "complete"},
         WaitForPending(c, v, k), alive, pc[c] \in {"idle", "wait_woken"},
         arg' = [arg EXCEPT ![c] = v], kind' = [kind EXCEPT ![c] = k],
         UNCHANGED << stateVars, signaled, todo, point >>
  PROVE  \E l \in {"ok", "wait_cond", "wait_gc"} : Moves(c, l, v, k)
<1>1. CASE highest_pending < v /\ LockUnlock /\ Goto(c, "wait_cond")
  BY <1>1 DEF Moves, LockUnlock, Goto, PlainPcs, HoldingPcs, LockedPcs, GcPcs
<1>2. CASE highest_pending >= v /\ k = "pending" /\ LockUnlock /\ Goto(c, "ok")
  BY <1>2 DEF Moves, LockUnlock, Goto, PlainPcs, HoldingPcs, LockedPcs, GcPcs
<1>3. CASE highest_pending >= v /\ k = "complete" /\ Lock(c) /\ Goto(c, "wait_gc")
  <2>1. v <= highest_pending BY <1>3 DEF IndInv, TypeOK
  <2> QED BY <1>3, <2>1 DEF Moves, Lock, Goto, PlainPcs, HoldingPcs, LockedPcs, GcPcs
<1> QED BY <1>1, <1>2, <1>3 DEF WaitForPending

\* vk_sync_timeline_wait is called.
LEMMA WaitStartStep ==
  ASSUME IndInv, NEW c \in Clients, NEW v \in Nat, NEW k \in {"pending", "complete"},
         WaitStart(c, v, k)
  PROVE  \E l \in {"ok", "wait_cond", "wait_gc"} : Moves(c, l, v, k)
<1>1. CASE v = 0 /\ Goto(c, "ok") /\ UNCHANGED mutex
  BY <1>1 DEF IndInv, TypeOK, WaitStart, Moves, Goto, PlainPcs, HoldingPcs, LockedPcs, GcPcs
<1>2. CASE WaitForPending(c, v, k)
  BY <1>2, WaitForPendingStep, Zenon DEF WaitStart
<1> QED BY <1>1, <1>2 DEF WaitStart

\* A sleeping wait is woken and looks at highest_pending again.
LEMMA WaitWokenStep ==
  ASSUME IndInv, NEW c \in Clients, WaitWoken(c)
  PROVE  \E l \in {"ok", "wait_cond", "wait_gc"} : Moves(c, l, arg[c], kind[c])
<1>1. alive BY DEF IndInv, FinishQuiet, WaitWoken, IdlePcs
<1>2. arg[c] \in Nat /\ kind[c] \in {"pending", "complete"} BY DEF IndInv, TypeOK
<1>3. arg' = [arg EXCEPT ![c] = arg[c]] /\ kind' = [kind EXCEPT ![c] = kind[c]]
  BY DEF IndInv, TypeOK, WaitWoken
<1> QED BY <1>1, <1>2, <1>3, WaitForPendingStep, Zenon DEF WaitWoken

\* A wait times out before its value is submitted.
LEMMA WaitTimeoutStep ==
  ASSUME IndInv, NEW c \in Clients, WaitTimeout(c)
  PROVE  Moves(c, "idle", 0, "complete")
BY DEF IndInv, TypeOK, Moves, WaitTimeout, LockUnlock, Goto, Leave, PlainPcs, HoldingPcs,
       LockedPcs, GcPcs

\* A wait finds that highest_past has reached its value.
LEMMA WaitDoneStep ==
  ASSUME IndInv, NEW c \in Clients, WaitDone(c)
  PROVE  Moves(c, "ok", arg[c], kind[c])
<1>1. arg[c] <= highest_past BY DEF IndInv, TypeOK, WaitDone
<1> QED BY <1>1 DEF IndInv, TypeOK, Moves, WaitDone, AtWaitLoop, Unlock, Goto, PlainPcs,
                    HoldingPcs, LockedPcs, GcPcs

\* The caller of a wait or of get_value goes on.
LEMMA ReturnStep ==
  ASSUME IndInv, NEW c \in Clients, Return(c)
  PROVE  Moves(c, "idle", 0, "complete")
BY DEF IndInv, TypeOK, Moves, Return, Goto, Leave, PlainPcs, HoldingPcs, LockedPcs, GcPcs

-----------------------------------------------------------------------------
(* Steps that start a call or hand work to the GPU. *)

\* vk_sync_timeline_alloc_point takes the mutex with a value above everything in flight.
LEMMA AllocStartStep ==
  ASSUME IndInv, NEW c \in Clients, NEW v \in Values, AllocStart(c, v)
  PROVE  IndInv'
<1> USE DEF IndInv, AllocStart, Lock, Goto
<1>0. v \in Nat /\ c # NoClient BY NoneAssumption DEF Values
<1>1. TypeOK'
  <2>1. pc' \in [Clients -> Pcs] BY DEF TypeOK, Pcs, LockedPcs, GcPcs
  <2>2. arg' \in [Clients -> Nat] BY <1>0 DEF TypeOK
  <2> QED BY <2>1, <2>2 DEF TypeOK, stateVars
<1>2. MutexOwned' BY NoneAssumption DEF MutexOwned, TypeOK
<1>3. PointHeld' BY DEF PointHeld, TypeOK, HoldingPcs
<1>4. PointLists' /\ UsedIsCreated' /\ RefsExact' /\ PendingOrdered' BY FrameState
<1>5. StateRefsExact' BY FrameStateRefs, Zenon
<1>6. SubmissionOwns' BY DEF SubmissionOwns, TypeOK, stateVars
<1>7. FlightAbove'
  <2>1. \A d \in Clients : pc[d] \in FlightPcs => arg[d] < v BY DEF InFlight, FlightPcs
  <2> QED BY <1>0, <2>1 DEF FlightAbove, TypeOK, FlightPcs, stateVars
<1>8. SignalQuiet'
  BY NoneAssumption DEF SignalQuiet, MutexOwned, TypeOK, FlightPcs, stateVars, LockedPcs, GcPcs
<1>9. FinishQuiet'
  BY NoneAssumption DEF FinishQuiet, MutexOwned, TypeOK, IdlePcs, LockedPcs, GcPcs, stateVars
<1>10. WaiterAtHead' BY DEF WaiterAtHead, TypeOK, stateVars
<1>11. TodoHasPoint' BY DEF TodoHasPoint, TypeOK, stateVars
<1>12. ResultReached' BY DEF ResultReached, TypeOK, stateVars
<1> QED BY <1>1, <1>2, <1>3, <1>4, <1>5, <1>6, <1>7, <1>8, <1>9, <1>10, <1>11, <1>12

\* vk_sync_timeline_signal takes the mutex while no signal operation is outstanding.
LEMMA SignalStartStep ==
  ASSUME IndInv, NEW c \in Clients, NEW v \in Values, SignalStart(c, v)
  PROVE  IndInv'
<1> USE DEF IndInv, SignalStart, Lock, Goto
<1>0. v \in Nat BY DEF Values
<1>1. TypeOK'
  <2>1. pc' \in [Clients -> Pcs] BY DEF TypeOK, Pcs, LockedPcs, GcPcs
  <2>2. arg' \in [Clients -> Nat] BY <1>0 DEF TypeOK
  <2> QED BY <2>1, <2>2 DEF TypeOK, stateVars
<1>2. MutexOwned' BY NoneAssumption DEF MutexOwned, TypeOK
<1>3. PointHeld' BY DEF PointHeld, TypeOK, HoldingPcs
<1>4. PointLists' /\ UsedIsCreated' /\ RefsExact' /\ PendingOrdered' BY FrameState
<1>5. StateRefsExact' BY FrameStateRefs, Zenon
<1>6. SubmissionOwns' BY DEF SubmissionOwns, TypeOK, stateVars
<1>7. FlightAbove' BY DEF FlightAbove, TypeOK, FlightPcs, stateVars
<1>8. SignalQuiet' BY DEF SignalQuiet, InFlight, TypeOK, FlightPcs, stateVars
<1>9. FinishQuiet'
  BY NoneAssumption DEF FinishQuiet, MutexOwned, TypeOK, IdlePcs, LockedPcs, GcPcs, stateVars
<1>10. WaiterAtHead' BY DEF WaiterAtHead, TypeOK, stateVars
<1>11. TodoHasPoint' BY DEF TodoHasPoint, TypeOK, stateVars
<1>12. ResultReached' BY DEF ResultReached, TypeOK, stateVars
<1> QED BY <1>1, <1>2, <1>3, <1>4, <1>5, <1>6, <1>7, <1>8, <1>9, <1>10, <1>11, <1>12

\* vk_sync_timeline_finish takes the mutex when nobody else is inside a call.
LEMMA FinishStartStep ==
  ASSUME IndInv, NEW c \in Clients, FinishStart(c)
  PROVE  IndInv'
<1> USE DEF IndInv, FinishStart, Lock, Goto
<1>1. TypeOK'
  <2>1. pc' \in [Clients -> Pcs] BY DEF TypeOK, Pcs, LockedPcs, GcPcs
  <2> QED BY <2>1 DEF TypeOK, stateVars
<1>2. MutexOwned' BY NoneAssumption DEF MutexOwned, TypeOK
<1>3. PointHeld' BY DEF PointHeld, TypeOK, HoldingPcs
<1>4. PointLists' /\ UsedIsCreated' /\ RefsExact' /\ PendingOrdered' BY FrameState
<1>5. StateRefsExact' BY FrameStateRefs, Zenon
<1>6. SubmissionOwns' BY DEF SubmissionOwns, TypeOK, stateVars
<1>7. FlightAbove' BY DEF FlightAbove, TypeOK, FlightPcs, stateVars
<1>8. SignalQuiet' BY DEF SignalQuiet, TypeOK, FlightPcs, stateVars
<1>9. FinishQuiet' BY Zenon DEF FinishQuiet, TypeOK, IdlePcs, stateVars
<1>10. WaiterAtHead' BY DEF WaiterAtHead, TypeOK, stateVars
<1>11. TodoHasPoint' BY DEF TodoHasPoint, TypeOK, stateVars
<1>12. ResultReached' BY DEF ResultReached, TypeOK, stateVars
<1> QED BY <1>1, <1>2, <1>3, <1>4, <1>5, <1>6, <1>7, <1>8, <1>9, <1>10, <1>11, <1>12

\* The driver submits the point's sync: its value becomes due.  A fresh point has not
\* signaled (FreshUnsignaled), so the value belongs to it.
LEMMA DriverSubmitStep ==
  ASSUME IndInv, NEW c \in Clients, DriverSubmit(c)
  PROVE  IndInv'
<1> USE DEF IndInv, DriverSubmit, Goto
<1>0. point[c] \in Points BY DEF PointHeld, HoldingPcs, TypeOK
<1>1. TypeOK'
  <2>1. pc' \in [Clients -> Pcs] BY DEF TypeOK, Pcs, LockedPcs, GcPcs
  <2>2. value[point[c]] \in Nat BY <1>0 DEF TypeOK
  <2>3. todo' \in SUBSET Nat BY <2>2, Zenon DEF TypeOK
  <2> QED BY <2>1, <2>3 DEF TypeOK, stateVars
<1>2. MutexOwned' BY DEF MutexOwned, TypeOK, LockedPcs, GcPcs
<1>3. PointHeld' BY DEF PointHeld, TypeOK, HoldingPcs
<1>4. PointLists' /\ UsedIsCreated' /\ RefsExact' /\ PendingOrdered' BY FrameState
<1>5. alive BY DEF FinishQuiet, IdlePcs
<1>6. StateRefsExact' BY <1>5, FrameStateRefs, Zenon
<1>7. SubmissionOwns' BY DEF SubmissionOwns, TypeOK, stateVars
<1>8. FlightAbove' BY DEF FlightAbove, TypeOK, FlightPcs, stateVars
<1>9. SignalQuiet' BY DEF SignalQuiet, TypeOK, FlightPcs, stateVars
<1>10. FinishQuiet' BY DEF FinishQuiet, TypeOK, IdlePcs, stateVars
<1>11. WaiterAtHead' BY DEF WaiterAtHead, TypeOK, stateVars
<1>12. TodoHasPoint'
  <2> SUFFICES ASSUME NEW u \in todo'
               PROVE  \E p \in Points :
                        /\ value[p] = u /\ ~ signaled[p]
                        /\ pending[p] \/ \E d \in Clients : pc'[d] = "submitted" /\ point[d] = p
    BY DEF TodoHasPoint, stateVars
  <2>1. CASE u = value[point[c]] BY <1>0, <2>1 DEF SubmissionOwns, TypeOK
  <2>2. CASE u \in todo BY <2>2 DEF TodoHasPoint, TypeOK
  <2> QED BY <2>1, <2>2
<1>13. ResultReached' BY DEF ResultReached, TypeOK, stateVars
<1> QED BY <1>1, <1>2, <1>3, <1>4, <1>6, <1>7, <1>8, <1>9, <1>10, <1>11, <1>12, <1>13

\* The GPU signals a point; nothing else has the same value.
LEMMA GpuSignalStep ==
  ASSUME IndInv, NEW p \in Points, GpuSignal(p)
  PROVE  IndInv'
<1> USE DEF IndInv, GpuSignal, clientVars
<1>1. TypeOK' BY Zenon DEF TypeOK, stateVars
<1>2. MutexOwned' BY DEF MutexOwned
<1>3. PointHeld' BY DEF PointHeld
<1>4. PointLists' /\ UsedIsCreated' /\ RefsExact' /\ PendingOrdered' BY FrameState
<1>5. StateRefsExact' BY DEF StateRefsExact, stateVars
<1>6. SubmissionOwns' /\ FlightAbove'
  BY DEF SubmissionOwns, FlightAbove, stateVars, PointHeld, HoldingPcs, TypeOK
<1>7. SignalQuiet' BY DEF SignalQuiet, TypeOK, stateVars
<1>8. FinishQuiet' BY DEF FinishQuiet, stateVars
<1>9. WaiterAtHead' BY DEF WaiterAtHead, stateVars
<1>10. TodoHasPoint'
  <2> SUFFICES ASSUME NEW u \in todo'
               PROVE  \E q \in Points :
                        /\ value[q] = u /\ ~ signaled'[q]
                        /\ pending[q] \/ \E d \in Clients : pc[d] = "submitted" /\ point[d] = q
    BY DEF TodoHasPoint, stateVars
  <2>1. u \in todo /\ u # value[p] OBVIOUS
  <2>2. PICK q \in Points :
          /\ value[q] = u /\ ~ signaled[q]
          /\ pending[q] \/ \E d \in Clients : pc[d] = "submitted" /\ point[d] = q
    BY <2>1 DEF TodoHasPoint
  <2>3. ~ signaled'[q] BY <2>1, <2>2 DEF TypeOK
  <2> QED BY <2>2, <2>3
<1>11. ResultReached' BY DEF ResultReached, stateVars
<1> QED BY <1>1, <1>2, <1>3, <1>4, <1>5, <1>6, <1>7, <1>8, <1>9, <1>10, <1>11

-----------------------------------------------------------------------------
(* Putting the steps together. *)

\* The invariant holds for a timeline that vk_sync_timeline_init has created.
LEMMA InitInv == Init => IndInv
<1> SUFFICES ASSUME Init PROVE IndInv OBVIOUS
<1> USE DEF Init
<1>1. TypeOK
  <2>1. highest_past \in Nat /\ highest_pending \in Nat BY MaxValueAssumption
  <2>2. pending_points \in Seq(Points) OBVIOUS
  <2>3. /\ free_points \in SUBSET Points /\ created \in SUBSET Points
        /\ value \in [Points -> Nat] /\ refcount \in [Points -> Nat]
        /\ pending \in [Points -> BOOLEAN] /\ signaled \in [Points -> BOOLEAN]
    OBVIOUS
  <2>4. /\ state_refcount \in Nat /\ freed \in BOOLEAN /\ alive \in BOOLEAN
        /\ mutex \in Clients \cup {NoClient} /\ todo \in SUBSET Nat
    BY Zenon
  <2>5. pc \in [Clients -> Pcs] BY DEF Pcs
  <2>6. /\ arg \in [Clients -> Nat] /\ kind \in [Clients -> {"pending", "complete"}]
        /\ point \in [Clients -> Points \cup {NoPoint}]
    OBVIOUS
  <2> QED BY <2>1, <2>2, <2>3, <2>4, <2>5, <2>6 DEF TypeOK
<1>2. MutexOwned /\ PointHeld BY DEF MutexOwned, PointHeld, LockedPcs, GcPcs, HoldingPcs
<1>3. PointLists /\ UsedIsCreated BY DEF PointLists, UsedIsCreated, RangeOf
<1>4. RefsExact
  <2>1. \A p \in Points : Holders(p) = {} BY NoneAssumption DEF Holders
  <2>2. \A p \in Points : Cardinality(Holders(p)) = 0 BY <2>1, FS_EmptySet, Zenon
  <2> QED BY <2>2 DEF RefsExact
<1>5. StateRefsExact
  <2>1. {p \in Points : refcount[p] > 0} = {} OBVIOUS
  <2>2. {c \in Clients : pc[c] = "unref_state"} = {} OBVIOUS
  <2>3. Cardinality({p \in Points : refcount[p] > 0}) = 0 BY <2>1, FS_EmptySet, Zenon
  <2>4. Cardinality({c \in Clients : pc[c] = "unref_state"}) = 0 BY <2>2, FS_EmptySet, Zenon
  <2>5. state_refcount = 1 /\ alive /\ ~ freed OBVIOUS
  <2> HIDE DEF Init
  <2> QED BY <2>3, <2>4, <2>5 DEF StateRefsExact
<1>6. PendingOrdered BY DEF PendingOrdered
<1>7. SubmissionOwns /\ FlightAbove /\ SignalQuiet
  BY DEF SubmissionOwns, FlightAbove, SignalQuiet, FlightPcs
<1>8. FinishQuiet /\ WaiterAtHead /\ TodoHasPoint /\ ResultReached
  BY DEF FinishQuiet, WaiterAtHead, TodoHasPoint, ResultReached
<1> QED BY <1>1, <1>2, <1>3, <1>4, <1>5, <1>6, <1>7, <1>8 DEF IndInv

CountersGrow == highest_past' >= highest_past /\ highest_pending' >= highest_pending

\* A step of a client keeps the invariant and moves no counter back.
LEMMA ClientStepInv ==
  ASSUME IndInv, NEW c \in Clients, ClientStep(c)
  PROVE  IndInv' /\ CountersGrow
<1>0. highest_past \in Nat /\ highest_pending \in Nat BY DEF IndInv, TypeOK
<1>1. ASSUME NEW l, NEW v, NEW k, Moves(c, l, v, k) PROVE IndInv' /\ CountersGrow
  <2>1. IndInv' BY <1>1, MovesStep
  <2>2. UNCHANGED << highest_past, highest_pending >> BY <1>1 DEF Moves, stateVars
  <2> QED BY <1>0, <2>1, <2>2 DEF CountersGrow
<1>2. ASSUME IndInv', UNCHANGED << highest_past, highest_pending >>
      PROVE  IndInv' /\ CountersGrow
  BY <1>0, <1>2 DEF CountersGrow
<1>3. CASE GcComplete(c)
  <2>1. IndInv' /\ highest_past' > highest_past BY <1>3, GcCompleteStep
  <2>2. highest_pending' = highest_pending BY <1>3 DEF GcComplete
  <2>3. highest_past' \in Nat BY <2>1 DEF IndInv, TypeOK
  <2> QED BY <1>0, <2>1, <2>2, <2>3 DEF CountersGrow
<1>4. CASE GcFail(c) BY <1>1, <1>4, GcFailStep
<1>5. ASSUME NEW v \in Values, AllocStart(c, v) PROVE IndInv' /\ CountersGrow
  BY <1>2, <1>5, AllocStartStep, Zenon DEF AllocStart, stateVars
<1>6. ASSUME NEW v \in Values, SignalStart(c, v) PROVE IndInv' /\ CountersGrow
  BY <1>2, <1>6, SignalStartStep, Zenon DEF SignalStart, stateVars
<1>7. ASSUME NEW p \in Points, NEW l, Takes(c, p, l) PROVE IndInv' /\ CountersGrow
  BY <1>2, <1>7, TakesStep, Zenon DEF Takes
<1>8. ASSUME NEW v \in Values, GetPoint(c, v) PROVE IndInv' /\ CountersGrow
  BY <1>7, <1>8, GetPointStep
<1>9. ASSUME NEW p \in Points, AllocPoint(c, p) PROVE IndInv' /\ CountersGrow
  BY <1>2, <1>9, AllocPointStep, Zenon DEF AllocPoint
<1>10. CASE AllocFail(c) BY <1>1, <1>10, AllocFailStep
<1>11. CASE DriverSubmit(c) BY <1>2, <1>11, DriverSubmitStep DEF DriverSubmit, stateVars
<1>12. CASE PointInstall(c)
  <2>1. IndInv' /\ highest_pending' > highest_pending BY <1>12, PointInstallStep
  <2>2. highest_past' = highest_past BY <1>12 DEF PointInstall
  <2>3. highest_pending' \in Nat BY <2>1 DEF IndInv, TypeOK
  <2> QED BY <1>0, <2>1, <2>2, <2>3 DEF CountersGrow
<1>13. CASE PointUnref(c) BY <1>2, <1>13, PointUnrefStep, Zenon DEF PointUnref
<1>14. CASE StateUnref(c) BY <1>2, <1>14, StateUnrefStep DEF StateUnref
<1>15. CASE SignalReject(c) BY <1>1, <1>15, SignalRejectStep
<1>16. CASE SignalAdvance(c)
  <2>1. IndInv' /\ highest_past' > highest_past /\ highest_pending' > highest_pending
    BY <1>16, SignalAdvanceStep
  <2>2. highest_past' \in Nat /\ highest_pending' \in Nat BY <2>1 DEF IndInv, TypeOK
  <2> QED BY <1>0, <2>1, <2>2 DEF CountersGrow
<1>17. CASE ValueStart(c) BY <1>1, <1>17, ValueStartStep
<1>18. CASE ValueUnlock(c) BY <1>1, <1>18, ValueUnlockStep
<1>19. CASE ValueRead(c) BY <1>1, <1>19, ValueReadStep
<1>20. ASSUME NEW v \in 0 .. MaxValue, NEW k \in {"pending", "complete"}, WaitStart(c, v, k)
       PROVE  IndInv' /\ CountersGrow
  <2>1. v \in Nat BY MaxValueAssumption
  <2> QED BY <1>1, <1>20, <2>1, WaitStartStep
<1>21. CASE WaitWoken(c) BY <1>1, <1>21, WaitWokenStep
<1>22. CASE WaitTimeout(c) BY <1>1, <1>22, WaitTimeoutStep
<1>23. CASE WaitDone(c) BY <1>1, <1>23, WaitDoneStep
<1>24. CASE WaitOnPoint(c) BY <1>7, <1>24, WaitOnPointStep
<1>25. CASE WaitRelock(c)
  <2>1. IndInv' /\ highest_past' >= highest_past BY <1>25, WaitRelockStep
  <2>2. highest_pending' = highest_pending BY <1>25 DEF WaitRelock
  <2> QED BY <1>0, <2>1, <2>2 DEF CountersGrow
<1>26. CASE WaitSyncFail(c) BY <1>2, <1>26, WaitSyncFailStep, Zenon DEF WaitSyncFail
<1>27. CASE Return(c) BY <1>1, <1>27, ReturnStep
<1>28. CASE FinishStart(c) BY <1>2, <1>28, FinishStartStep, Zenon DEF FinishStart, stateVars
<1>29. CASE FinishUnlock(c) BY <1>2, <1>29, FinishUnlockStep, Zenon DEF FinishUnlock
<1> QED BY <1>3, <1>4, <1>5, <1>6, <1>8, <1>9, <1>10, <1>11, <1>12, <1>13, <1>14, <1>15,
           <1>16, <1>17, <1>18, <1>19, <1>20, <1>21, <1>22, <1>23, <1>24, <1>25, <1>26,
           <1>27, <1>28, <1>29 DEF ClientStep

\* A step in which nothing changes keeps the invariant.
LEMMA StutterInv ==
  ASSUME IndInv, UNCHANGED vars
  PROVE  IndInv' /\ CountersGrow
<1> USE DEF vars, stateVars, clientVars, IndInv
<1>1. TypeOK' BY DEF TypeOK
<1>2. PointLists' /\ UsedIsCreated' /\ RefsExact' /\ PendingOrdered' BY FrameState
<1>3. StateRefsExact' BY Zenon DEF StateRefsExact
<1>4. MutexOwned' /\ PointHeld' /\ FlightAbove' BY Zenon DEF MutexOwned, PointHeld, FlightAbove
<1>5. SubmissionOwns' /\ SignalQuiet' BY DEF SubmissionOwns, SignalQuiet
<1>6. FinishQuiet' /\ WaiterAtHead' BY DEF FinishQuiet, WaiterAtHead
<1>7. TodoHasPoint' /\ ResultReached' BY DEF TodoHasPoint, ResultReached
<1>8. CountersGrow BY DEF CountersGrow, TypeOK
<1> QED BY <1>1, <1>2, <1>3, <1>4, <1>5, <1>6, <1>7, <1>8

\* Every step of the timeline keeps the invariant and moves no counter back.
LEMMA NextInv == IndInv /\ [Next]_vars => IndInv' /\ CountersGrow
<1> SUFFICES ASSUME IndInv, [Next]_vars PROVE IndInv' /\ CountersGrow OBVIOUS
<1>1. ASSUME NEW c \in Clients, ClientStep(c) PROVE IndInv' /\ CountersGrow
  BY <1>1, ClientStepInv
<1>2. ASSUME NEW p \in Points, GpuSignal(p) PROVE IndInv' /\ CountersGrow
  <2>1. IndInv' BY <1>2, GpuSignalStep
  <2>2. UNCHANGED << highest_past, highest_pending >> BY <1>2 DEF GpuSignal, stateVars
  <2>3. highest_past \in Nat /\ highest_pending \in Nat BY DEF IndInv, TypeOK
  <2> QED BY <2>1, <2>2, <2>3 DEF CountersGrow
<1>3. CASE Terminated \/ UNCHANGED vars BY <1>3, StutterInv DEF Terminated
<1> QED BY <1>1, <1>2, <1>3 DEF Next

-----------------------------------------------------------------------------
(* The theorems. *)

\* IndInv is an invariant of the timeline.
THEOREM TimelineInvariant == Spec => []IndInv
<1>1. Init => IndInv BY InitInv
<1>2. IndInv /\ [Next]_vars => IndInv' BY NextInv
<1> QED BY <1>1, <1>2, PTL DEF Spec

\* Type correctness: in particular no reference count of a point or of the state ever
\* becomes negative, whatever calls race.
THEOREM TimelineTypeOK == Spec => []TypeOK
<1>1. IndInv => TypeOK BY DEF IndInv
<1> QED BY <1>1, TimelineInvariant, PTL

\* Every point is linked in pending_points exactly while it is pending and in free_points
\* exactly while nobody refers to it.
THEOREM TimelinePointLists == Spec => []PointLists
<1>1. IndInv => PointLists BY DEF IndInv
<1> QED BY <1>1, TimelineInvariant, PTL

\* The reference counts of the points are exact: no leak, no double unref.
THEOREM TimelineRefsExact == Spec => []RefsExact
<1>1. IndInv => RefsExact BY DEF IndInv
<1> QED BY <1>1, TimelineInvariant, PTL

\* The state is freed exactly when its last user is gone, and not used afterwards.
THEOREM TimelineStateRefsExact == Spec => []StateRefsExact
<1>1. IndInv => StateRefsExact BY DEF IndInv
<1> QED BY <1>1, TimelineInvariant, PTL

\* The pending list is sorted and lies between the two counters.
THEOREM TimelinePendingOrdered == Spec => []PendingOrdered
<1>1. IndInv => PendingOrdered BY DEF IndInv
<1> QED BY <1>1, TimelineInvariant, PTL

\* vk_sync_timeline_get_point finds a point for every value that has been submitted and
\* is not past.
THEOREM TimelinePendingValueHasPoint == Spec => []PendingValueHasPoint
<1>1. IndInv => PendingValueHasPoint
  <2> SUFFICES ASSUME IndInv, NEW v \in Values, v <= highest_pending, ~ (v <= highest_past)
               PROVE  \E i \in 1 .. Len(pending_points) : value[pending_points[i]] >= v
    BY DEF PendingValueHasPoint
  <2>1. v \in Nat /\ highest_pending \in Nat /\ pending_points \in Seq(Points)
    BY DEF IndInv, TypeOK, Values
  <2>2. pending_points # << >> BY DEF IndInv, PendingOrdered
  <2>3. Len(pending_points) \in 1 .. Len(pending_points) BY <2>1, <2>2, TailFacts
  <2>4. value[pending_points[Len(pending_points)]] = highest_pending
    BY <2>2 DEF IndInv, PendingOrdered
  <2> QED BY <2>1, <2>3, <2>4
<1> QED BY <1>1, TimelineInvariant, PTL

\* A successful wait for v, or a counter value v that was read, means that every signal
\* operation up to v has executed.
THEOREM TimelineResultSound == Spec => []ResultSound
<1>1. IndInv => ResultSound
  <2> SUFFICES ASSUME IndInv, NEW c \in Clients, pc[c] = "ok", kind[c] = "complete"
               PROVE  arg[c] <= highest_past /\ \A u \in todo : arg[c] < u
    BY DEF ResultSound
  <2>1. arg[c] <= highest_past BY DEF IndInv, ResultReached
  <2>2. \A u \in todo : highest_past < u /\ u \in Nat BY PastBelow DEF IndInv, TypeOK
  <2>3. arg[c] \in Nat /\ highest_past \in Nat BY DEF IndInv, TypeOK
  <2> QED BY <2>1, <2>2, <2>3
<1> QED BY <1>1, TimelineInvariant, PTL

\* The two counters of a timeline never decrease.
THEOREM TimelineCountersMonotone == Spec => CountersMonotone
<1>1. IndInv /\ [Next]_vars =>
        [highest_past' >= highest_past /\ highest_pending' >= highest_pending]_vars
  BY NextInv DEF CountersGrow
<1> QED BY <1>1, TimelineInvariant, PTL DEF Spec, CountersMonotone

\* Only vk_sync_timeline_alloc_point_locked gives a point a new value and resets its sync.
LEMMA OnlyAllocReuses ==
  ASSUME IndInv, [Next]_vars, NEW p \in Points
  PROVE  \/ value'[p] = value[p] /\ (signaled[p] => signaled'[p])
         \/ \E c \in Clients : AllocPoint(c, p)
<1>1. ASSUME NEW c \in Clients, NEW q \in Points, AllocPoint(c, q), q # p
      PROVE  value'[p] = value[p] /\ signaled'[p] = signaled[p]
  BY <1>1, Zenon DEF AllocPoint, IndInv, TypeOK
<1>2. ASSUME NEW q \in Points, GpuSignal(q)
      PROVE  value'[p] = value[p] /\ (signaled[p] => signaled'[p])
  BY <1>2 DEF GpuSignal, stateVars, IndInv, TypeOK
<1>3. ASSUME NEW c \in Clients, ClientStep(c), \A q \in Points : ~ AllocPoint(c, q)
      PROVE  value' = value /\ signaled' = signaled
  <2>1. CASE \/ GcComplete(c) \/ GcFail(c) \/ AllocFail(c) \/ DriverSubmit(c)
             \/ PointInstall(c) \/ PointUnref(c) \/ StateUnref(c)
    BY <2>1 DEF GcComplete, GcFail, AllocFail, DriverSubmit, PointInstall, PointUnref, StateUnref,
                stateVars
  <2>2. CASE \E v \in Values : AllocStart(c, v) \/ SignalStart(c, v) \/ GetPoint(c, v)
    BY <2>2, Zenon DEF AllocStart, SignalStart, GetPoint, stateVars
  <2>3. CASE \/ SignalReject(c) \/ SignalAdvance(c) \/ ValueStart(c) \/ ValueUnlock(c)
             \/ ValueRead(c) \/ Return(c) \/ FinishStart(c) \/ FinishUnlock(c)
    BY <2>3, Zenon DEF SignalReject, SignalAdvance, ValueStart, ValueUnlock, ValueRead, Return,
                FinishStart, FinishUnlock, stateVars, pointVars
  <2>4. CASE \E v \in 0 .. MaxValue, k \in {"pending", "complete"} : WaitStart(c, v, k)
    BY <2>4 DEF WaitStart, stateVars
  <2>5. CASE \/ WaitWoken(c) \/ WaitTimeout(c) \/ WaitDone(c) \/ WaitOnPoint(c)
             \/ WaitRelock(c) \/ WaitSyncFail(c)
    BY <2>5, Zenon DEF WaitWoken, WaitTimeout, WaitDone, WaitOnPoint, WaitRelock, WaitSyncFail, stateVars
  <2> QED BY <1>3, <2>1, <2>2, <2>3, <2>4, <2>5 DEF ClientStep
<1>4. CASE Terminated \/ UNCHANGED vars BY <1>4, Zenon DEF Terminated, vars, stateVars
<1> QED BY <1>1, <1>2, <1>3, <1>4 DEF Next

\* A point that a client holds is not recycled: its value and its signal stay.
THEOREM TimelineHeldPointStable == Spec => HeldPointStable
<1> DEFINE Stable == \A c \in Clients, p \in Points :
                       point[c] = p /\ point'[c] = p =>
                         value'[p] = value[p] /\ (signaled[p] => signaled'[p])
<1>1. IndInv /\ [Next]_vars => Stable
  <2> SUFFICES ASSUME IndInv, [Next]_vars, NEW c \in Clients, NEW p \in Points,
                      point[c] = p, point'[c] = p
               PROVE  value'[p] = value[p] /\ (signaled[p] => signaled'[p])
    OBVIOUS
  <2>1. ~ \E d \in Clients : AllocPoint(d, p)
    <3> SUFFICES ASSUME NEW d \in Clients, AllocPoint(d, p) PROVE FALSE OBVIOUS
    <3>1. refcount[p] = 0 BY DEF AllocPoint, IndInv, PointLists, UsedIsCreated, TypeOK
    <3>2. TypeOK /\ RefsExact BY DEF IndInv
    <3>3. refcount[p] >= 1 BY <3>2, RefFacts
    <3> QED BY <3>1, <3>3
  <2> QED BY <2>1, OnlyAllocReuses
<1>2. IndInv /\ [Next]_vars => [Stable]_vars BY <1>1, Zenon
<1> QED BY <1>2, TimelineInvariant, PTL DEF Spec, HeldPointStable
=============================================================================
