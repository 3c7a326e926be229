----------------------- MODULE VkSyncTimelineReleases -----------------------
(***************************************************************************)
(* The steps of VkSyncTimeline that give up references keep the inductive  *)
(* invariant: the garbage collection, the end of a wait for a point, unref *)
(* of a point and of the state.                                            *)
(***************************************************************************)
EXTENDS VkSyncTimelineFacts

\* One round of vk_sync_timeline_gc_locked: the first point has signaled and completes.
LEMMA GcCompleteStep ==
  ASSUME IndInv, NEW c \in Clients, GcComplete(c)
  PROVE  IndInv' /\ highest_past' > highest_past
<1> DEFINE p == Head(pending_points)
<1>0. /\ pc[c] \in GcPcs /\ mutex = c
      /\ pending_points # << >> /\ signaled[p]
      /\ highest_past' = value[p]
      /\ pending' = [pending EXCEPT ![p] = FALSE]
      /\ pending_points' = Tail(pending_points)
      /\ UnrefPointLocked(p, 1)
      /\ UNCHANGED << highest_pending, created, value, freed, alive, mutex, signaled, todo,
                      pc, arg, kind, point >>
  BY DEF GcComplete, GcStops, clientVars
<1> USE DEF IndInv
<1>1. p \in Points /\ pending[p] /\ pending_points \in Seq(Points)
  BY <1>0, TailFacts DEF TypeOK, PointLists, RangeOf
<1>2. refcount[p] >= 1 BY <1>1, RefFacts
<1>3. pc[c] \in LockedPcs BY <1>0 DEF LockedPcs
<1>4. /\ refcount' \in [Points -> Nat] /\ free_points' \in SUBSET Points
      /\ \A q \in created' : q \in free_points' <=> refcount'[q] = 0
      /\ free_points' \subseteq created'
      /\ UsedIsCreated'
      /\ Cardinality(InUse') \in Nat
      /\ state_refcount' = state_refcount + (Cardinality(InUse') - Cardinality(InUse))
  BY <1>0, <1>1, <1>2, UnrefFacts
<1>5. /\ pending_points' \in Seq(Points)
      /\ pending' \in [Points -> BOOLEAN] /\ highest_past' \in Nat
      /\ \A q \in Points : pending'[q] <=> q \in RangeOf(pending_points')
      /\ \A i, j \in 1 .. Len(pending_points') :
           pending_points'[i] = pending_points'[j] => i = j
      /\ PendingOrdered'
      /\ highest_past' > highest_past
  BY <1>0, CompleteHead
<1>6. Dropping' = Dropping BY <1>0 DEF Dropping
<1>7. StateRefsExact' /\ state_refcount' \in Nat
  <2>1. alive /\ alive' BY <1>0, <1>3, CollectorFacts
  <2>2. Cardinality(Dropping) \in Nat /\ Cardinality(InUse) \in Nat BY StateCounts
  <2>3. state_refcount' = state_refcount + (Cardinality(InUse') - Cardinality(InUse))
                          + (Cardinality(Dropping') - Cardinality(Dropping))
    BY <1>4, <1>6, <2>2 DEF TypeOK
  <2> QED BY <1>0, <1>4, <1>6, <2>1, <2>2, <2>3, AliveStateRefs
<1>8. TypeOK' BY <1>0, <1>4, <1>5, <1>7, Zenon DEF TypeOK
<1>9. MutexOwned' /\ PointHeld' BY <1>0 DEF MutexOwned, PointHeld
<1>10. PointLists' BY <1>4, <1>5 DEF PointLists
<1>11. RefsExact'
  <2>1. point[c] = NoPoint /\ p # NoPoint BY <1>1, <1>3, CollectorFacts, NoneAssumption
  <2>2. refcount'[p] = refcount[p] - 1 /\ refcount[p] \in Nat
    BY <1>0, <1>1 DEF UnrefPointLocked, TypeOK
  <2>3. \A q \in Points \ {p} : refcount'[q] = refcount[q] /\ pending'[q] = pending[q]
    BY <1>0, <1>1, Zenon DEF UnrefPointLocked, TypeOK
  <2>4. ~ pending'[p] BY <1>0, <1>1 DEF TypeOK
  <2>5. refcount'[p] = refcount[p]
                       + (IF point'[c] = p THEN 1 ELSE 0) - (IF point[c] = p THEN 1 ELSE 0)
                       + (IF pending'[p] THEN 1 ELSE 0) - (IF pending[p] THEN 1 ELSE 0)
    <3> HIDE DEF p
    <3> QED BY <1>0, <1>1, <2>1, <2>2, <2>4
  <2> HIDE DEF p, IndInv
  <2>6. TypeOK /\ RefsExact /\ \A d \in Clients \ {c} : point'[d] = point[d]
    BY <1>0 DEF IndInv
  <2>7. point[c] \in {p, NoPoint} /\ point'[c] \in {p, NoPoint} BY <1>0, <2>1
  <2> QED BY <1>1, <2>3, <2>5, <2>6, <2>7, RefsUpdate
<1>12. SubmissionOwns' BY <1>0, <1>1 DEF SubmissionOwns, PointHeld, HoldingPcs, TypeOK
<1>13. FlightAbove' BY <1>0 DEF FlightAbove
<1>14. SignalQuiet' BY <1>0, <1>1, TailFacts DEF SignalQuiet
<1>15. FinishQuiet' BY <1>0 DEF FinishQuiet
<1>16. WaiterAtHead'
  BY <1>0, <1>1 DEF WaiterAtHead, PointHeld, HoldingPcs, TypeOK
<1>17. TodoHasPoint'
  <2>1. \A q \in Points : ~ signaled[q] => q # p /\ pending'[q] = pending[q]
    BY <1>0, <1>1, Zenon DEF TypeOK
  <2> QED BY <1>0, <2>1 DEF TodoHasPoint
<1>18. ResultReached' BY <1>0, <1>5 DEF ResultReached, TypeOK
<1> QED BY <1>4, <1>5, <1>7, <1>8, <1>9, <1>10, <1>11, <1>12, <1>13, <1>14, <1>15, <1>16,
           <1>17, <1>18

\* A waiter re-takes the mutex after its point has signaled, completes the point unless
\* somebody did, and drops its reference.
LEMMA WaitRelockStep ==
  ASSUME IndInv, NEW c \in Clients, WaitRelock(c)
  PROVE  IndInv' /\ highest_past' >= highest_past
<1> DEFINE p == point[c]
           n == IF pending[p] THEN 2 ELSE 1
<1>0. /\ pc[c] = "wait_sync" /\ signaled[p]
      /\ mutex = NoClient /\ mutex' = c
      /\ highest_past' = (IF pending[p] THEN value[p] ELSE highest_past)
      /\ pending_points' = (IF pending[p] THEN Without(pending_points, p) ELSE pending_points)
      /\ UnrefPointLocked(p, n)
      /\ pending' = [pending EXCEPT ![p] = FALSE]
      /\ point' = [point EXCEPT ![c] = NoPoint]
      /\ pc' = [pc EXCEPT ![c] = "wait_loop"]
      /\ UNCHANGED << highest_pending, created, value, freed, alive, signaled, todo, arg, kind >>
  BY DEF WaitRelock, Lock, Goto
<1> USE DEF IndInv
<1>1. p \in Points /\ p # NoPoint
  BY <1>0, NoneAssumption DEF TypeOK, PointHeld, HoldingPcs
<1>2. refcount[p] >= n /\ n \in {1, 2} /\ refcount[p] \in Nat BY <1>1, RefFacts DEF TypeOK
<1>3. alive BY <1>0 DEF FinishQuiet, IdlePcs
<1>4. /\ refcount' \in [Points -> Nat] /\ free_points' \in SUBSET Points
      /\ \A q \in created' : q \in free_points' <=> refcount'[q] = 0
      /\ free_points' \subseteq created'
      /\ UsedIsCreated'
      /\ Cardinality(InUse') \in Nat
      /\ state_refcount' = state_refcount + (Cardinality(InUse') - Cardinality(InUse))
  <2> HIDE DEF p, n
  <2> QED BY <1>0, <1>1, <1>2, UnrefFacts
<1>5. /\ pending_points' \in Seq(Points)
      /\ pending' \in [Points -> BOOLEAN] /\ highest_past' \in Nat
      /\ \A q \in Points : pending'[q] <=> q \in RangeOf(pending_points')
      /\ \A i, j \in 1 .. Len(pending_points') :
           pending_points'[i] = pending_points'[j] => i = j
      /\ PendingOrdered'
      /\ highest_past' >= highest_past
  <2>1. CASE pending[p]
    <3>1. pending_points # << >> /\ p = Head(pending_points) BY <1>0, <2>1 DEF WaiterAtHead
    <3>2. pending_points' = Tail(pending_points)
      BY <1>0, <2>1, <3>1, WithoutHead, Zenon DEF TypeOK, PointLists, Distinct
    <3>3. highest_past' > highest_past /\ highest_past' \in Nat
      BY <1>0, <2>1, <3>1, <3>2, CompleteHead
    <3>4. highest_past' >= highest_past BY <3>3 DEF TypeOK
    <3> QED BY <1>0, <2>1, <3>1, <3>2, <3>4, CompleteHead
  <2>2. CASE ~ pending[p]
    <3>1. pending' = pending /\ pending_points' = pending_points /\ highest_past' = highest_past
      BY <1>0, <1>1, <2>2 DEF TypeOK
    <3>2. PendingOrdered' BY <1>0, <3>1 DEF PendingOrdered
    <3>3. highest_past' >= highest_past BY <3>1 DEF TypeOK
    <3> QED BY <3>1, <3>2, <3>3 DEF TypeOK, PointLists
  <2> QED BY <2>1, <2>2
<1>6. Dropping' = Dropping BY <1>0 DEF Dropping, TypeOK
<1>7. StateRefsExact' /\ state_refcount' \in Nat
  <2>1. Cardinality(Dropping) \in Nat /\ Cardinality(InUse) \in Nat BY StateCounts
  <2>2. state_refcount' = state_refcount + (Cardinality(InUse') - Cardinality(InUse))
                          + (Cardinality(Dropping') - Cardinality(Dropping))
    BY <1>4, <1>6, <2>1 DEF TypeOK
  <2> QED BY <1>0, <1>3, <1>4, <1>6, <2>1, <2>2, AliveStateRefs
<1>8. TypeOK'
  <2>1. pc' \in [Clients -> Pcs] BY <1>0 DEF TypeOK, Pcs, LockedPcs
  <2>2. point' \in [Clients -> Points \cup {NoPoint}] BY <1>0 DEF TypeOK
  <2>3. mutex' \in Clients \cup {NoClient} BY <1>0
  <2> QED BY <1>0, <1>4, <1>5, <1>7, <2>1, <2>2, <2>3 DEF TypeOK
<1>9. MutexOwned' BY <1>0, NoneAssumption DEF MutexOwned, TypeOK
<1>10. PointHeld' BY <1>0 DEF PointHeld, TypeOK, HoldingPcs
<1>11. PointLists' BY <1>4, <1>5 DEF PointLists
<1>12. RefsExact'
  <2>1. refcount'[p] = refcount[p] - n
    BY <1>0, <1>1 DEF UnrefPointLocked, TypeOK
  <2>2. \A q \in Points \ {p} : refcount'[q] = refcount[q] /\ pending'[q] = pending[q]
    BY <1>0, <1>1 DEF UnrefPointLocked, TypeOK
  <2>3. ~ pending'[p] /\ point'[c] = NoPoint /\ point[c] = p BY <1>0, <1>1 DEF TypeOK
  <2>4. refcount'[p] = refcount[p]
                       + (IF point'[c] = p THEN 1 ELSE 0) - (IF point[c] = p THEN 1 ELSE 0)
                       + (IF pending'[p] THEN 1 ELSE 0) - (IF pending[p] THEN 1 ELSE 0)
    <3>1. CASE pending[p] BY <1>1, <1>2, <2>1, <2>3, <3>1
    <3>2. CASE ~ pending[p] BY <1>1, <1>2, <2>1, <2>3, <3>2
    <3> QED BY <3>1, <3>2
  <2>5. TypeOK /\ RefsExact /\ \A d \in Clients \ {c} : point'[d] = point[d]
    BY <1>0 DEF TypeOK
  <2>6. point[c] \in {p, NoPoint} /\ point'[c] \in {p, NoPoint} BY <2>3
  <2> HIDE DEF p, n, IndInv
  <2> QED BY <1>1, <2>2, <2>4, <2>5, <2>6, RefsUpdate
<1>13. SubmissionOwns'
  <2>1. \A q \in Points : pending'[q] => pending[q] BY <1>0, <1>1 DEF TypeOK
  <2> QED BY <1>0, <1>1, <2>1, NoneAssumption DEF SubmissionOwns, PointHeld, HoldingPcs, TypeOK
<1>14. FlightAbove' BY <1>0 DEF FlightAbove, FlightPcs, TypeOK
<1>15. SignalQuiet'
  BY <1>0, NoneAssumption DEF SignalQuiet, MutexOwned, LockedPcs, GcPcs, TypeOK
<1>16. FinishQuiet'
  BY <1>0, <1>3, NoneAssumption DEF FinishQuiet, MutexOwned, LockedPcs, GcPcs, TypeOK
<1>17. WaiterAtHead'
  <2> SUFFICES ASSUME NEW d \in Clients
               PROVE  /\ pc'[d] \in {"wait_gc", "wait_loop", "wait_sync"} =>
                           arg[d] <= highest_pending
                      /\ pc'[d] = "wait_sync" /\ pending'[point'[d]] =>
                           pending_points' # << >> /\ point'[d] = Head(pending_points')
    BY <1>0 DEF WaiterAtHead
  <2>1. pc'[d] \in {"wait_gc", "wait_loop", "wait_sync"} => arg[d] <= highest_pending
    BY <1>0 DEF WaiterAtHead, TypeOK
  <2>2. ASSUME pc'[d] = "wait_sync", pending'[point'[d]]
        PROVE  pending_points' # << >> /\ point'[d] = Head(pending_points')
    <3>1. d # c /\ pc[d] = "wait_sync" /\ point'[d] = point[d] BY <1>0, <2>2 DEF TypeOK
    <3>2. point[d] \in Points BY <3>1 DEF TypeOK, PointHeld, HoldingPcs
    <3>3. pending[point[d]] /\ point[d] # p BY <1>0, <1>1, <2>2, <3>1, <3>2 DEF TypeOK
    <3>4. pending_points # << >> /\ point[d] = Head(pending_points)
      BY <3>1, <3>3 DEF WaiterAtHead
    <3>5. ~ pending[p] BY <1>0, <3>3, <3>4 DEF WaiterAtHead
    <3> QED BY <1>0, <3>1, <3>4, <3>5
  <2> QED BY <2>1, <2>2
<1>18. TodoHasPoint'
  <2>1. \A q \in Points : ~ signaled[q] => q # p /\ pending'[q] = pending[q]
    BY <1>0, <1>1, Zenon DEF TypeOK
  <2>2. \A d \in Clients : pc[d] = "submitted" => pc'[d] = "submitted" /\ point'[d] = point[d]
    BY <1>0 DEF TypeOK
  <2> QED BY <1>0, <2>1, <2>2 DEF TodoHasPoint
<1>19. ResultReached' BY <1>0, <1>5 DEF ResultReached, TypeOK
<1> QED BY <1>4, <1>5, <1>7, <1>8, <1>9, <1>10, <1>11, <1>12, <1>13, <1>14, <1>15, <1>16,
           <1>17, <1>18, <1>19

\* Dropping one reference that is not the pending list's: the reference counts stay exact.
LEMMA DropRefs ==
  ASSUME IndInv, NEW c \in Clients, NEW p \in Points, point[c] = p,
         refcount' = [refcount EXCEPT ![p] = @ - 1],
         point' = [point EXCEPT ![c] = NoPoint], pending' = pending
  PROVE  RefsExact'
<1>1. TypeOK /\ RefsExact /\ \A d \in Clients \ {c} : point'[d] = point[d]
  BY DEF IndInv, TypeOK
<1>2. \A q \in Points \ {p} : refcount'[q] = refcount[q] /\ pending'[q] = pending[q]
  BY DEF IndInv, TypeOK
<1>3. p # NoPoint /\ point'[c] = NoPoint BY NoneAssumption DEF IndInv, TypeOK
<1>4. refcount'[p] = refcount[p] - 1 /\ refcount[p] \in Nat /\ pending'[p] = pending[p]
  BY DEF IndInv, TypeOK
<1>5. refcount'[p] = refcount[p]
                     + (IF point'[c] = p THEN 1 ELSE 0) - (IF point[c] = p THEN 1 ELSE 0)
                     + (IF pending'[p] THEN 1 ELSE 0) - (IF pending[p] THEN 1 ELSE 0)
  BY <1>3, <1>4
<1> QED BY <1>1, <1>2, <1>3, <1>5, RefsUpdate

\* A wait that failed or timed out drops its reference.
LEMMA WaitSyncFailStep ==
  ASSUME IndInv, NEW c \in Clients, WaitSyncFail(c)
  PROVE  IndInv'
<1> DEFINE p == point[c]
<1>0. /\ pc[c] = "wait_sync" /\ mutex = NoClient /\ mutex' = NoClient
      /\ UnrefPointLocked(p, 1)
      /\ point' = [point EXCEPT ![c] = NoPoint]
      /\ pc' = [pc EXCEPT ![c] = "idle"]
      /\ arg' = [arg EXCEPT ![c] = 0] /\ kind' = [kind EXCEPT ![c] = "complete"]
      /\ UNCHANGED << highest_past, highest_pending, pending_points, created, value, pending,
                      freed, alive, signaled, todo >>
  BY DEF WaitSyncFail, LockUnlock, Goto, Leave
<1> USE DEF IndInv
<1>1. p \in Points BY <1>0 DEF TypeOK, PointHeld, HoldingPcs
<1>2. refcount[p] >= 1 BY <1>1, RefFacts
<1>3. alive BY <1>0 DEF FinishQuiet, IdlePcs
<1>4. /\ refcount' \in [Points -> Nat] /\ free_points' \in SUBSET Points
      /\ \A q \in created' : q \in free_points' <=> refcount'[q] = 0
      /\ free_points' \subseteq created'
      /\ UsedIsCreated'
      /\ Cardinality(InUse') \in Nat
      /\ state_refcount' = state_refcount + (Cardinality(InUse') - Cardinality(InUse))
  <2> HIDE DEF p
  <2> QED BY <1>0, <1>1, <1>2, UnrefFacts
<1>5. Dropping' = Dropping BY <1>0 DEF Dropping, TypeOK
<1>6. StateRefsExact' /\ state_refcount' \in Nat
  <2>1. Cardinality(Dropping) \in Nat /\ Cardinality(InUse) \in Nat BY StateCounts
  <2>2. state_refcount' = state_refcount + (Cardinality(InUse') - Cardinality(InUse))
                          + (Cardinality(Dropping') - Cardinality(Dropping))
    BY <1>4, <1>5, <2>1 DEF TypeOK
  <2> QED BY <1>0, <1>3, <1>4, <1>5, <2>1, <2>2, AliveStateRefs
<1>7. TypeOK'
  <2>1. pc' \in [Clients -> Pcs] BY <1>0 DEF TypeOK, Pcs
  <2>2. point' \in [Clients -> Points \cup {NoPoint}] /\ arg' \in [Clients -> Nat]
    BY <1>0 DEF TypeOK
  <2>3. kind' \in [Clients -> {"pending", "complete"}] BY <1>0 DEF TypeOK
  <2> QED BY <1>0, <1>4, <1>6, <2>1, <2>2, <2>3 DEF TypeOK
<1>8. MutexOwned' BY <1>0 DEF MutexOwned, TypeOK, LockedPcs, GcPcs
<1>9. PointHeld' BY <1>0 DEF PointHeld, TypeOK, HoldingPcs
<1>10. PointLists' BY <1>0, <1>4 DEF PointLists, RangeOf
<1>11. RefsExact' BY <1>0, <1>1, DropRefs, Zenon DEF UnrefPointLocked
<1>12. PendingOrdered' BY <1>0 DEF PendingOrdered
<1>13. SubmissionOwns'
  BY <1>0, <1>1, NoneAssumption DEF SubmissionOwns, PointHeld, HoldingPcs, TypeOK
<1>14. FlightAbove' BY <1>0 DEF FlightAbove, FlightPcs, TypeOK
<1>15. SignalQuiet' BY <1>0 DEF SignalQuiet, FlightPcs, TypeOK
<1>16. FinishQuiet' BY <1>0 DEF FinishQuiet, IdlePcs, TypeOK
<1>17. WaiterAtHead' BY <1>0 DEF WaiterAtHead, TypeOK
<1>18. TodoHasPoint'
  <2>1. \A d \in Clients : pc[d] = "submitted" => pc'[d] = "submitted" /\ point'[d] = point[d]
    BY <1>0 DEF TypeOK
  <2> QED BY <1>0, <2>1 DEF TodoHasPoint
<1>19. ResultReached' BY <1>0 DEF ResultReached, TypeOK
<1> QED BY <1>4, <1>6, <1>7, <1>8, <1>9, <1>10, <1>11, <1>12, <1>13, <1>14, <1>15, <1>16,
           <1>17, <1>18, <1>19

\* vk_sync_timeline_point_unref: the last reference leaves a state reference to drop.
LEMMA PointUnrefStep ==
  ASSUME IndInv, NEW c \in Clients, PointUnref(c)
  PROVE  IndInv'
<1> DEFINE p == point[c]
           l == IF refcount[p] = 1 THEN "unref_state" ELSE "idle"
<1>0. /\ pc[c] \in {"alloced", "got"} /\ mutex = NoClient /\ mutex' = NoClient
      /\ refcount' = [refcount EXCEPT ![p] = @ - 1]
      /\ free_points' = (IF refcount[p] = 1 THEN free_points \cup {p} ELSE free_points)
      /\ point' = [point EXCEPT ![c] = NoPoint]
      /\ pc' = [pc EXCEPT ![c] = l]
      /\ arg' = [arg EXCEPT ![c] = 0] /\ kind' = [kind EXCEPT ![c] = "complete"]
      /\ UNCHANGED << highest_past, highest_pending, pending_points, created, value, pending,
                      state_refcount, freed, alive, signaled, todo >>
  BY DEF PointUnref, LockUnlock, Goto, Leave
<1> USE DEF IndInv
<1>1. p \in Points BY <1>0 DEF TypeOK, PointHeld, HoldingPcs
<1>2. refcount[p] >= 1 /\ refcount[p] \in Nat BY <1>1, RefFacts DEF TypeOK
<1>3. l \in {"idle", "unref_state"} OBVIOUS
<1>4. p \in created BY <1>1, <1>2 DEF UsedIsCreated
<1>5. refcount'[p] = refcount[p] - 1 /\ \A q \in Points \ {p} : refcount'[q] = refcount[q]
  BY <1>0, <1>1 DEF TypeOK
<1>6. StateRefsExact'
  <2>1. ~ freed BY <1>1, <1>2, FreedFacts
  <2>2. /\ Cardinality(InUse) \in Nat /\ Cardinality(InUse') \in Nat
        /\ refcount[p] # 1 => Cardinality(InUse') = Cardinality(InUse)
        /\ refcount[p] = 1 => Cardinality(InUse') = Cardinality(InUse) - 1
    BY <1>1, <1>2, <1>5, InUseUpdate
  <2>3. /\ \A d \in Clients \ {c} : pc'[d] = "unref_state" <=> pc[d] = "unref_state"
        /\ pc[c] # "unref_state"
        /\ pc'[c] = "unref_state" <=> refcount[p] = 1
    BY <1>0 DEF TypeOK
  <2>4. /\ Cardinality(Dropping) \in Nat /\ Cardinality(Dropping') \in Nat
        /\ refcount[p] # 1 => Cardinality(Dropping') = Cardinality(Dropping)
        /\ refcount[p] = 1 => Cardinality(Dropping') = Cardinality(Dropping) + 1
    <3> HIDE DEF IndInv, p, l
    <3> QED BY <2>3, DroppingUpdate
  <2>5. state_refcount = (IF alive THEN 1 ELSE 0) + Cardinality(InUse) + Cardinality(Dropping)
    BY DEF StateRefsExact, InUse, Dropping
  <2>6. Cardinality(InUse) + Cardinality(Dropping) = Cardinality(InUse') + Cardinality(Dropping')
    <3>1. CASE refcount[p] = 1 BY <2>2, <2>4, <3>1
    <3>2. CASE refcount[p] # 1 BY <2>2, <2>4, <3>2
    <3> QED BY <3>1, <3>2
  <2>7. state_refcount' = (IF alive' THEN 1 ELSE 0) + Cardinality(InUse') + Cardinality(Dropping')
    BY <1>0, <2>2, <2>4, <2>5, <2>6
  <2>8. freed' <=> state_refcount' = 0 BY <1>0 DEF StateRefsExact
  <2> QED BY <1>0, <2>1, <2>7, <2>8 DEF StateRefsExact, InUse, Dropping
<1>7. TypeOK'
  <2>1. pc' \in [Clients -> Pcs] BY <1>0, <1>3 DEF TypeOK, Pcs
  <2>2. point' \in [Clients -> Points \cup {NoPoint}] /\ arg' \in [Clients -> Nat]
    BY <1>0 DEF TypeOK
  <2>3. kind' \in [Clients -> {"pending", "complete"}] BY <1>0 DEF TypeOK
  <2>4. refcount' \in [Points -> Nat] BY <1>0, <1>1, <1>2 DEF TypeOK
  <2>5. free_points' \in SUBSET Points BY <1>0, <1>1 DEF TypeOK
  <2> QED BY <1>0, <2>1, <2>2, <2>3, <2>4, <2>5 DEF TypeOK
<1>8. MutexOwned' BY <1>0, <1>3 DEF MutexOwned, TypeOK, LockedPcs, GcPcs
<1>9. PointHeld' BY <1>0, <1>3 DEF PointHeld, TypeOK, HoldingPcs
<1>10. PointLists'
  <2>1. ASSUME NEW q \in created PROVE q \in free_points' <=> refcount'[q] = 0
    <3>1. q \in Points BY DEF TypeOK
    <3>2. CASE q = p BY <1>0, <1>2, <1>5, <3>2 DEF PointLists
    <3>3. CASE q # p BY <1>0, <1>5, <3>1, <3>3 DEF PointLists
    <3> QED BY <3>2, <3>3
  <2>2. free_points' \subseteq created BY <1>0, <1>4 DEF PointLists
  <2> QED BY <1>0, <2>1, <2>2 DEF PointLists, RangeOf
<1>11. UsedIsCreated' BY <1>0, <1>4, <1>5 DEF UsedIsCreated
<1>12. RefsExact' BY <1>0, <1>1, DropRefs, Zenon
<1>13. PendingOrdered' BY <1>0 DEF PendingOrdered
<1>14. SubmissionOwns'
  BY <1>0, <1>1, <1>3, NoneAssumption DEF SubmissionOwns, PointHeld, HoldingPcs, TypeOK
<1>15. FlightAbove' BY <1>0, <1>3 DEF FlightAbove, FlightPcs, TypeOK
<1>16. SignalQuiet' BY <1>0, <1>3 DEF SignalQuiet, FlightPcs, TypeOK
<1>17. FinishQuiet' BY <1>0, <1>3 DEF FinishQuiet, IdlePcs, TypeOK
<1>18. WaiterAtHead' BY <1>0, <1>3 DEF WaiterAtHead, TypeOK
<1>19. TodoHasPoint'
  <2>1. \A d \in Clients : pc[d] = "submitted" => pc'[d] = "submitted" /\ point'[d] = point[d]
    BY <1>0 DEF TypeOK
  <2> QED BY <1>0, <2>1 DEF TodoHasPoint
<1>20. ResultReached' BY <1>0, <1>3 DEF ResultReached, TypeOK
<1> QED BY <1>6, <1>7, <1>8, <1>9, <1>10, <1>11, <1>12, <1>13, <1>14, <1>15, <1>16,
           <1>17, <1>18, <1>19, <1>20

\* vk_sync_timeline_state_unref: when the last reference goes, no point is in use and
\* every point that exists is on the free list, so freeing the two lists frees them all.
LEMMA StateUnrefStep ==
  ASSUME IndInv, NEW c \in Clients, StateUnref(c)
  PROVE  IndInv'
<1> DEFINE last == state_refcount = 1
<1>0. /\ pc[c] = "unref_state"
      /\ state_refcount' = state_refcount - 1
      /\ freed' = last
      /\ free_points' = (IF last THEN {} ELSE free_points)
      /\ pending_points' = (IF last THEN << >> ELSE pending_points)
      /\ created' = (IF last THEN created \ (free_points \cup RangeOf(pending_points)) ELSE created)
      /\ pc' = [pc EXCEPT ![c] = "idle"]
      /\ arg' = [arg EXCEPT ![c] = 0] /\ kind' = [kind EXCEPT ![c] = "complete"]
      /\ UNCHANGED << highest_past, highest_pending, value, refcount, pending, alive, mutex,
                      signaled, todo, point >>
  BY DEF StateUnref, Goto, Leave
<1> USE DEF IndInv
<1>1. /\ \A d \in Clients \ {c} : pc'[d] = "unref_state" <=> pc[d] = "unref_state"
      /\ pc[c] = "unref_state" /\ pc'[c] # "unref_state"
  BY <1>0 DEF TypeOK
<1>2. /\ Cardinality(Dropping') = Cardinality(Dropping) - 1
      /\ Cardinality(Dropping) \in Nat /\ Cardinality(Dropping') \in Nat
  <2> HIDE DEF IndInv
  <2> QED BY <1>1, DroppingUpdate
<1>3. Cardinality(InUse) \in Nat /\ Cardinality(Dropping) >= 1 BY <1>0, StateCounts
<1>4. state_refcount = (IF alive THEN 1 ELSE 0) + Cardinality(InUse) + Cardinality(Dropping)
  BY DEF StateRefsExact, InUse, Dropping
<1>5. state_refcount >= 1 /\ state_refcount \in Nat
  <2> HIDE DEF IndInv
  <2> DEFINE m == Cardinality(InUse)
             k == Cardinality(Dropping)
  <2>0. m \in Nat /\ k \in Nat /\ k >= 1 /\ state_refcount = (IF alive THEN 1 ELSE 0) + m + k
    BY <1>2, <1>3, <1>4
  <2> HIDE DEF m, k
  <2>1. CASE alive BY <2>0, <2>1
  <2>2. CASE ~ alive BY <2>0, <2>2
  <2> QED BY <2>1, <2>2
<1>6. ASSUME last
      PROVE  /\ ~ alive /\ Cardinality(InUse) = 0 /\ Cardinality(Dropping') = 0
             /\ \A p \in Points : refcount[p] = 0 /\ ~ pending[p] /\ \A d \in Clients : point[d] # p
             /\ pending_points = << >> /\ highest_past = highest_pending
             /\ \A d \in Clients : pc'[d] \in {"idle", "ok"}
             /\ created' = {}
  <2>1. ~ alive /\ Cardinality(InUse) = 0 /\ Cardinality(Dropping') = 0
    BY <1>2, <1>3, <1>4, <1>6
  <2>2. \A p \in Points : refcount[p] = 0
    <3>1. \A p \in Points : refcount[p] \in Nat BY DEF TypeOK
    <3> QED BY <2>1, <3>1, StateCounts
  <2>3. \A p \in Points : ~ pending[p] /\ \A d \in Clients : point[d] # p BY <2>2, RefFacts
  <2>4. pending_points = << >>
    <3> SUFFICES ASSUME pending_points # << >> PROVE FALSE OBVIOUS
    <3>1. Head(pending_points) \in Points /\ Head(pending_points) \in RangeOf(pending_points)
      BY TailFacts DEF TypeOK, RangeOf
    <3> QED BY <2>3, <3>1 DEF PointLists
  <2>5. highest_past = highest_pending BY <2>4 DEF PendingOrdered
  <2>6. \A d \in Clients : pc'[d] # "unref_state"
    <3>1. IsFiniteSet(Dropping') BY FiniteAssumption, FS_Subset DEF Dropping
    <3>2. Dropping' = {} BY <2>1, <3>1, FS_EmptySet
    <3> QED BY <3>2 DEF Dropping
  <2>7. \A d \in Clients : pc[d] # "got" BY <2>3 DEF PointHeld, HoldingPcs, TypeOK
  <2>8. \A d \in Clients : pc'[d] \in {"idle", "ok"}
    BY <1>0, <2>1, <2>6, <2>7 DEF FinishQuiet, IdlePcs, TypeOK
  <2>9. created' = {} BY <1>0, <1>6, <2>2 DEF PointLists, TypeOK
  <2> QED BY <2>1, <2>2, <2>3, <2>4, <2>5, <2>8, <2>9
<1>7. TypeOK'
  <2>1. pc' \in [Clients -> Pcs] BY <1>0 DEF TypeOK, Pcs
  <2>2. arg' \in [Clients -> Nat] BY <1>0 DEF TypeOK
  <2>3. kind' \in [Clients -> {"pending", "complete"}] BY <1>0 DEF TypeOK
  <2>4. pending_points' \in Seq(Points) BY <1>0 DEF TypeOK
  <2>5. free_points' \in SUBSET Points /\ created' \in SUBSET Points BY <1>0 DEF TypeOK
  <2>6. state_refcount' \in Nat
    <3> HIDE DEF IndInv
    <3> QED BY <1>0, <1>5
  <2>7. freed' \in BOOLEAN BY <1>0
  <2> QED BY <1>0, <2>1, <2>2, <2>3, <2>4, <2>5, <2>6, <2>7 DEF TypeOK
<1>8. MutexOwned' BY <1>0 DEF MutexOwned, TypeOK, LockedPcs, GcPcs
<1>9. PointHeld' BY <1>0 DEF PointHeld, TypeOK, HoldingPcs
<1>10. PointLists' /\ UsedIsCreated' /\ PendingOrdered'
  <2>1. CASE last
    <3>1. PointLists' BY <1>0, <1>6, <2>1 DEF PointLists, RangeOf
    <3>2. UsedIsCreated' BY <1>0, <1>6, <2>1 DEF UsedIsCreated
    <3>3. PendingOrdered' BY <1>0, <1>6, <2>1 DEF PendingOrdered
    <3> QED BY <3>1, <3>2, <3>3
  <2>2. CASE ~ last
    <3>1. PointLists' BY <1>0, <2>2 DEF PointLists, RangeOf
    <3>2. UsedIsCreated' /\ PendingOrdered' BY <1>0, <2>2 DEF UsedIsCreated, PendingOrdered
    <3> QED BY <3>1, <3>2
  <2> QED BY <2>1, <2>2
<1>11. RefsExact' BY <1>0 DEF RefsExact, Holders
<1>12. StateRefsExact'
  <2>1. InUse' = InUse BY <1>0 DEF InUse
  <2>2. state_refcount' = (IF alive' THEN 1 ELSE 0) + Cardinality(InUse') + Cardinality(Dropping')
    BY <1>0, <1>2, <1>3, <1>4, <2>1
  <2>3. freed' <=> state_refcount' = 0
    <3> HIDE DEF IndInv
    <3>1. freed' <=> state_refcount = 1 BY <1>0, Zenon
    <3>2. state_refcount' = state_refcount - 1 BY <1>0
    <3> QED BY <1>5, <3>1, <3>2
  <2> QED BY <1>0, <1>6, <2>2, <2>3 DEF StateRefsExact, InUse, Dropping
<1>13. SubmissionOwns' BY <1>0 DEF SubmissionOwns, TypeOK
<1>14. FlightAbove' BY <1>0 DEF FlightAbove, FlightPcs, TypeOK
<1>15. SignalQuiet'
  <2>1. CASE last BY <1>6, <2>1, Zenon DEF SignalQuiet
  <2>2. CASE ~ last BY <1>0, <2>2 DEF SignalQuiet, FlightPcs, TypeOK
  <2> QED BY <2>1, <2>2
<1>16. FinishQuiet' BY <1>0 DEF FinishQuiet, IdlePcs, TypeOK
<1>17. WaiterAtHead'
  <2>1. CASE last BY <1>6, <2>1 DEF WaiterAtHead
  <2>2. CASE ~ last BY <1>0, <2>2 DEF WaiterAtHead, TypeOK
  <2> QED BY <2>1, <2>2
<1>18. TodoHasPoint'
  <2>1. \A d \in Clients : pc[d] = "submitted" => pc'[d] = "submitted" BY <1>0 DEF TypeOK
  <2> QED BY <1>0, <2>1 DEF TodoHasPoint
<1>19. ResultReached' BY <1>0 DEF ResultReached, TypeOK
<1> QED BY <1>7, <1>8, <1>9, <1>10, <1>11, <1>12, <1>13, <1>14, <1>15, <1>16, <1>17, <1>18, <1>19
=============================================================================
