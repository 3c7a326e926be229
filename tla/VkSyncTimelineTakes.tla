------------------------- MODULE VkSyncTimelineTakes ------------------------
(***************************************************************************)
(* The steps of VkSyncTimeline that take references or move the counters   *)
(* without completing a point keep the inductive invariant: get_point,     *)
(* waiting on a point, alloc, install, the host's signal and the end of    *)
(* finish.                                                                 *)
(***************************************************************************)
EXTENDS VkSyncTimelineFacts

\* A client takes a reference to a pending point under the mutex.
Takes(c, p, l) ==
  /\ pending[p] /\ point[c] = NoPoint /\ pc[c] # "unref_state"
  /\ l \in {"got", "wait_sync"}
  /\ refcount' = [refcount EXCEPT ![p] = @ + 1]
  /\ point' = [point EXCEPT ![c] = p]
  /\ pc' = [pc EXCEPT ![c] = l]
  /\ alive /\ mutex \in {c, NoClient} /\ mutex' = NoClient
  /\ l = "wait_sync" =>
       arg[c] <= highest_pending /\ pending_points # << >> /\ p = Head(pending_points)
  /\ UNCHANGED << highest_past, highest_pending, pending_points, free_points, created, value,
                  pending, state_refcount, freed, alive, signaled, todo, arg, kind >>

\* vk_sync_timeline_ref_point_locked, by get_point and by a wait.
LEMMA TakesStep ==
  ASSUME IndInv, NEW c \in Clients, NEW p \in Points, NEW l, Takes(c, p, l)
  PROVE  IndInv'
<1> USE DEF IndInv, Takes
<1>1. refcount[p] >= 1 /\ refcount[p] \in Nat BY RefFacts DEF TypeOK
<1>2. refcount'[p] = refcount[p] + 1 /\ \A q \in Points \ {p} : refcount'[q] = refcount[q]
  BY DEF TypeOK
<1>3. TypeOK'
  <2>1. pc' \in [Clients -> Pcs] BY DEF TypeOK, Pcs, WaitPcs
  <2>2. point' \in [Clients -> Points \cup {NoPoint}] BY DEF TypeOK
  <2>3. refcount' \in [Points -> Nat] BY DEF TypeOK
  <2> QED BY <2>1, <2>2, <2>3 DEF TypeOK
<1>4. StateRefsExact'
  <2>1. InUse' = InUse BY <1>1, <1>2 DEF InUse
  <2>2. Dropping' = Dropping BY DEF Dropping, TypeOK
  <2>3. ~ freed BY FreedFacts
  <2> QED BY <2>1, <2>2, <2>3, Zenon DEF StateRefsExact, InUse, Dropping
<1>5. MutexOwned' BY NoneAssumption DEF MutexOwned, TypeOK, LockedPcs, GcPcs
<1>6. PointHeld' BY NoneAssumption DEF PointHeld, TypeOK, HoldingPcs
<1>7. PointLists'
  <2>1. ASSUME NEW q \in created PROVE q \in free_points <=> refcount'[q] = 0
    <3>1. q \in Points BY DEF TypeOK
    <3>2. CASE q = p BY <1>1, <1>2, <3>2 DEF PointLists
    <3>3. CASE q # p BY <1>2, <3>1, <3>3 DEF PointLists
    <3> QED BY <3>2, <3>3
  <2> QED BY <2>1 DEF PointLists, RangeOf
<1>8. UsedIsCreated' BY <1>1, <1>2 DEF UsedIsCreated
<1>9. RefsExact'
  <2>1. TypeOK /\ RefsExact /\ \A d \in Clients \ {c} : point'[d] = point[d] BY DEF TypeOK
  <2>2. p # NoPoint /\ point'[c] = p /\ pending' = pending BY NoneAssumption DEF TypeOK
  <2>3. refcount'[p] = refcount[p]
                       + (IF point'[c] = p THEN 1 ELSE 0) - (IF point[c] = p THEN 1 ELSE 0)
                       + (IF pending'[p] THEN 1 ELSE 0) - (IF pending[p] THEN 1 ELSE 0)
    BY <1>1, <1>2, <2>2
  <2>4. point[c] \in {p, NoPoint} OBVIOUS
  <2> HIDE DEF IndInv, Takes
  <2> QED BY <1>2, <2>1, <2>2, <2>3, <2>4, RefsUpdate
<1>10. PendingOrdered' BY DEF PendingOrdered
<1>11. SubmissionOwns'
  BY NoneAssumption DEF SubmissionOwns, PointHeld, HoldingPcs, TypeOK
<1>12. FlightAbove' BY DEF FlightAbove, FlightPcs, TypeOK
<1>13. SignalQuiet' BY DEF SignalQuiet, FlightPcs, TypeOK
<1>14. FinishQuiet'
  BY NoneAssumption DEF FinishQuiet, MutexOwned, LockedPcs, GcPcs, IdlePcs, TypeOK
<1>15. WaiterAtHead' BY DEF WaiterAtHead, TypeOK
<1>16. TodoHasPoint'
  <2>1. \A d \in Clients : pc[d] = "submitted" => pc'[d] = "submitted" /\ point'[d] = point[d]
    BY DEF TypeOK, PointHeld, HoldingPcs
  <2> QED BY <2>1 DEF TodoHasPoint
<1>17. ResultReached' BY DEF ResultReached, TypeOK
<1> QED BY <1>3, <1>4, <1>5, <1>6, <1>7, <1>8, <1>9, <1>10, <1>11, <1>12, <1>13, <1>14,
           <1>15, <1>16, <1>17

\* vk_sync_timeline_get_point references the first point at or above v.
LEMMA GetPointStep ==
  ASSUME IndInv, NEW c \in Clients, NEW v \in Values, GetPoint(c, v)
  PROVE  \E p \in Points : Takes(c, p, "got")
<1> DEFINE T == { i \in 1 .. Len(pending_points) : value[pending_points[i]] >= v }
           k == FirstAtLeast(v)
<1>1. pending_points \in Seq(Points) /\ Len(pending_points) \in Nat BY DEF IndInv, TypeOK
<1>2. T # {} /\ T \in SUBSET (1 .. Len(pending_points)) BY DEF GetPoint
<1>3. PICK i \in T : \A j \in 1 .. (i - 1) : j \notin T
  <2> HIDE DEF T
  <2> QED BY <1>1, <1>2, LeastIndex, Zenon
<1>4. \A j \in 1 .. (i - 1) : value[pending_points[j]] < v
  <2> SUFFICES ASSUME NEW j \in 1 .. (i - 1) PROVE value[pending_points[j]] < v OBVIOUS
  <2>1. j \in 1 .. Len(pending_points) /\ ~ (value[pending_points[j]] >= v) BY <1>3
  <2>2. value[pending_points[j]] \in Nat /\ v \in Nat BY <1>1, <2>1 DEF IndInv, TypeOK, Values
  <2> QED BY <2>1, <2>2
<1>5. k \in 1 .. Len(pending_points) BY <1>3, <1>4 DEF FirstAtLeast
<1> DEFINE p == pending_points[k]
<1>6. p \in Points /\ pending[p] BY <1>1, <1>5 DEF IndInv, PointLists, RangeOf
<1>7. point[c] = NoPoint BY DEF GetPoint, IndInv, PointHeld, HoldingPcs
<1>8. Takes(c, p, "got")
  <2> HIDE DEF k
  <2> QED BY <1>6, <1>7 DEF GetPoint, Takes, LockUnlock, Goto, k
<1> QED BY <1>6, <1>8

\* A wait references the first pending point, which exists because the value is submitted.
LEMMA WaitOnPointStep ==
  ASSUME IndInv, NEW c \in Clients, WaitOnPoint(c)
  PROVE  \E p \in Points : Takes(c, p, "wait_sync")
<1> DEFINE p == Head(pending_points)
<1>1. pc[c] \in {"wait_gc", "wait_loop"} /\ highest_past < arg[c] /\ mutex = c
  BY DEF WaitOnPoint, AtWaitLoop, Unlock
<1>2. arg[c] <= highest_pending BY <1>1 DEF IndInv, WaiterAtHead
<1>3. pending_points # << >> BY <1>1, <1>2 DEF IndInv, PendingOrdered, TypeOK
<1>4. p \in Points /\ pending[p] BY <1>3, TailFacts DEF IndInv, TypeOK, PointLists, RangeOf
<1>5. point[c] = NoPoint /\ alive
  BY <1>1, CollectorFacts DEF LockedPcs, GcPcs
<1>6. Takes(c, p, "wait_sync")
  BY <1>1, <1>2, <1>3, <1>4, <1>5 DEF WaitOnPoint, Takes, Unlock, Goto
<1> QED BY <1>4, <1>6

-----------------------------------------------------------------------------
(* Steps that allocate and install points. *)

\* vk_sync_timeline_alloc_point_locked takes a point that nobody uses.
LEMMA AllocPointStep ==
  ASSUME IndInv, NEW c \in Clients, NEW p \in Points, AllocPoint(c, p)
  PROVE  IndInv'
<1>0. /\ pc[c] = "alloc_gc" /\ mutex = c /\ mutex' = NoClient
      /\ IF free_points = {} THEN p \in Points \ created ELSE p \in free_points
      /\ free_points' = free_points \ {p} /\ created' = created \cup {p}
      /\ signaled' = [signaled EXCEPT ![p] = FALSE]
      /\ value' = [value EXCEPT ![p] = arg[c]]
      /\ refcount' = [refcount EXCEPT ![p] = @ + 1]
      /\ state_refcount' = state_refcount + 1
      /\ point' = [point EXCEPT ![c] = p]
      /\ pc' = [pc EXCEPT ![c] = "alloced"]
      /\ UNCHANGED << highest_past, highest_pending, pending_points, pending, freed, alive,
                      todo, arg, kind >>
  BY DEF AllocPoint, Unlock, Goto
<1> USE DEF IndInv
<1>1. refcount[p] = 0 BY <1>0 DEF PointLists, UsedIsCreated, TypeOK
<1>2. ~ pending[p] /\ \A d \in Clients : point[d] # p BY <1>1, RefFacts
<1>3. point[c] = NoPoint /\ alive /\ \A d \in Clients : d # c => pc[d] \notin LockedPcs
  BY <1>0, CollectorFacts DEF LockedPcs, GcPcs
<1>4. refcount'[p] = 1 /\ \A q \in Points \ {p} : refcount'[q] = refcount[q]
  BY <1>0, <1>1 DEF TypeOK
<1>5. StateRefsExact' /\ state_refcount' \in Nat
  <2>1. Dropping' = Dropping BY <1>0 DEF Dropping, TypeOK
  <2>2. Cardinality(InUse') = Cardinality(InUse) + 1 /\ Cardinality(InUse') \in Nat
    BY <1>1, <1>4, InUseUpdate
  <2>3. Cardinality(Dropping) \in Nat /\ Cardinality(InUse) \in Nat BY StateCounts
  <2>4. state_refcount' = state_refcount + (Cardinality(InUse') - Cardinality(InUse))
                          + (Cardinality(Dropping') - Cardinality(Dropping))
    BY <1>0, <2>1, <2>2, <2>3 DEF TypeOK
  <2> QED BY <1>0, <1>3, <2>1, <2>2, <2>3, <2>4, AliveStateRefs
<1>6. TypeOK'
  <2>1. pc' \in [Clients -> Pcs] BY <1>0 DEF TypeOK, Pcs
  <2>2. point' \in [Clients -> Points \cup {NoPoint}] BY <1>0 DEF TypeOK
  <2>3. refcount' \in [Points -> Nat] /\ value' \in [Points -> Nat] BY <1>0 DEF TypeOK
  <2>4. free_points' \in SUBSET Points /\ created' \in SUBSET Points BY <1>0 DEF TypeOK
  <2>5. signaled' \in [Points -> BOOLEAN] BY <1>0 DEF TypeOK
  <2> QED BY <1>0, <1>5, <2>1, <2>2, <2>3, <2>4, <2>5 DEF TypeOK
<1>7. MutexOwned' BY <1>0, <1>3 DEF MutexOwned, TypeOK, LockedPcs, GcPcs
<1>8. PointHeld' BY <1>0, NoneAssumption DEF PointHeld, TypeOK, HoldingPcs
<1>9. PointLists'
  <2>1. ASSUME NEW q \in created' PROVE q \in free_points' <=> refcount'[q] = 0
    <3>1. q \in Points BY <1>0 DEF TypeOK
    <3>2. CASE q = p BY <1>0, <1>4, <3>2
    <3>3. CASE q # p BY <1>0, <1>4, <3>1, <3>3 DEF PointLists
    <3> QED BY <3>2, <3>3
  <2>2. free_points' \subseteq created' BY <1>0 DEF PointLists
  <2> QED BY <1>0, <2>1, <2>2 DEF PointLists, RangeOf
<1>10. UsedIsCreated' BY <1>0, <1>4 DEF UsedIsCreated
<1>11. RefsExact'
  <2>1. TypeOK /\ RefsExact /\ \A d \in Clients \ {c} : point'[d] = point[d]
    BY <1>0 DEF TypeOK
  <2>2. p # NoPoint /\ point'[c] = p /\ pending' = pending
    BY <1>0, NoneAssumption DEF TypeOK
  <2>3. refcount'[p] = refcount[p]
                       + (IF point'[c] = p THEN 1 ELSE 0) - (IF point[c] = p THEN 1 ELSE 0)
                       + (IF pending'[p] THEN 1 ELSE 0) - (IF pending[p] THEN 1 ELSE 0)
    BY <1>1, <1>2, <1>4, <2>2
  <2>4. point[c] \in {p, NoPoint} BY <1>3
  <2> HIDE DEF IndInv
  <2> QED BY <1>4, <2>1, <2>2, <2>3, <2>4, RefsUpdate
<1>12. PendingOrdered'
  <2>1. \A i \in 1 .. Len(pending_points) :
          pending_points[i] \in Points /\ value'[pending_points[i]] = value[pending_points[i]]
    BY <1>0, <1>2 DEF PointLists, RangeOf, TypeOK
  <2>2. \A i \in 1 .. Len(pending_points) : \A j \in 1 .. (i - 1) : j \in 1 .. Len(pending_points)
    BY DEF TypeOK
  <2>3. pending_points # << >> => Len(pending_points) \in 1 .. Len(pending_points)
    BY TailFacts DEF TypeOK
  <2> QED BY <1>0, <2>1, <2>2, <2>3 DEF PendingOrdered
<1>13. SubmissionOwns'
  <2> SUFFICES ASSUME NEW d \in Clients, pc'[d] \in {"alloced", "submitted"}
               PROVE  /\ value'[point'[d]] = arg[d] /\ ~ pending[point'[d]]
                      /\ pc'[d] = "alloced" => ~ signaled'[point'[d]]
                      /\ \A e \in Clients : point'[e] = point'[d] => e = d
    BY <1>0 DEF SubmissionOwns
  <2>1. CASE d = c BY <1>0, <1>2, <2>1 DEF TypeOK
  <2>2. CASE d # c
    <3>1. point'[d] = point[d] /\ pc'[d] = pc[d] /\ point[d] \in Points /\ point[d] # p
      BY <1>0, <1>2, <2>2 DEF PointHeld, HoldingPcs, TypeOK
    <3> QED BY <1>0, <1>2, <2>2, <3>1 DEF SubmissionOwns, TypeOK
  <2> QED BY <2>1, <2>2
<1>14. FlightAbove' BY <1>0 DEF FlightAbove, FlightPcs, TypeOK
<1>15. SignalQuiet' BY <1>0, <1>3 DEF SignalQuiet, LockedPcs, GcPcs, TypeOK
<1>16. FinishQuiet' BY <1>0, <1>3 DEF FinishQuiet, LockedPcs, GcPcs, TypeOK
<1>17. WaiterAtHead' BY <1>0 DEF WaiterAtHead, TypeOK
<1>18. TodoHasPoint'
  <2> SUFFICES ASSUME NEW u \in todo
               PROVE  \E q \in Points :
                        /\ value'[q] = u /\ ~ signaled'[q]
                        /\ pending[q] \/ \E d \in Clients : pc'[d] = "submitted" /\ point'[d] = q
    BY <1>0 DEF TodoHasPoint
  <2>1. PICK q \in Points :
          /\ value[q] = u /\ ~ signaled[q]
          /\ pending[q] \/ \E d \in Clients : pc[d] = "submitted" /\ point[d] = q
    BY DEF TodoHasPoint
  <2>2. q # p BY <1>2, <2>1
  <2>3. value'[q] = value[q] /\ signaled'[q] = signaled[q] BY <1>0, <2>2 DEF TypeOK
  <2>4. \A d \in Clients : pc[d] = "submitted" => pc'[d] = "submitted" /\ point'[d] = point[d]
    BY <1>0 DEF TypeOK
  <2> QED BY <2>1, <2>3, <2>4
<1>19. ResultReached' BY <1>0 DEF ResultReached, TypeOK
<1> QED BY <1>5, <1>6, <1>7, <1>8, <1>9, <1>10, <1>11, <1>12, <1>13, <1>14, <1>15, <1>16,
           <1>17, <1>18, <1>19

\* vk_sync_timeline_point_install appends the point with the highest value.
LEMMA PointInstallStep ==
  ASSUME IndInv, NEW c \in Clients, PointInstall(c)
  PROVE  IndInv' /\ highest_pending' > highest_pending
<1> DEFINE p == point[c]
           s == pending_points
<1>0. /\ pc[c] = "submitted" /\ mutex = NoClient /\ mutex' = NoClient
      /\ \A u \in InFlight : value[p] <= u
      /\ highest_pending' = value[p]
      /\ pending' = [pending EXCEPT ![p] = TRUE]
      /\ pending_points' = Append(s, p)
      /\ pc' = [d \in Clients |-> IF d = c THEN "idle"
                                  ELSE IF pc[d] = "wait_cond" THEN "wait_woken" ELSE pc[d]]
      /\ arg' = [arg EXCEPT ![c] = 0] /\ kind' = [kind EXCEPT ![c] = "complete"]
      /\ point' = [point EXCEPT ![c] = NoPoint]
      /\ UNCHANGED << highest_past, free_points, created, value, refcount, state_refcount,
                      freed, alive, signaled, todo >>
  BY DEF PointInstall, LockUnlock, Broadcast, Leave
<1> USE DEF IndInv
<1>1. p \in Points /\ p # NoPoint
  BY <1>0, NoneAssumption DEF PointHeld, HoldingPcs, TypeOK
<1>2. value[p] = arg[c] /\ ~ pending[p] /\ \A d \in Clients : point[d] = p => d = c
  BY <1>0 DEF SubmissionOwns
<1>3. arg[c] \in Nat /\ highest_pending < arg[c] /\ alive
  BY <1>0, Zenon DEF FlightAbove, FlightPcs, FinishQuiet, IdlePcs, TypeOK
<1>4. highest_pending' > highest_pending BY <1>0, <1>2, <1>3 DEF TypeOK
<1>5. s \in Seq(Points) /\ Len(s) \in Nat /\ Distinct(s) /\ p \notin RangeOf(s)
  BY <1>1, <1>2 DEF TypeOK, PointLists, Distinct
<1>6. TypeOK'
  <2>1. pc' \in [Clients -> Pcs] BY <1>0 DEF TypeOK, Pcs, WaitPcs
  <2>2. point' \in [Clients -> Points \cup {NoPoint}] /\ arg' \in [Clients -> Nat]
    BY <1>0 DEF TypeOK
  <2>3. kind' \in [Clients -> {"pending", "complete"}] BY <1>0 DEF TypeOK
  <2>4. pending' \in [Points -> BOOLEAN] /\ highest_pending' \in Nat
    BY <1>0, <1>2, <1>3, Zenon DEF TypeOK
  <2>5. pending_points' \in Seq(Points) BY <1>0, <1>1, <1>5, AppendFacts
  <2> QED BY <1>0, <2>1, <2>2, <2>3, <2>4, <2>5 DEF TypeOK
<1>7. MutexOwned' BY <1>0, NoneAssumption DEF MutexOwned, TypeOK, LockedPcs, GcPcs
<1>8. PointHeld' BY <1>0 DEF PointHeld, TypeOK, HoldingPcs
<1>9. PointLists'
  <2>1. /\ RangeOf(pending_points') = RangeOf(s) \cup {p}
        /\ Distinct(pending_points')
    BY <1>0, <1>1, <1>5, AppendDistinct
  <2>2. \A q \in Points : pending'[q] <=> q \in RangeOf(pending_points')
    BY <1>0, <1>1, <2>1 DEF PointLists, TypeOK
  <2> QED BY <1>0, <2>1, <2>2 DEF PointLists, Distinct
<1>10. UsedIsCreated' BY <1>0 DEF UsedIsCreated
<1>11. RefsExact'
  <2>1. TypeOK /\ RefsExact /\ \A d \in Clients \ {c} : point'[d] = point[d]
    BY <1>0 DEF TypeOK
  <2>2. point'[c] = NoPoint /\ pending'[p] = TRUE /\ refcount[p] \in Nat /\ refcount' = refcount
    BY <1>0, <1>1 DEF TypeOK
  <2>3. \A q \in Points \ {p} : refcount'[q] = refcount[q] /\ pending'[q] = pending[q]
    BY <1>0, <1>1 DEF TypeOK
  <2>4. refcount'[p] = refcount[p]
                       + (IF point'[c] = p THEN 1 ELSE 0) - (IF point[c] = p THEN 1 ELSE 0)
                       + (IF pending'[p] THEN 1 ELSE 0) - (IF pending[p] THEN 1 ELSE 0)
    BY <1>1, <1>2, <2>2
  <2>5. point[c] \in {p, NoPoint} /\ point'[c] \in {p, NoPoint} BY <2>2
  <2> HIDE DEF IndInv, p
  <2> QED BY <1>1, <2>1, <2>3, <2>4, <2>5, RefsUpdate
<1>12. StateRefsExact'
  <2>1. Dropping' = Dropping BY <1>0 DEF Dropping, TypeOK
  <2>2. ~ freed BY <1>3, FreedFacts
  <2> QED BY <1>0, <2>1, <2>2, Zenon DEF StateRefsExact, Dropping
<1>13. PendingOrdered'
  <2>1. /\ Len(pending_points') = Len(s) + 1 /\ pending_points' # << >>
        /\ \A i \in 1 .. Len(s) : pending_points'[i] = s[i]
        /\ pending_points'[Len(s) + 1] = p
    BY <1>0, <1>1, <1>5, AppendFacts
  <2>2. highest_past < value[p] /\ value[p] = highest_pending'
    BY <1>0, <1>2, <1>3, PastBelow DEF TypeOK
  <2>3. ASSUME NEW i \in 1 .. Len(s)
        PROVE  highest_past < value[s[i]] /\ value[s[i]] < value[p]
    <3>1. s[i] \in Points /\ value[s[i]] \in Nat BY <1>5 DEF TypeOK
    <3>2. highest_past < value[s[i]] /\ value[s[i]] <= highest_pending BY DEF PendingOrdered
    <3> QED BY <1>2, <1>3, <3>1, <3>2 DEF TypeOK
  <2>4. ASSUME NEW i \in 1 .. (Len(s) + 1)
        PROVE  /\ highest_past < value[pending_points'[i]]
               /\ value[pending_points'[i]] <= highest_pending'
               /\ \A j \in 1 .. (i - 1) : value[pending_points'[j]] < value[pending_points'[i]]
    <3>1. CASE i = Len(s) + 1
      <4>1. \A j \in 1 .. (i - 1) : j \in 1 .. Len(s) BY <1>5, <3>1
      <4>2. value[p] <= highest_pending' BY <1>2, <1>3, <2>2
      <4> QED BY <2>1, <2>2, <2>3, <3>1, <4>1, <4>2
    <3>2. CASE i \in 1 .. Len(s)
      <4>1. \A j \in 1 .. (i - 1) : j \in 1 .. Len(s) BY <1>5, <3>2
      <4>2. s[i] \in Points /\ value[s[i]] \in Nat BY <1>5, <3>2 DEF TypeOK
      <4>3. value[s[i]] <= highest_pending' BY <1>2, <1>3, <2>2, <2>3, <3>2, <4>2
      <4>4. \A j \in 1 .. (i - 1) : value[s[j]] < value[s[i]] BY <3>2 DEF PendingOrdered
      <4> QED BY <2>1, <2>3, <3>2, <4>1, <4>3, <4>4
    <3> QED BY <1>5, <3>1, <3>2
  <2> QED BY <1>0, <2>1, <2>2, <2>4 DEF PendingOrdered
<1>14. SubmissionOwns'
  <2> SUFFICES ASSUME NEW d \in Clients, pc'[d] \in {"alloced", "submitted"}
               PROVE  /\ value[point'[d]] = arg'[d] /\ ~ pending'[point'[d]]
                      /\ pc'[d] = "alloced" => ~ signaled[point'[d]]
                      /\ \A e \in Clients : point'[e] = point'[d] => e = d
    BY <1>0 DEF SubmissionOwns
  <2>1. /\ d # c /\ point'[d] = point[d] /\ pc'[d] = pc[d] /\ arg'[d] = arg[d]
        /\ point[d] \in Points /\ point[d] # NoPoint
    BY <1>0, NoneAssumption DEF PointHeld, HoldingPcs, TypeOK
  <2>2. point[d] # p BY <1>2, <2>1
  <2> QED BY <1>0, <2>1, <2>2 DEF SubmissionOwns, TypeOK
<1>15. FlightAbove'
  <2>1. \A d \in Clients : pc[d] \in FlightPcs => value[p] <= arg[d]
    BY <1>0 DEF InFlight, FlightPcs
  <2>2. \A d \in Clients : pc[d] \in FlightPcs /\ d # c => value[p] < arg[d]
    BY <1>0, <1>2, <1>3, <2>1 DEF FlightAbove, FlightPcs, TypeOK
  <2> QED BY <1>0, <2>2 DEF FlightAbove, FlightPcs, TypeOK
<1>16. SignalQuiet'
  BY <1>0, NoneAssumption DEF SignalQuiet, MutexOwned, LockedPcs, GcPcs, TypeOK
<1>17. FinishQuiet'
  BY <1>0, <1>3, NoneAssumption DEF FinishQuiet, MutexOwned, LockedPcs, GcPcs, TypeOK
<1>18. WaiterAtHead'
  <2> SUFFICES ASSUME NEW d \in Clients
               PROVE  /\ pc'[d] \in {"wait_gc", "wait_loop", "wait_sync"} =>
                           arg'[d] <= highest_pending'
                      /\ pc'[d] = "wait_sync" /\ pending'[point'[d]] =>
                           pending_points' # << >> /\ point'[d] = Head(pending_points')
    BY DEF WaiterAtHead
  <2>1. pc'[d] \in {"wait_gc", "wait_loop", "wait_sync"} => arg'[d] <= highest_pending'
    BY <1>0, <1>4, <1>6 DEF WaiterAtHead, TypeOK
  <2>2. ASSUME pc'[d] = "wait_sync", pending'[point'[d]]
        PROVE  pending_points' # << >> /\ point'[d] = Head(pending_points')
    <3>1. d # c /\ pc[d] = "wait_sync" /\ point'[d] = point[d] BY <1>0, <2>2 DEF TypeOK
    <3>2. point[d] \in Points /\ point[d] # p
      BY <1>2, <3>1 DEF PointHeld, HoldingPcs, TypeOK
    <3>3. pending[point[d]] BY <1>0, <2>2, <3>1, <3>2 DEF TypeOK
    <3>4. s # << >> /\ point[d] = Head(s) BY <3>1, <3>3, Zenon DEF WaiterAtHead
    <3> QED BY <1>0, <1>1, <1>5, <3>1, <3>4, AppendFacts
  <2> QED BY <2>1, <2>2
<1>19. TodoHasPoint'
  <2> SUFFICES ASSUME NEW u \in todo
               PROVE  \E q \in Points :
                        /\ value[q] = u /\ ~ signaled[q]
                        /\ pending'[q] \/ \E d \in Clients : pc'[d] = "submitted" /\ point'[d] = q
    BY <1>0 DEF TodoHasPoint
  <2>1. PICK q \in Points :
          /\ value[q] = u /\ ~ signaled[q]
          /\ pending[q] \/ \E d \in Clients : pc[d] = "submitted" /\ point[d] = q
    BY DEF TodoHasPoint
  <2>2. pending'[q] \/ \E d \in Clients : pc'[d] = "submitted" /\ point'[d] = q
    <3>1. CASE q = p BY <1>0, <1>1, <3>1 DEF TypeOK
    <3>2. CASE q # p BY <1>0, <2>1, <3>2 DEF TypeOK
    <3> QED BY <3>1, <3>2
  <2> QED BY <2>1, <2>2
<1>20. ResultReached' BY <1>0 DEF ResultReached, TypeOK
<1> QED BY <1>4, <1>6, <1>7, <1>8, <1>9, <1>10, <1>11, <1>12, <1>13, <1>14, <1>15, <1>16,
           <1>17, <1>18, <1>19, <1>20

-----------------------------------------------------------------------------
(* The host's signal, and the end of the timeline. *)

\* vk_sync_timeline_signal_locked: the list is empty once the collection has stopped, so
\* both counters may move to the value.
LEMMA SignalAdvanceStep ==
  ASSUME IndInv, NEW c \in Clients, SignalAdvance(c)
  PROVE  IndInv' /\ highest_past' > highest_past /\ highest_pending' > highest_pending
<1>0. /\ pc[c] = "signal_gc" /\ GcStops(c) /\ mutex = c /\ mutex' = NoClient
      /\ arg[c] > highest_past /\ highest_past' = arg[c] /\ highest_pending' = arg[c]
      /\ pc' = [d \in Clients |-> IF d = c THEN "idle"
                                  ELSE IF pc[d] = "wait_cond" THEN "wait_woken" ELSE pc[d]]
      /\ arg' = [arg EXCEPT ![c] = 0] /\ kind' = [kind EXCEPT ![c] = "complete"]
      /\ UNCHANGED << pending_points, free_points, created, value, refcount, pending,
                      state_refcount, freed, alive, signaled, todo, point >>
  BY DEF SignalAdvance, Unlock, Broadcast, Leave, pointVars
<1> USE DEF IndInv
<1>1. /\ arg[c] \in Nat /\ point[c] = NoPoint /\ alive
      /\ \A d \in Clients : d # c => pc[d] \notin LockedPcs
  BY <1>0, CollectorFacts DEF LockedPcs, GcPcs, TypeOK
<1>2. pending_points = << >>
  <2> SUFFICES ASSUME pending_points # << >> PROVE FALSE OBVIOUS
  <2> DEFINE p == Head(pending_points)
  <2>1. p = pending_points[1] /\ 1 \in 1 .. Len(pending_points) BY TailFacts DEF TypeOK
  <2>2. signaled[p] BY <1>0, <2>1 DEF SignalQuiet
  <2>3. value[p] <= highest_pending BY <2>1 DEF PendingOrdered
  <2> QED BY <1>0, <2>2, <2>3 DEF GcStops, GcLooksAt, Drains
<1>3. highest_past = highest_pending BY <1>2 DEF PendingOrdered
<1>4. highest_past' > highest_past /\ highest_pending' > highest_pending
  BY <1>0, <1>3
<1>5. \A p \in Points : ~ pending[p] BY <1>2 DEF PointLists, RangeOf
<1>6. TypeOK'
  <2>1. pc' \in [Clients -> Pcs] BY <1>0 DEF TypeOK, Pcs, WaitPcs
  <2>2. arg' \in [Clients -> Nat] BY <1>0 DEF TypeOK
  <2>3. kind' \in [Clients -> {"pending", "complete"}] BY <1>0 DEF TypeOK
  <2> QED BY <1>0, <1>1, <2>1, <2>2, <2>3 DEF TypeOK
<1>7. MutexOwned' BY <1>0, <1>1 DEF MutexOwned, TypeOK, LockedPcs, GcPcs
<1>8. PointHeld' BY <1>0 DEF PointHeld, TypeOK, HoldingPcs
<1>9. PointLists' /\ UsedIsCreated' BY <1>0 DEF PointLists, UsedIsCreated, RangeOf
<1>10. RefsExact' BY <1>0 DEF RefsExact, Holders
<1>11. StateRefsExact'
  <2>1. Dropping' = Dropping BY <1>0 DEF Dropping, TypeOK
  <2>2. ~ freed BY <1>1, FreedFacts
  <2> QED BY <1>0, <2>1, <2>2 DEF StateRefsExact, Dropping
<1>12. PendingOrdered' BY <1>0, <1>2 DEF PendingOrdered
<1>13. SubmissionOwns' BY <1>0 DEF SubmissionOwns, TypeOK
<1>14. FlightAbove' BY <1>0 DEF FlightAbove, SignalQuiet, FlightPcs, TypeOK
<1>15. SignalQuiet' BY <1>0, <1>1 DEF SignalQuiet, LockedPcs, GcPcs, TypeOK
<1>16. FinishQuiet' BY <1>0, <1>1 DEF FinishQuiet, LockedPcs, GcPcs, TypeOK
<1>17. WaiterAtHead' BY <1>0, <1>1, <1>4, <1>5 DEF WaiterAtHead, PointHeld, HoldingPcs, TypeOK
<1>18. TodoHasPoint'
  <2>1. \A d \in Clients : pc[d] = "submitted" => pc'[d] = "submitted" BY <1>0 DEF TypeOK
  <2>2. /\ todo' = todo /\ value' = value /\ signaled' = signaled
        /\ pending' = pending /\ point' = point
    BY <1>0
  <2> HIDE DEF IndInv
  <2> SUFFICES ASSUME NEW u \in todo
               PROVE  \E q \in Points :
                        /\ value[q] = u /\ ~ signaled[q]
                        /\ pending[q] \/ \E d \in Clients : pc'[d] = "submitted" /\ point[d] = q
    BY <2>2 DEF TodoHasPoint
  <2>3. PICK q \in Points :
          /\ value[q] = u /\ ~ signaled[q]
          /\ pending[q] \/ \E d \in Clients : pc[d] = "submitted" /\ point[d] = q
    BY DEF IndInv, TodoHasPoint
  <2> QED BY <2>1, <2>3, Zenon
<1>19. ResultReached' BY <1>0, <1>1, <1>4 DEF ResultReached, TypeOK
<1> QED BY <1>4, <1>6, <1>7, <1>8, <1>9, <1>10, <1>11, <1>12, <1>13, <1>14, <1>15, <1>16,
           <1>17, <1>18, <1>19

\* vk_sync_timeline_finish gives up the reference of the vk_sync.
LEMMA FinishUnlockStep ==
  ASSUME IndInv, NEW c \in Clients, FinishUnlock(c)
  PROVE  IndInv'
<1>0. /\ pc[c] = "finish_gc" /\ mutex = c /\ mutex' = NoClient /\ alive' = FALSE
      /\ pc' = [pc EXCEPT ![c] = "unref_state"]
      /\ UNCHANGED << highest_past, highest_pending, pending_points, free_points, created, value,
                      refcount, pending, state_refcount, freed, signaled, todo, arg, kind, point >>
  BY DEF FinishUnlock, Unlock, Goto
<1> USE DEF IndInv
<1>1. point[c] = NoPoint /\ alive /\ \A d \in Clients : d # c => pc[d] \notin LockedPcs
  BY <1>0, CollectorFacts DEF LockedPcs, GcPcs
<1>2. \A d \in Clients : pc'[d] \in IdlePcs BY <1>0 DEF FinishQuiet, IdlePcs, TypeOK
<1>3. TypeOK'
  <2>1. pc' \in [Clients -> Pcs] BY <1>0 DEF TypeOK, Pcs
  <2> QED BY <1>0, <2>1, Zenon DEF TypeOK
<1>4. MutexOwned' BY <1>2 DEF MutexOwned, LockedPcs, GcPcs, IdlePcs
<1>5. PointHeld' BY <1>0, <1>1 DEF PointHeld, TypeOK, HoldingPcs
<1>6. PointLists' /\ UsedIsCreated' BY <1>0 DEF PointLists, UsedIsCreated, RangeOf
<1>7. RefsExact' /\ PendingOrdered' BY <1>0 DEF RefsExact, Holders, PendingOrdered
<1>8. StateRefsExact'
  <2>1. /\ \A d \in Clients \ {c} : pc'[d] = "unref_state" <=> pc[d] = "unref_state"
        /\ pc[c] # "unref_state" /\ pc'[c] = "unref_state"
    BY <1>0 DEF TypeOK
  <2>2. /\ Cardinality(Dropping') = Cardinality(Dropping) + 1
        /\ Cardinality(Dropping) \in Nat
    <3> HIDE DEF IndInv
    <3> QED BY <2>1, DroppingUpdate
  <2>3. InUse' = InUse /\ Cardinality(InUse) \in Nat BY <1>0, StateCounts DEF InUse
  <2>4. state_refcount = 1 + Cardinality(InUse) + Cardinality(Dropping)
    BY <1>1 DEF StateRefsExact, InUse, Dropping
  <2>5. state_refcount' = 0 + Cardinality(InUse') + Cardinality(Dropping')
    BY <1>0, <2>2, <2>3, <2>4
  <2>6. ~ freed' /\ state_refcount' # 0 BY <1>0, <1>1, FreedFacts DEF StateRefsExact
  <2> QED BY <1>0, <2>5, <2>6 DEF StateRefsExact, InUse, Dropping
<1>9. SubmissionOwns' BY <1>0 DEF SubmissionOwns, TypeOK
<1>10. FlightAbove' BY <1>0 DEF FlightAbove, FlightPcs, TypeOK
<1>11. SignalQuiet' BY <1>2 DEF SignalQuiet, IdlePcs
<1>12. FinishQuiet' BY <1>2 DEF FinishQuiet, IdlePcs
<1>13. WaiterAtHead' BY <1>2 DEF WaiterAtHead, IdlePcs
<1>14. TodoHasPoint' BY <1>0 DEF TodoHasPoint, TypeOK
<1>15. ResultReached' BY <1>0 DEF ResultReached, TypeOK
<1> QED BY <1>3, <1>4, <1>5, <1>6, <1>7, <1>8, <1>9, <1>10, <1>11, <1>12, <1>13, <1>14, <1>15
=============================================================================
