------------------------- MODULE VkSyncTimelineFacts ------------------------
(***************************************************************************)
(* Facts about the lists and the reference counts of VkSyncTimeline that   *)
(* the proofs of its steps share: removing and appending list entries,     *)
(* counting holders, and steps that only move a client.                    *)
(***************************************************************************)
EXTENDS VkSyncTimeline, FiniteSetTheorems, SequenceTheorems, WellFoundedInduction,
        TLAPS

InUse == { p \in Points : refcount[p] > 0 }
Dropping == { c \in Clients : pc[c] = "unref_state" }
Distinct(s) == \A i, j \in 1 .. Len(s) : s[i] = s[j] => i = j

-----------------------------------------------------------------------------
(* Sequences *)

\* Removing the first element of a list without repetitions (the loop of
\* vk_sync_timeline_gc_locked takes the first pending point off the list).
LEMMA TailFacts ==
  ASSUME NEW S, NEW s \in Seq(S), s # << >>
  PROVE  /\ Head(s) = s[1] /\ Head(s) \in S /\ Len(s) >= 1 /\ 1 \in 1 .. Len(s)
         /\ Tail(s) \in Seq(S)
         /\ Len(Tail(s)) = Len(s) - 1
         /\ \A i \in 1 .. (Len(s) - 1) : Tail(s)[i] = s[i + 1] /\ i + 1 \in 1 .. Len(s)
         /\ \A i \in 1 .. Len(s) : s[i] \in S
  OBVIOUS

\* The rest of a list without repetitions has everything but the first entry.
LEMMA TailDistinct ==
  ASSUME NEW S, NEW s \in Seq(S), s # << >>, Distinct(s)
  PROVE  /\ Distinct(Tail(s))
         /\ RangeOf(Tail(s)) = RangeOf(s) \ {Head(s)}
<1>1. Distinct(Tail(s)) BY TailFacts DEF Distinct
<1>2. ASSUME NEW x \in RangeOf(Tail(s)) PROVE x \in RangeOf(s) \ {Head(s)}
  <2>1. PICK i \in 1 .. (Len(s) - 1) : x = s[i + 1] BY TailFacts DEF RangeOf
  <2>2. i + 1 \in 1 .. Len(s) /\ i + 1 # 1 BY TailFacts
  <2> QED BY <2>1, <2>2, TailFacts DEF RangeOf, Distinct
<1>3. ASSUME NEW x \in RangeOf(s), x # Head(s) PROVE x \in RangeOf(Tail(s))
  <2>1. PICK i \in 1 .. Len(s) : x = s[i] BY DEF RangeOf
  <2>2. i # 1 BY <1>3, <2>1, TailFacts
  <2>3. i - 1 \in 1 .. (Len(s) - 1) BY <2>2, TailFacts
  <2>4. Tail(s)[i - 1] = s[i] BY <2>3, TailFacts
  <2> QED BY <2>1, <2>3, <2>4, TailFacts DEF RangeOf
<1> QED BY <1>1, <1>2, <1>3

\* list_del of the first entry is the tail.
LEMMA WithoutHead ==
  ASSUME NEW S, NEW s \in Seq(S), s # << >>, Distinct(s)
  PROVE  Without(s, Head(s)) = Tail(s)
<1> DEFINE k == CHOOSE j \in 1 .. Len(s) : s[j] = Head(s)
<1>1. k = 1 BY TailFacts DEF Distinct
<1>2. Without(s, Head(s)) = [ j \in 1 .. (Len(s) - 1) |-> IF j < 1 THEN s[j] ELSE s[j + 1] ]
  BY <1>1, Zenon DEF Without
<1>3. Without(s, Head(s)) = [ j \in 1 .. (Len(s) - 1) |-> s[j + 1] ]
  BY <1>2, TailFacts
<1>4. Tail(s) \in [1 .. (Len(s) - 1) -> S] BY TailFacts, LenProperties, Zenon
<1>5. Tail(s) = [ j \in 1 .. (Len(s) - 1) |-> s[j + 1] ] BY <1>4, TailFacts, Zenon
<1> QED BY <1>3, <1>5

\* list_addtail of an entry that is not in the list.
LEMMA AppendFacts ==
  ASSUME NEW S, NEW s \in Seq(S), NEW x \in S
  PROVE  /\ Append(s, x) \in Seq(S) /\ Append(s, x) # << >>
         /\ Len(Append(s, x)) = Len(s) + 1
         /\ \A i \in 1 .. Len(s) : Append(s, x)[i] = s[i]
         /\ Append(s, x)[Len(s) + 1] = x
         /\ s # << >> => Head(Append(s, x)) = Head(s)
<1>1. Append(s, x) \in Seq(S) /\ Append(s, x) # << >> BY AppendProperties
<1>2. s # << >> => Append(s, x)[1] = s[1] BY AppendProperties, TailFacts
<1> QED BY <1>1, <1>2, AppendProperties, TailFacts

\* A new entry keeps the list without repetitions.
LEMMA AppendDistinct ==
  ASSUME NEW S, NEW s \in Seq(S), NEW x \in S, x \notin RangeOf(s), Distinct(s)
  PROVE  /\ Distinct(Append(s, x))
         /\ RangeOf(Append(s, x)) = RangeOf(s) \cup {x}
<1>0. Len(s) \in Nat OBVIOUS
<1>1. \A i \in 1 .. (Len(s) + 1) : i \in 1 .. Len(s) \/ i = Len(s) + 1 BY <1>0
<1>2. Distinct(Append(s, x)) BY <1>0, <1>1, AppendFacts DEF Distinct, RangeOf
<1>3. RangeOf(Append(s, x)) = RangeOf(s) \cup {x}
  BY <1>0, <1>1, AppendFacts DEF RangeOf
<1> QED BY <1>2, <1>3

\* A non-empty set of list positions has a first one (the loop of
\* vk_sync_timeline_get_point_locked stops at the first point that is high enough).
LEMMA LeastIndex ==
  ASSUME NEW n \in Nat, NEW T \in SUBSET (1 .. n), T # {}
  PROVE  \E i \in T : \A j \in 1 .. (i - 1) : j \notin T
<1> DEFINE R == { ss \in Nat \X Nat : ss[1] < ss[2] }
<1>1. IsWellFoundedOn(R, Nat) BY NatLessThanWellFounded, Zenon DEF OpToRel
<1>2. \A x, y \in Nat : y < x => << y, x >> \in R OBVIOUS
<1> HIDE DEF R
<1>3. T \subseteq Nat OBVIOUS
<1>4. PICK i \in T : \A y \in T : ~ (<< y, i >> \in R) BY <1>1, <1>3, WFMin, Zenon
<1>5. \A y \in T : ~ (y < i) BY <1>2, <1>3, <1>4, Zenon
<1> QED BY <1>5

-----------------------------------------------------------------------------
(* Counting *)

\* Two subsets of a finite set that agree except on x differ in size by at most one.
LEMMA CardinalityUpdate ==
  ASSUME NEW S, IsFiniteSet(S), NEW F \in SUBSET S, NEW G \in SUBSET S, NEW x \in S,
         \A y \in S \ {x} : y \in F <=> y \in G
  PROVE  /\ Cardinality(F) \in Nat /\ Cardinality(G) \in Nat
         /\ (x \in F <=> x \in G) => Cardinality(G) = Cardinality(F)
         /\ x \notin F /\ x \in G => Cardinality(G) = Cardinality(F) + 1
         /\ x \in F /\ x \notin G => Cardinality(G) = Cardinality(F) - 1
<1>1. IsFiniteSet(F) /\ IsFiniteSet(G) BY FS_Subset
<1>2. Cardinality(F) \in Nat /\ Cardinality(G) \in Nat BY <1>1, FS_CardinalityType
<1>3. ASSUME x \in F <=> x \in G PROVE Cardinality(G) = Cardinality(F)
  <2>1. G = F BY <1>3
  <2> QED BY <2>1
<1>4. ASSUME x \notin F, x \in G PROVE Cardinality(G) = Cardinality(F) + 1
  <2>1. G = F \cup {x} BY <1>4
  <2> QED BY <2>1, <1>1, <1>4, FS_AddElement
<1>5. ASSUME x \in F, x \notin G PROVE Cardinality(G) = Cardinality(F) - 1
  <2>1. G = F \ {x} BY <1>5
  <2> QED BY <2>1, <1>1, <1>5, FS_RemoveElement
<1> QED BY <1>2, <1>3, <1>4, <1>5

\* What the reference count of a point says about its holders.
LEMMA RefFacts ==
  ASSUME TypeOK, RefsExact, NEW p \in Points
  PROVE  /\ Cardinality(Holders(p)) \in Nat
         /\ pending[p] => refcount[p] >= 1
         /\ \A c \in Clients : point[c] = p =>
              /\ refcount[p] >= 1
              /\ pending[p] => refcount[p] >= 2
              /\ refcount[p] = 1 => ~ pending[p] /\ \A d \in Clients : point[d] = p => d = c
<1>1. IsFiniteSet(Holders(p)) BY FiniteAssumption, FS_Subset DEF Holders
<1>2. Cardinality(Holders(p)) \in Nat BY <1>1, FS_CardinalityType
<1>3. pending[p] => refcount[p] >= 1 BY <1>2 DEF RefsExact
<1>4. ASSUME NEW c \in Clients, point[c] = p
      PROVE  /\ refcount[p] >= 1
             /\ pending[p] => refcount[p] >= 2
             /\ refcount[p] = 1 => ~ pending[p] /\ \A d \in Clients : point[d] = p => d = c
  <2>1. c \in Holders(p) BY <1>4 DEF Holders
  <2>2. Cardinality(Holders(p)) # 0 BY <1>1, <2>1, FS_EmptySet
  <2>3. refcount[p] >= 1 /\ (pending[p] => refcount[p] >= 2) BY <1>2, <2>2 DEF RefsExact
  <2>4. ASSUME refcount[p] = 1, NEW d \in Clients, point[d] = p PROVE d = c
    <3>1. Cardinality(Holders(p)) = 1 BY <1>2, <2>2, <2>4 DEF RefsExact
    <3>2. PICK x : Holders(p) = {x} BY <1>1, <3>1, FS_Singleton, Zenon
    <3> QED BY <2>1, <2>4, <3>2 DEF Holders
  <2> QED BY <2>3, <2>4
<1> QED BY <1>2, <1>3, <1>4

\* The counters and what is outstanding.
LEMMA PastBelow ==
  ASSUME IndInv
  PROVE  /\ highest_past <= highest_pending
         /\ \A p \in Points : pending[p] =>
              /\ highest_past < value[p] /\ value[p] <= highest_pending
              /\ pending_points # << >> /\ value[Head(pending_points)] <= value[p]
         /\ \A u \in todo : highest_past < u
<1> USE DEF IndInv, TypeOK
<1>1. highest_past <= highest_pending
  <2>1. CASE pending_points = << >> BY <2>1 DEF PendingOrdered
  <2>2. CASE pending_points # << >> BY <2>2, TailFacts DEF PendingOrdered
  <2> QED BY <2>1, <2>2
<1>2. ASSUME NEW p \in Points, pending[p]
      PROVE  /\ highest_past < value[p] /\ value[p] <= highest_pending
             /\ pending_points # << >> /\ value[Head(pending_points)] <= value[p]
  <2>1. PICK i \in 1 .. Len(pending_points) : p = pending_points[i]
    BY <1>2 DEF PointLists, RangeOf
  <2>2. highest_past < value[p] /\ value[p] <= highest_pending BY <2>1 DEF PendingOrdered
  <2>3. pending_points # << >> BY <2>1
  <2>4. CASE i = 1
    <3>1. Head(pending_points) = p BY <2>1, <2>3, <2>4, TailFacts
    <3> QED BY <2>2, <2>3, <3>1
  <2>5. CASE i # 1
    <3>1. 1 \in 1 .. (i - 1) BY <2>5
    <3>2. value[pending_points[1]] < value[pending_points[i]] BY <3>1 DEF PendingOrdered
    <3>3. pending_points[1] \in Points BY <2>3, TailFacts
    <3> QED BY <2>1, <2>2, <2>3, <3>2, <3>3, TailFacts
  <2> QED BY <2>4, <2>5, <2>2, <2>3
<1>3. ASSUME NEW u \in todo PROVE highest_past < u
  <2>1. PICK p \in Points : /\ value[p] = u
                            /\ pending[p] \/ \E c \in Clients : pc[c] = "submitted" /\ point[c] = p
    BY DEF TodoHasPoint
  <2>2. CASE pending[p] BY <1>2, <2>1, <2>2
  <2>3. ASSUME NEW c \in Clients, pc[c] = "submitted", point[c] = p PROVE highest_past < u
    BY <1>1, <2>1, <2>3 DEF SubmissionOwns, FlightAbove, FlightPcs
  <2> QED BY <2>1, <2>2, <2>3
<1> QED BY <1>1, <1>2, <1>3

-----------------------------------------------------------------------------
(* Steps that leave the state alone *)

\* The state's reference count, in terms of the points in use and the clients that are
\* about to drop a reference.
LEMMA StateCounts ==
  ASSUME TypeOK
  PROVE  /\ Cardinality(InUse) \in Nat /\ Cardinality(Dropping) \in Nat
         /\ \A p \in Points : refcount[p] > 0 => Cardinality(InUse) >= 1
         /\ \A c \in Clients : pc[c] = "unref_state" => Cardinality(Dropping) >= 1
<1>1. IsFiniteSet(InUse) /\ IsFiniteSet(Dropping)
  BY FiniteAssumption, FS_Subset DEF InUse, Dropping
<1>2. Cardinality(InUse) \in Nat /\ Cardinality(Dropping) \in Nat
  BY <1>1, FS_CardinalityType
<1>3. ASSUME NEW p \in Points, refcount[p] > 0 PROVE Cardinality(InUse) # 0
  <2>1. p \in InUse BY <1>3 DEF InUse
  <2> QED BY <2>1, <1>1, FS_EmptySet
<1>4. ASSUME NEW c \in Clients, pc[c] = "unref_state" PROVE Cardinality(Dropping) # 0
  <2>1. c \in Dropping BY <1>4 DEF Dropping
  <2> QED BY <2>1, <1>1, FS_EmptySet
<1> QED BY <1>2, <1>3, <1>4

\* A freed state has no users left.
LEMMA FreedFacts ==
  ASSUME TypeOK, StateRefsExact, freed
  PROVE  ~ alive /\ \A p \in Points : refcount[p] = 0
<1>1. state_refcount = (IF alive THEN 1 ELSE 0) + Cardinality(InUse) + Cardinality(Dropping)
  BY DEF StateRefsExact, InUse, Dropping
<1>2. state_refcount = 0 BY DEF StateRefsExact
<1>3. ~ alive /\ Cardinality(InUse) = 0 BY <1>1, <1>2, StateCounts
<1>4. \A p \in Points : refcount[p] \in Nat BY DEF TypeOK
<1> QED BY <1>3, <1>4, StateCounts

\* A step that changes neither the state nor who holds a point.
LEMMA FrameState ==
  ASSUME IndInv, UNCHANGED << stateVars, point >>
  PROVE  PointLists' /\ UsedIsCreated' /\ RefsExact' /\ PendingOrdered'
<1>1. PointLists' /\ UsedIsCreated'
  BY DEF IndInv, stateVars, PointLists, UsedIsCreated, RangeOf
<1>2. RefsExact' BY DEF IndInv, stateVars, RefsExact, Holders
<1>3. PendingOrdered' BY DEF IndInv, stateVars, PendingOrdered
<1> QED BY <1>1, <1>2, <1>3

\* ... and keeps the clients at unref_state.
LEMMA FrameStateRefs ==
  ASSUME IndInv, UNCHANGED stateVars, NEW c \in Clients, NEW l,
         pc' = [pc EXCEPT ![c] = l], pc[c] # "unref_state", l # "unref_state",
         alive \/ l \in {"idle", "ok"}
  PROVE  StateRefsExact'
<1> USE DEF IndInv, stateVars
<1>1. Dropping' = Dropping BY DEF Dropping, TypeOK
<1>2. (state_refcount = (IF alive THEN 1 ELSE 0) + Cardinality(InUse) + Cardinality(Dropping))'
  BY <1>1 DEF StateRefsExact, InUse, Dropping
<1>3. freed' <=> state_refcount' = 0 BY DEF StateRefsExact
<1>4. freed => ~ alive BY FreedFacts
<1>5. freed' => \A d \in Clients : pc'[d] \in {"idle", "ok"}
  BY <1>4 DEF StateRefsExact, TypeOK
<1> QED BY <1>2, <1>3, <1>5 DEF StateRefsExact, InUse, Dropping

PlainPcs == {"idle", "ok", "value_gc", "value_read", "wait_cond", "wait_gc"}

\* A step that only moves client c, out of a call or within one, between program points
\* where it holds nothing.
Moves(c, l, v, k) ==
  /\ UNCHANGED << stateVars, signaled, todo, point >>
  /\ pc' = [pc EXCEPT ![c] = l]
  /\ arg' = [arg EXCEPT ![c] = v]
  /\ kind' = [kind EXCEPT ![c] = k]
  /\ pc[c] \notin HoldingPcs \cup {"unref_state"}
  /\ l \in PlainPcs /\ v \in Nat /\ k \in {"pending", "complete"}
  /\ \/ mutex' = mutex /\ l \in {"idle", "ok"} /\ pc[c] \notin LockedPcs
     \/ mutex = NoClient /\ mutex' = NoClient /\ l \notin LockedPcs
     \/ mutex = NoClient /\ mutex' = c
     \/ mutex = c /\ mutex' = NoClient /\ l \notin LockedPcs
  /\ alive \/ l \in {"idle", "ok"}
  /\ l = "ok" /\ k = "complete" => v <= highest_past
  /\ l = "wait_gc" => v <= highest_pending

\* Such a step keeps the invariant.
LEMMA MovesStep ==
  ASSUME IndInv, NEW c \in Clients, NEW l, NEW v, NEW k, Moves(c, l, v, k)
  PROVE  IndInv'
<1> USE DEF IndInv, Moves, stateVars
<1>1. TypeOK'
  <2>1. pc' \in [Clients -> Pcs] BY DEF TypeOK, PlainPcs, Pcs, LockedPcs, GcPcs, WaitPcs
  <2>2. arg' \in [Clients -> Nat] BY DEF TypeOK
  <2>3. kind' \in [Clients -> {"pending", "complete"}] BY DEF TypeOK
  <2> QED BY <2>1, <2>2, <2>3 DEF TypeOK
<1>2. MutexOwned'
  BY NoneAssumption DEF MutexOwned, TypeOK, LockedPcs, GcPcs, PlainPcs
<1>3. PointHeld' BY DEF PointHeld, TypeOK, HoldingPcs, PlainPcs
<1>4. PointLists' /\ UsedIsCreated' /\ RefsExact' /\ PendingOrdered' BY FrameState
<1>5. StateRefsExact' BY FrameStateRefs, Zenon DEF PlainPcs
<1>6. SubmissionOwns' BY DEF SubmissionOwns, TypeOK, PlainPcs
<1>7. FlightAbove' BY DEF FlightAbove, TypeOK, FlightPcs, PlainPcs
<1>8. SignalQuiet' BY DEF SignalQuiet, TypeOK, FlightPcs, PlainPcs
<1>9. FinishQuiet'
  BY NoneAssumption DEF FinishQuiet, MutexOwned, TypeOK, IdlePcs, LockedPcs, GcPcs, PlainPcs
<1>10. WaiterAtHead' BY DEF WaiterAtHead, TypeOK, PlainPcs
<1>11. TodoHasPoint' BY DEF TodoHasPoint, TypeOK, PlainPcs, HoldingPcs
<1>12. ResultReached' BY DEF ResultReached, TypeOK, PlainPcs
<1> QED BY <1>1, <1>2, <1>3, <1>4, <1>5, <1>6, <1>7, <1>8, <1>9, <1>10, <1>11, <1>12

-----------------------------------------------------------------------------
(* Steps that change the references to a point. *)

\* Every reference that a step adds or drops is counted: c takes, keeps or gives up p,
\* and the pending list takes, keeps or gives up p.
LEMMA RefsUpdate ==
  ASSUME TypeOK, RefsExact, NEW c \in Clients, NEW p \in Points,
         \A d \in Clients \ {c} : point'[d] = point[d],
         \A q \in Points \ {p} : refcount'[q] = refcount[q] /\ pending'[q] = pending[q],
         point[c] \in {p, NoPoint}, point'[c] \in {p, NoPoint},
         refcount'[p] = refcount[p]
                        + (IF point'[c] = p THEN 1 ELSE 0) - (IF point[c] = p THEN 1 ELSE 0)
                        + (IF pending'[p] THEN 1 ELSE 0) - (IF pending[p] THEN 1 ELSE 0)
  PROVE  RefsExact'
<1> SUFFICES ASSUME NEW q \in Points
             PROVE  refcount'[q] = Cardinality({d \in Clients : point'[d] = q})
                                   + (IF pending'[q] THEN 1 ELSE 0)
  BY DEF RefsExact, Holders
<1> DEFINE F == {d \in Clients : point[d] = q}
           G == {d \in Clients : point'[d] = q}
<1>1. refcount[q] = Cardinality(F) + (IF pending[q] THEN 1 ELSE 0) BY DEF RefsExact, Holders
<1>2. /\ F \in SUBSET Clients /\ G \in SUBSET Clients
      /\ \A d \in Clients \ {c} : d \in F <=> d \in G
      /\ c \in F <=> point[c] = q
      /\ c \in G <=> point'[c] = q
  OBVIOUS
<1>3. refcount'[q] = Cardinality(G) + (IF pending'[q] THEN 1 ELSE 0)
  <2> HIDE DEF F, G
  <2>1. /\ Cardinality(F) \in Nat /\ Cardinality(G) \in Nat
        /\ (c \in F <=> c \in G) => Cardinality(G) = Cardinality(F)
        /\ c \notin F /\ c \in G => Cardinality(G) = Cardinality(F) + 1
        /\ c \in F /\ c \notin G => Cardinality(G) = Cardinality(F) - 1
    BY <1>2, FiniteAssumption, CardinalityUpdate
  <2>2. CASE q = p
    <3>1. pending[p] \in BOOLEAN /\ refcount[p] \in Nat BY DEF TypeOK
    <3>2. CASE point[c] = p /\ point'[c] = p BY <1>1, <1>2, <2>1, <2>2, <3>1, <3>2
    <3>3. CASE point[c] = p /\ point'[c] # p BY <1>1, <1>2, <2>1, <2>2, <3>1, <3>3
    <3>4. CASE point[c] # p /\ point'[c] = p BY <1>1, <1>2, <2>1, <2>2, <3>1, <3>4
    <3>5. CASE point[c] # p /\ point'[c] # p BY <1>1, <1>2, <2>1, <2>2, <3>1, <3>5
    <3> QED BY <3>2, <3>3, <3>4, <3>5
  <2>3. CASE q # p
    <3>1. point[c] # q /\ point'[c] # q BY <2>3, NoneAssumption
    <3> QED BY <1>1, <1>2, <2>1, <2>3, <3>1
  <2> QED BY <2>2, <2>3
<1> QED BY <1>3

\* How the number of points in use changes with the reference count of p.
LEMMA InUseUpdate ==
  ASSUME NEW p \in Points, \A q \in Points \ {p} : refcount'[q] = refcount[q]
  PROVE  /\ Cardinality(InUse) \in Nat /\ Cardinality(InUse') \in Nat
         /\ (refcount[p] > 0 <=> refcount'[p] > 0) => Cardinality(InUse') = Cardinality(InUse)
         /\ ~ (refcount[p] > 0) /\ refcount'[p] > 0 =>
              Cardinality(InUse') = Cardinality(InUse) + 1
         /\ refcount[p] > 0 /\ ~ (refcount'[p] > 0) =>
              Cardinality(InUse') = Cardinality(InUse) - 1
<1>1. /\ InUse \in SUBSET Points /\ InUse' \in SUBSET Points
      /\ \A q \in Points \ {p} : q \in InUse <=> q \in InUse'
      /\ p \in InUse <=> refcount[p] > 0
      /\ p \in InUse' <=> refcount'[p] > 0
  BY DEF InUse
<1> QED BY <1>1, FiniteAssumption, CardinalityUpdate

\* How the number of clients about to drop a state reference changes with the move of c.
LEMMA DroppingUpdate ==
  ASSUME NEW c \in Clients,
         \A d \in Clients \ {c} : (pc'[d] = "unref_state") <=> (pc[d] = "unref_state")
  PROVE  /\ Cardinality(Dropping) \in Nat /\ Cardinality(Dropping') \in Nat
         /\ (pc[c] = "unref_state" <=> pc'[c] = "unref_state") =>
              Cardinality(Dropping') = Cardinality(Dropping)
         /\ pc[c] # "unref_state" /\ pc'[c] = "unref_state" =>
              Cardinality(Dropping') = Cardinality(Dropping) + 1
         /\ pc[c] = "unref_state" /\ pc'[c] # "unref_state" =>
              Cardinality(Dropping') = Cardinality(Dropping) - 1
<1>1. /\ Dropping \in SUBSET Clients /\ Dropping' \in SUBSET Clients
      /\ \A d \in Clients \ {c} : d \in Dropping <=> d \in Dropping'
      /\ c \in Dropping <=> pc[c] = "unref_state"
      /\ c \in Dropping' <=> pc'[c] = "unref_state"
  BY DEF Dropping
<1> QED BY <1>1, FiniteAssumption, CardinalityUpdate

\* While the vk_sync is alive the state is not freed, and the count is what matters.
LEMMA AliveStateRefs ==
  ASSUME IndInv, alive, alive', freed' = freed,
         Cardinality(InUse') \in Nat, Cardinality(Dropping') \in Nat,
         state_refcount' = state_refcount
                           + (Cardinality(InUse') - Cardinality(InUse))
                           + (Cardinality(Dropping') - Cardinality(Dropping))
  PROVE  StateRefsExact' /\ state_refcount' \in Nat
<1> USE DEF IndInv
<1>1. state_refcount = 1 + Cardinality(InUse) + Cardinality(Dropping)
  BY DEF StateRefsExact, InUse, Dropping
<1>2. Cardinality(InUse) \in Nat /\ Cardinality(Dropping) \in Nat /\ state_refcount \in Nat
  BY StateCounts DEF TypeOK
<1>3. state_refcount' = 1 + Cardinality(InUse') + Cardinality(Dropping') BY <1>1, <1>2
<1>4. ~ freed BY FreedFacts
<1>5. state_refcount' # 0 /\ state_refcount' \in Nat BY <1>3
<1> QED BY <1>3, <1>4, <1>5 DEF StateRefsExact, InUse, Dropping

\* vk_sync_timeline_unref_point_locked keeps the free list and the state's count exact.
LEMMA UnrefFacts ==
  ASSUME IndInv, NEW p \in Points, NEW n \in {1, 2}, refcount[p] >= n,
         UnrefPointLocked(p, n), created' = created
  PROVE  /\ refcount' \in [Points -> Nat] /\ free_points' \in SUBSET Points
         /\ \A q \in created' : q \in free_points' <=> refcount'[q] = 0
         /\ free_points' \subseteq created'
         /\ UsedIsCreated'
         /\ Cardinality(InUse') \in Nat
         /\ state_refcount' = state_refcount + (Cardinality(InUse') - Cardinality(InUse))
<1> USE DEF IndInv, UnrefPointLocked
<1>1. refcount[p] \in Nat /\ refcount[p] - n \in Nat BY DEF TypeOK
<1>2. refcount' \in [Points -> Nat] BY <1>1 DEF TypeOK
<1>3. free_points' \in SUBSET Points BY DEF TypeOK
<1>4. p \in created BY <1>1 DEF UsedIsCreated
<1>5. refcount'[p] = refcount[p] - n /\ \A q \in Points \ {p} : refcount'[q] = refcount[q]
  BY DEF TypeOK
<1>6. \A q \in created' : q \in free_points' <=> refcount'[q] = 0
  <2> SUFFICES ASSUME NEW q \in created PROVE q \in free_points' <=> refcount'[q] = 0
    OBVIOUS
  <2>0. q \in Points BY DEF TypeOK
  <2>1. CASE q = p BY <1>1, <1>5, <2>1 DEF PointLists
  <2>2. CASE q # p BY <1>5, <2>0, <2>2 DEF PointLists
  <2> QED BY <2>1, <2>2
<1>7. free_points' \subseteq created' BY <1>4 DEF PointLists
<1>8. UsedIsCreated' BY <1>4, <1>5 DEF UsedIsCreated
<1>9. /\ Cardinality(InUse) \in Nat /\ Cardinality(InUse') \in Nat
      /\ refcount'[p] > 0 => Cardinality(InUse') = Cardinality(InUse)
      /\ ~ (refcount'[p] > 0) => Cardinality(InUse') = Cardinality(InUse) - 1
  BY <1>1, <1>5, InUseUpdate
<1>10. state_refcount' = state_refcount + (Cardinality(InUse') - Cardinality(InUse))
  <2>1. CASE refcount[p] = n BY <1>1, <1>5, <1>9, <2>1 DEF TypeOK
  <2>2. CASE refcount[p] # n BY <1>1, <1>5, <1>9, <2>2 DEF TypeOK
  <2> QED BY <2>1, <2>2
<1> QED BY <1>2, <1>3, <1>6, <1>7, <1>8, <1>9, <1>10

\* vk_sync_timeline_complete_point_locked, for the first pending point.
LEMMA CompleteHead ==
  ASSUME IndInv, pending_points # << >>,
         pending_points' = Tail(pending_points),
         pending' = [pending EXCEPT ![Head(pending_points)] = FALSE],
         highest_past' = value[Head(pending_points)],
         UNCHANGED << highest_pending, value >>
  PROVE  /\ pending_points' \in Seq(Points)
         /\ pending' \in [Points -> BOOLEAN] /\ highest_past' \in Nat
         /\ \A q \in Points : pending'[q] <=> q \in RangeOf(pending_points')
         /\ \A i, j \in 1 .. Len(pending_points') :
              pending_points'[i] = pending_points'[j] => i = j
         /\ PendingOrdered'
         /\ highest_past' > highest_past
<1> USE DEF IndInv
<1> DEFINE s == pending_points
           p == Head(s)
<1>1. s \in Seq(Points) /\ Distinct(s) /\ p \in Points /\ value[p] \in Nat
  BY TailFacts DEF TypeOK, PointLists, Distinct
<1>2. pending[p] BY <1>1, TailFacts DEF PointLists, RangeOf
<1>3. highest_past' > highest_past
  <2>1. highest_past < value[p] BY <1>1, <1>2, PastBelow
  <2> QED BY <1>1, <2>1 DEF TypeOK
<1>4. pending' \in [Points -> BOOLEAN] BY DEF TypeOK
<1>5. \A q \in Points : pending'[q] <=> q \in RangeOf(pending_points')
  BY <1>1, TailDistinct DEF PointLists, TypeOK
<1>6. \A i, j \in 1 .. Len(pending_points') :
        pending_points'[i] = pending_points'[j] => i = j
  BY <1>1, TailDistinct DEF Distinct
<1>7. PendingOrdered'
  <2>1. /\ Len(Tail(s)) = Len(s) - 1 /\ Len(s) \in Nat /\ Len(s) >= 1 /\ p = s[1]
        /\ \A i \in 1 .. (Len(s) - 1) : Tail(s)[i] = s[i + 1] /\ i + 1 \in 1 .. Len(s)
    BY <1>1, TailFacts
  <2>2. ASSUME NEW i \in 1 .. Len(Tail(s))
        PROVE  /\ value[p] < value[Tail(s)[i]]
               /\ value[Tail(s)[i]] <= highest_pending
               /\ \A j \in 1 .. (i - 1) : value[Tail(s)[j]] < value[Tail(s)[i]]
    <3>1. i \in 1 .. (Len(s) - 1) /\ i + 1 \in 1 .. Len(s) /\ Tail(s)[i] = s[i + 1] BY <2>1
    <3>2. 1 \in 1 .. ((i + 1) - 1) BY <3>1
    <3>3. value[s[1]] < value[s[i + 1]] BY <3>1, <3>2 DEF PendingOrdered
    <3>4. value[s[i + 1]] <= highest_pending BY <3>1 DEF PendingOrdered
    <3>5. ASSUME NEW j \in 1 .. (i - 1) PROVE value[Tail(s)[j]] < value[Tail(s)[i]]
      <4>1. j + 1 \in 1 .. ((i + 1) - 1) /\ j \in 1 .. (Len(s) - 1) BY <3>1
      <4>2. value[s[j + 1]] < value[s[i + 1]] BY <3>1, <4>1 DEF PendingOrdered
      <4> QED BY <2>1, <3>1, <4>1, <4>2
    <3> QED BY <2>1, <3>1, <3>3, <3>4, <3>5
  <2>3. CASE Tail(s) = << >>
    <3>0. Len(Tail(s)) = 0 BY <2>3, EmptySeq, Zenon
    <3>1. Len(s) = 1
      <4> DEFINE m == Len(s)
                 k == Len(Tail(s))
      <4>1. m \in Nat /\ k = m - 1 /\ k = 0 BY <2>1, <3>0, Zenon
      <4> HIDE DEF m, k
      <4>2. m = 1 BY <4>1
      <4> QED BY <4>2 DEF m
    <3>2. value[s[1]] = highest_pending BY <3>1 DEF PendingOrdered
    <3> QED BY <2>1, <2>3, <3>2 DEF PendingOrdered
  <2>4. CASE Tail(s) # << >>
    <3>1. Tail(s) \in Seq(Points) BY <1>1, TailFacts
    <3>2. Len(Tail(s)) >= 1 BY <2>4, <3>1, TailFacts
    <3>3. Tail(s)[Len(Tail(s))] = s[Len(s)] BY <2>1, <3>2
    <3>4. value[s[Len(s)]] = highest_pending BY DEF PendingOrdered
    <3> QED BY <2>2, <2>4, <3>3, <3>4 DEF PendingOrdered
  <2> QED BY <2>3, <2>4
<1> QED BY <1>1, <1>3, <1>4, <1>5, <1>6, <1>7, TailFacts

\* A collecting client holds no point and owns the mutex; the vk_sync is alive.
LEMMA CollectorFacts ==
  ASSUME IndInv, NEW c \in Clients, pc[c] \in LockedPcs
  PROVE  /\ mutex = c /\ point[c] = NoPoint /\ alive
         /\ \A d \in Clients : d # c => pc[d] \notin LockedPcs
BY DEF IndInv, MutexOwned, PointHeld, FinishQuiet, LockedPcs, GcPcs, HoldingPcs, IdlePcs
=============================================================================
