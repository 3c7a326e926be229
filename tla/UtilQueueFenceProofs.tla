------------------------ MODULE UtilQueueFenceProofs ------------------------
(***************************************************************************)
(* Proofs about the futex fence, for any number of waiters and workers:    *)
(* the word keeps its three states, no sleeper is forgotten, and the fence *)
(* implements the flag of QueueFence.                                      *)
(***************************************************************************)
EXTENDS UtilQueueFence, TLAPS

Inv == TypeOK /\ SleepersAnnounced

\* The initial state satisfies the invariant.
LEMMA InitInv == Init => Inv
  BY DEF Init, Inv, TypeOK, SleepersAnnounced, WaiterPcs

\* Every step keeps the types.
LEMMA NextType == TypeOK /\ [Next]_vars => TypeOK'
<1> SUFFICES ASSUME TypeOK, [Next]_vars PROVE TypeOK'
  OBVIOUS
<1> USE DEF TypeOK, WaiterPcs
<1>1. CASE Reset
  BY <1>1 DEF Reset
<1>2. ASSUME NEW s \in Workers, Signal(s) PROVE TypeOK'
  BY <1>2 DEF Signal, MustWake
<1>3. ASSUME NEW s \in Workers, FutexWake(s) PROVE TypeOK'
  BY <1>3 DEF FutexWake
<1>4. ASSUME NEW w \in Waiters, NEW t \in BOOLEAN, WaitStart(w, t) PROVE TypeOK'
  BY <1>4 DEF WaitStart, Goto
<1>5. ASSUME NEW w \in Waiters, WaitRead(w) PROVE TypeOK'
  BY <1>5 DEF WaitRead, Goto
<1>6. ASSUME NEW w \in Waiters, WaitAnnounce(w) PROVE TypeOK'
  <2>1. CASE v[w] = 2
    BY <1>6, <2>1 DEF WaitAnnounce, Goto
  <2>2. CASE v[w] # 2
    BY <1>6, <2>2 DEF WaitAnnounce, Announced, Goto
  <2> QED BY <2>1, <2>2
<1>7. ASSUME NEW w \in Waiters, FutexWait(w) PROVE TypeOK'
  BY <1>7 DEF FutexWait, Goto
<1>8. ASSUME NEW w \in Waiters, FutexReturn(w) PROVE TypeOK'
  BY <1>8 DEF FutexReturn, Goto
<1>9. ASSUME NEW w \in Waiters, Return(w) PROVE TypeOK'
  BY <1>9 DEF Return, Goto
<1>10. CASE UNCHANGED vars
  BY <1>10 DEF vars
<1> QED
  BY <1>1, <1>2, <1>3, <1>4, <1>5, <1>6, <1>7, <1>8, <1>9, <1>10 DEF Next, WaiterStep

\* Every step leaves each sleeper announced: only a signal clears the word, and the worker
\* that clears a 2 wakes everybody afterwards.
LEMMA NextAnnounced == Inv /\ [Next]_vars => SleepersAnnounced'
<1> SUFFICES ASSUME Inv, [Next]_vars PROVE SleepersAnnounced'
  OBVIOUS
<1> USE DEF Inv, TypeOK, SleepersAnnounced
<1>1. CASE Reset
  BY <1>1 DEF Reset
<1>2. ASSUME NEW s \in Workers, Signal(s) PROVE SleepersAnnounced'
  <2>1. CASE val = 2
    BY <1>2, <2>1 DEF Signal, MustWake
  <2>2. CASE val # 2
    BY <1>2, <2>2 DEF Signal, MustWake
  <2> QED BY <2>1, <2>2
<1>3. ASSUME NEW s \in Workers, FutexWake(s) PROVE SleepersAnnounced'
  BY <1>3 DEF FutexWake
<1>4. ASSUME NEW w \in Waiters, NEW t \in BOOLEAN, WaitStart(w, t) PROVE SleepersAnnounced'
  BY <1>4 DEF WaitStart, Goto
<1>5. ASSUME NEW w \in Waiters, WaitRead(w) PROVE SleepersAnnounced'
  BY <1>5 DEF WaitRead, Goto
<1>6. ASSUME NEW w \in Waiters, WaitAnnounce(w) PROVE SleepersAnnounced'
  <2>1. val = 2 => val' = 2
    BY <1>6 DEF WaitAnnounce, Announced
  <2> QED BY <1>6, <2>1 DEF WaitAnnounce, Goto
<1>7. ASSUME NEW w \in Waiters, FutexWait(w) PROVE SleepersAnnounced'
  BY <1>7 DEF FutexWait, Sleeps, Goto
<1>8. ASSUME NEW w \in Waiters, FutexReturn(w) PROVE SleepersAnnounced'
  BY <1>8 DEF FutexReturn, Goto
<1>9. ASSUME NEW w \in Waiters, Return(w) PROVE SleepersAnnounced'
  BY <1>9 DEF Return, Goto
<1>10. CASE UNCHANGED vars
  BY <1>10 DEF vars
<1> QED
  BY <1>1, <1>2, <1>3, <1>4, <1>5, <1>6, <1>7, <1>8, <1>9, <1>10 DEF Next, WaiterStep

\* The invariant holds in every reachable state.
THEOREM FenceInvariant == Spec => []Inv
<1>1. Init => Inv
  BY InitInv
<1>2. Inv /\ [Next]_vars => Inv'
  BY NextType, NextAnnounced DEF Inv
<1> QED
  BY <1>1, <1>2, PTL DEF Spec

\* The word has one of its three values, whatever the waiters and workers do.
THEOREM FenceTypeOK == Spec => []TypeOK
  BY FenceInvariant, PTL DEF Inv

\* No wakeup is lost: a sleeper is announced in the word or about to be woken.
THEOREM FenceSleepersAnnounced == Spec => []SleepersAnnounced
  BY FenceInvariant, PTL DEF Inv

-----------------------------------------------------------------------------
\* The state of a waiter's call in QueueFence.
Call == [ w \in Waiters |-> IF pc[w] \in {"done", "timeout"} THEN pc[w]
                            ELSE IF Waiting(w) THEN "waiting" ELSE "none" ]

\* A step that moves one waiter changes one call.
LEMMA CallUpdate ==
  ASSUME TypeOK, NEW w \in Waiters, NEW l \in WaiterPcs, pc' = [pc EXCEPT ![w] = l]
  PROVE  Call' = [Call EXCEPT ![w] =
                    IF l \in {"done", "timeout"} THEN l
                    ELSE IF l \in {"read", "loop", "futex", "asleep", "reread"} THEN "waiting"
                    ELSE "none"]
  BY DEF TypeOK, Call, Waiting

\* Every step of the fence is a step of QueueFence or changes nothing that it shows.
LEMMA StepRefines == TypeOK /\ [Next]_vars => [Abstract!Next]_(Abstract!vars)
<1> SUFFICES ASSUME TypeOK, [Next]_vars PROVE [Abstract!Next]_(Abstract!vars)
  OBVIOUS
<1> USE DEF TypeOK, Abstract!Next, Abstract!vars
<1>1. CASE Reset
  <2>1. \A w \in Waiters : Call[w] = "none"
    BY <1>1 DEF Reset, Call, Waiting
  <2>2. Call' = Call
    BY <1>1 DEF Reset, Call, Waiting
  <2> QED BY <1>1, <2>1, <2>2 DEF Reset, Abstract!Reset, Call
<1>2. ASSUME NEW s \in Workers, Signal(s) PROVE Abstract!Signal
  <2>1. Call' = Call
    BY <1>2 DEF Signal, Call, Waiting
  <2> QED BY <1>2, <2>1 DEF Signal, Abstract!Signal, Call
<1>3. ASSUME NEW s \in Workers, FutexWake(s) PROVE UNCHANGED Abstract!vars
  <2>1. Call' = Call
    BY <1>3 DEF FutexWake, Call, Waiting
  <2> QED BY <1>3, <2>1 DEF FutexWake, Call
<1>4. ASSUME NEW w \in Waiters, NEW t \in BOOLEAN, WaitStart(w, t) PROVE Abstract!Start(w)
  <2>1. Call[w] = "none"
    BY <1>4 DEF WaitStart, Call, Waiting
  <2>2. CASE val = 0
    <3>1. Call' = [Call EXCEPT ![w] = "done"]
      BY <1>4, <2>2, CallUpdate DEF WaitStart, Goto, WaiterPcs
    <3> QED BY <1>4, <2>1, <2>2, <3>1 DEF WaitStart, Abstract!Start, Call
  <2>3. CASE val # 0
    <3>1. Call' = [Call EXCEPT ![w] = "waiting"]
      BY <1>4, <2>3, CallUpdate DEF WaitStart, Goto, WaiterPcs
    <3> QED BY <1>4, <2>1, <2>3, <3>1 DEF WaitStart, Abstract!Start, Call
  <2> QED BY <2>2, <2>3
<1>5. ASSUME NEW w \in Waiters, WaitRead(w) PROVE Abstract!Succeed(w) \/ UNCHANGED Abstract!vars
  <2>1. Call[w] = "waiting"
    BY <1>5 DEF WaitRead, Call, Waiting
  <2>2. CASE val = 0
    <3>1. Call' = [Call EXCEPT ![w] = "done"]
      BY <1>5, <2>2, CallUpdate DEF WaitRead, Goto, WaiterPcs
    <3> QED BY <1>5, <2>1, <2>2, <3>1 DEF WaitRead, Abstract!Succeed, Call
  <2>3. CASE val # 0
    <3>1. Call' = [Call EXCEPT ![w] = "waiting"]
      BY <1>5, <2>3, CallUpdate DEF WaitRead, Goto, WaiterPcs
    <3>2. Call' = Call
      BY <2>1, <3>1 DEF Call
    <3> QED BY <1>5, <3>2 DEF WaitRead, Call
  <2> QED BY <2>2, <2>3
<1>6. ASSUME NEW w \in Waiters, WaitAnnounce(w)
      PROVE  Abstract!Succeed(w) \/ UNCHANGED Abstract!vars
  <2>1. Call[w] = "waiting"
    BY <1>6 DEF WaitAnnounce, Call, Waiting
  <2>2. val' = 0 <=> val = 0
    BY <1>6 DEF WaitAnnounce, Announced
  <2>3. CASE v[w] # 2 /\ val = 0
    <3>1. Call' = [Call EXCEPT ![w] = "done"]
      BY <1>6, <2>3, CallUpdate DEF WaitAnnounce, Goto, WaiterPcs
    <3> QED BY <2>1, <2>2, <2>3, <3>1 DEF Abstract!Succeed, Call
  <2>4. CASE v[w] = 2 \/ val # 0
    <3>1. Call' = [Call EXCEPT ![w] = "waiting"]
      BY <1>6, <2>4, CallUpdate DEF WaitAnnounce, Goto, WaiterPcs
    <3>2. Call' = Call
      BY <2>1, <3>1 DEF Call
    <3> QED BY <2>2, <3>2 DEF Call
  <2> QED BY <2>3, <2>4
<1>7. ASSUME NEW w \in Waiters, FutexWait(w) PROVE UNCHANGED Abstract!vars
  <2>1. Call' = Call
    BY <1>7 DEF FutexWait, Goto, Call, Waiting
  <2> QED BY <1>7, <2>1 DEF FutexWait, Call
<1>8. ASSUME NEW w \in Waiters, FutexReturn(w)
      PROVE  Abstract!GiveUp(w) \/ UNCHANGED Abstract!vars
  <2>1. Call[w] = "waiting"
    BY <1>8 DEF FutexReturn, Call, Waiting
  <2>2. CASE Goto(w, "reread")
    <3>1. Call' = Call
      BY <1>8, <2>2 DEF FutexReturn, Goto, Call, Waiting
    <3> QED BY <1>8, <3>1 DEF FutexReturn, Call
  <2>3. CASE Goto(w, "timeout")
    <3>1. Call' = [Call EXCEPT ![w] = "timeout"]
      BY <2>3, CallUpdate DEF Goto, WaiterPcs
    <3> QED BY <1>8, <2>1, <3>1 DEF FutexReturn, Abstract!GiveUp, Call
  <2> QED BY <1>8, <2>2, <2>3 DEF FutexReturn
<1>9. ASSUME NEW w \in Waiters, Return(w) PROVE Abstract!Leave(w)
  <2>1. Call[w] \in {"done", "timeout"}
    BY <1>9 DEF Return, Call
  <2>2. Call' = [Call EXCEPT ![w] = "none"]
    BY <1>9, CallUpdate DEF Return, Goto, WaiterPcs
  <2> QED BY <1>9, <2>1, <2>2 DEF Return, Abstract!Leave, Call
<1>10. CASE UNCHANGED vars
  BY <1>10 DEF vars, Waiting
<1> QED
  BY <1>1, <1>2, <1>3, <1>4, <1>5, <1>6, <1>7, <1>8, <1>9, <1>10 DEF Next, WaiterStep

\* The futex word implements the fence of QueueFence for any number of waiters and
\* workers: whoever is told that the fence is signalled is told the truth.
THEOREM FenceRefines == Spec => ImplementsFence
<1>1. Init => Abstract!Init
  BY DEF Init, Abstract!Init, Waiting
<1>2. TypeOK /\ [Next]_vars => [Abstract!Next]_(Abstract!vars)
  BY StepRefines
<1> QED
  BY <1>1, <1>2, FenceTypeOK, PTL DEF Spec, ImplementsFence, Abstract!Spec
=============================================================================
