-------------------------- MODULE TimelineSemaphore --------------------------
(***************************************************************************)
(* What a timeline vk_sync promises to its users (vk_sync.h), without      *)
(* points, lists or references: a counter, the highest value submitted for *)
(* signaling, and calls that return once the counter is high enough.       *)
(***************************************************************************)
EXTENDS Integers

CONSTANTS Clients

VARIABLES
  counter,      \* the value of the timeline
  submitted,    \* the highest value a signal operation was submitted for
  call,         \* per client: "none", "waiting" or "done"
  want,         \* the value of the call, 0 outside of one
  flavour       \* "pending": wait for the submission; "complete": for the signal

vars == << counter, submitted, call, want, flavour >>

Init ==
  /\ counter \in Nat /\ submitted = counter
  /\ call = [c \in Clients |-> "none"]
  /\ want = [c \in Clients |-> 0]
  /\ flavour = [c \in Clients |-> "complete"]

Satisfied(v, k) == v <= IF k = "pending" THEN submitted ELSE counter

\* A signal operation is submitted.
Submit ==
  /\ submitted' > submitted /\ submitted' \in Nat
  /\ UNCHANGED << counter, call, want, flavour >>

\* Submitted signal operations have executed.
Advance ==
  /\ counter' > counter /\ counter' \in Nat /\ counter' <= submitted
  /\ UNCHANGED << submitted, call, want, flavour >>

\* The host signals; no submitted signal operation is outstanding.
HostSignal ==
  /\ counter = submitted
  /\ counter' > counter /\ counter' \in Nat /\ submitted' = counter'
  /\ UNCHANGED << call, want, flavour >>

Start(c) ==
  /\ call[c] = "none"
  /\ want'[c] \in Nat /\ want' = [want EXCEPT ![c] = want'[c]]
  /\ flavour'[c] \in {"pending", "complete"}
  /\ flavour' = [flavour EXCEPT ![c] = flavour'[c]]
  /\ \/ call' = [call EXCEPT ![c] = "waiting"]
     \/ Satisfied(want'[c], flavour'[c]) /\ call' = [call EXCEPT ![c] = "done"]
  /\ UNCHANGED << counter, submitted >>

Succeed(c) ==
  /\ call[c] = "waiting"
  /\ Satisfied(want[c], flavour[c])
  /\ call' = [call EXCEPT ![c] = "done"]
  /\ UNCHANGED << counter, submitted, want, flavour >>

\* A timeout or an error ends a waiting call; a finished call is left.
Leave(c) ==
  /\ call[c] \in {"waiting", "done"}
  /\ call' = [call EXCEPT ![c] = "none"]
  /\ want' = [want EXCEPT ![c] = 0]
  /\ flavour' = [flavour EXCEPT ![c] = "complete"]
  /\ UNCHANGED << counter, submitted >>

Next ==
  \/ Submit \/ Advance \/ HostSignal
  \/ \E c \in Clients : Start(c) \/ Succeed(c) \/ Leave(c)

Spec == Init /\ [][Next]_vars
=============================================================================
