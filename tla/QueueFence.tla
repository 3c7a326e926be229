----------------------------- MODULE QueueFence -----------------------------
(***************************************************************************)
(* What the completion fence of a job promises (util/u_queue.h), and how   *)
(* UtilQueue uses it: a flag that one side signals and others wait for.    *)
(***************************************************************************)
CONSTANTS Waiters

VARIABLES
  signalled,
  call       \* per waiter: "none", "waiting", "done" or "timeout"

vars == << signalled, call >>

Init == signalled = TRUE /\ call = [w \in Waiters |-> "none"]

\* Nobody waits or is about to wait.
Reset ==
  /\ signalled /\ \A w \in Waiters : call[w] = "none"
  /\ signalled' = FALSE /\ UNCHANGED call

Signal == ~ signalled /\ signalled' = TRUE /\ UNCHANGED call

Start(w) ==
  /\ call[w] = "none"
  /\ \/ call' = [call EXCEPT ![w] = "waiting"]
     \/ signalled /\ call' = [call EXCEPT ![w] = "done"]
  /\ UNCHANGED signalled

Succeed(w) ==
  /\ call[w] = "waiting" /\ signalled
  /\ call' = [call EXCEPT ![w] = "done"] /\ UNCHANGED signalled

GiveUp(w) ==
  /\ call[w] = "waiting"
  /\ call' = [call EXCEPT ![w] = "timeout"] /\ UNCHANGED signalled

Leave(w) ==
  /\ call[w] \in {"done", "timeout"}
  /\ call' = [call EXCEPT ![w] = "none"] /\ UNCHANGED signalled

Next ==
  \/ Reset \/ Signal
  \/ \E w \in Waiters : Start(w) \/ Succeed(w) \/ GiveUp(w) \/ Leave(w)

Spec == Init /\ [][Next]_vars
=============================================================================
