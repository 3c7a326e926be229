----------------------------- MODULE MCUtilQueue -----------------------------
(* Small instances of UtilQueue. *)
EXTENDS UtilQueue, TLC

\* Clients and jobs are interchangeable.
Symmetry == Permutations(Clients) \cup Permutations(Jobs)
=============================================================================
