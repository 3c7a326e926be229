------------------------------ MODULE MCVkQueue ------------------------------
(* Small instances of VkQueue. *)
EXTENDS VkQueue, TLC

CONSTANTS q1, q2, t1
ByHost == [t \in Timelines |-> Host]
TwoAndOne == [q \in Queues |-> IF q = q1 THEN 2 ELSE 1]
TwoEach == [q \in Queues |-> 2]
FourEach == [q \in Queues |-> 4]
=============================================================================
