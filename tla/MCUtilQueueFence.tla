-------------------------- MODULE MCUtilQueueFence --------------------------
(* Instances of UtilQueueFence for TLC. *)
EXTENDS UtilQueueFence, TLC
=============================================================================
