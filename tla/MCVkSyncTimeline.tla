-------------------------- MODULE MCVkSyncTimeline --------------------------
(* Instances of VkSyncTimeline for TLC. *)
EXTENDS VkSyncTimeline, TLC
=============================================================================
