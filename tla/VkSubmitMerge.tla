---------------------------- MODULE VkSubmitMerge ----------------------------
(***************************************************************************)
(* The submits of vulkan/runtime/vk_queue.c as values and                  *)
(* vk_queue_submits_merge.  A submit is a record                           *)
(*   cmds, binds    command buffers, sparse binds                          *)
(*   waits          sequence of records with a field `binary': a wait for  *)
(*                  the permanent payload of a binary semaphore            *)
(*   signals        sequence of signal operations                          *)
(*   has_binary     _has_binary_permanent_semaphore_wait                   *)
(*   perf, prot     perf_pass_index, is_protected                          *)
(***************************************************************************)
EXTENDS Naturals, Sequences

Elements(s) == {s[k] : k \in DOMAIN s}

\* vk_queue_submit_create (fence: << >> or the signal of the fence); the flag is set by
\* vk_queue_submit_add_semaphore_wait.
SubmitCreate(info, fence) ==
  [cmds |-> info.cmds, binds |-> info.binds, waits |-> info.waits,
   signals |-> info.signals \o fence,
   has_binary |-> \E w \in Elements(info.waits) : w.binary,
   perf |-> info.perf, prot |-> info.prot]

HasBind(s) == s.binds # << >>
Noop(s) == s.cmds = << >> /\ s.binds = << >> /\ s.waits = << >> /\ s.signals = << >>

\* Mutant: a wait in the second submit does not matter.
SignalsInBetween_NoWaits(first, second) ==
  first.signals # << >> /\ (second.cmds # << >> \/ HasBind(second))
\* `Don't merge if there are signals in between: see Signal operation order'
SignalsInBetween(first, second) ==
  first.signals # << >> /\ (second.cmds # << >> \/ HasBind(second) \/ second.waits # << >>)

\* Mutant: the kinds are not compared.
CanMerge_AnyKind(first, second) == ~ SignalsInBetween(first, second)
CanMerge(first, second) ==
  /\ ~ SignalsInBetween(first, second)
  /\ HasBind(first) = HasBind(second)
  /\ first.perf = second.perf
  /\ Noop(first) \/ Noop(second) \/ first.prot = second.prot

\* vk_queue_submits_merge for submits that can be merged.
Merged(first, second) ==
  CASE Noop(second) -> first
    [] ~ Noop(second) /\ Noop(first) -> second
    [] OTHER ->
       [cmds |-> first.cmds \o second.cmds, binds |-> first.binds \o second.binds,
        waits |-> first.waits \o second.waits, signals |-> first.signals \o second.signals,
        has_binary |-> first.has_binary,
        perf |-> first.perf, prot |-> first.prot]
=============================================================================
