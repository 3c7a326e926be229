---------------------------- MODULE VkQueueSubmit2 ----------------------------
(***************************************************************************)
(* The loop of vk_common_QueueSubmit2: every batch of a call becomes a     *)
(* submit, which is merged with the previous one or makes it go to         *)
(* vk_queue_submit.                                                        *)
(***************************************************************************)
EXTENDS VkSubmitMerge, FiniteSets

CONSTANTS
  Infos,        \* the batches an application may pass
  Fence,        \* the signal operation of the fence
  Syncs,        \* the payloads that waits and signals refer to
  MaxBatches    \* bound on submitCount

ASSUME MaxBatchesAssumption == MaxBatches \in Nat

VARIABLES
  batches,      \* pSubmits up to here, each as a submit of its own
  submitted,    \* what was given to vk_queue_submit, in order
  last_submit,  \* << >> or << submit >>
  pc            \* "loop", "tail" (all batches are created), "ok" or "failed"

vars == << batches, submitted, last_submit, pc >>

Init == batches = << >> /\ submitted = << >> /\ last_submit = << >> /\ pc = "loop"

\* No memory is needed for the merge.
MergesForFree(first, second) == CanMerge(first, second) /\ (Noop(first) \/ Noop(second))

\* vk_queue_merge_submit.  The merge also fails when memory is short; vk_queue_submit may
\* fail, and then `submit' is destroyed and the call returns.
MergeSubmit(submit, next) ==
  \/ /\ last_submit = << >>
     /\ last_submit' = << submit >> /\ pc' = next /\ UNCHANGED submitted
  \/ /\ last_submit # << >> /\ CanMerge(last_submit[1], submit)
     /\ last_submit' = << Merged(last_submit[1], submit) >> /\ pc' = next
     /\ UNCHANGED submitted
  \/ /\ last_submit # << >> /\ ~ MergesForFree(last_submit[1], submit)
     /\ submitted' = submitted \o last_submit
     /\ last_submit' = << submit >> /\ pc' = next
  \/ /\ last_submit # << >> /\ ~ MergesForFree(last_submit[1], submit)
     /\ last_submit' = << >> /\ pc' = "failed" /\ UNCHANGED submitted

\* One round of the loop; the fence goes with the last batch.
NextBatch(info, fence, next) ==
  /\ pc = "loop" /\ Len(batches) < MaxBatches
  /\ fence # << >> \/ Len(batches) + 1 = MaxBatches => next = "tail"
  /\ batches' = Append(batches, SubmitCreate(info, fence))
  /\ MergeSubmit(SubmitCreate(info, fence), next)

\* vk_queue_submit_create fails: the call returns at once.
CreateFails ==
  /\ pc = "loop" /\ Len(batches) < MaxBatches
  /\ pc' = "failed"
  /\ UNCHANGED << batches, submitted, last_submit >>

LastSubmit ==
  /\ pc = "tail"
  /\ \/ pc' = "ok" /\ submitted' = submitted \o last_submit
     \/ pc' = "failed" /\ UNCHANGED submitted
  /\ last_submit' = << >>
  /\ UNCHANGED batches

Returned == pc \in {"ok", "failed"} /\ UNCHANGED vars

Next ==
  \/ \E info \in Infos, fence \in {<< >>, << Fence >>}, next \in {"loop", "tail"} :
       NextBatch(info, fence, next)
  \/ CreateFails \/ LastSubmit \/ Returned

Spec == Init /\ [][Next]_vars

-----------------------------------------------------------------------------
\* What a queue that runs a list of submits in order makes of the payloads in `avail': a
\* submit runs when all it waits for is available.
Available(list, avail) ==
  LET run[k \in 0 .. Len(list)] ==
        IF k = 0 THEN [go |-> TRUE, avail |-> avail]
        ELSE LET p == run[k - 1] IN
             IF p.go /\ {w.sync : w \in Elements(list[k].waits)} \subseteq p.avail
             THEN [go |-> TRUE, avail |-> p.avail \cup Elements(list[k].signals)]
             ELSE [go |-> FALSE, avail |-> p.avail]
  IN run[Len(list)].avail

\* The command buffers, each with the counter pass and the protection of its submit.
FlatCmds(list) ==
  LET run[k \in 0 .. Len(list)] ==
        IF k = 0 THEN << >>
        ELSE run[k - 1] \o [i \in DOMAIN list[k].cmds |->
                              << list[k].cmds[i], list[k].perf, list[k].prot >>]
  IN run[Len(list)]

FlatSignals(list) ==
  LET run[k \in 0 .. Len(list)] == IF k = 0 THEN << >> ELSE run[k - 1] \o list[k].signals
  IN run[Len(list)]

\* Merging is invisible: whatever payloads are there, the queue that got the merged
\* submits signals exactly what it would signal for the batches of the call.  A merge
\* across a signal would make that signal wait for more (vk_queue_submits_merge).
MergeInvisible ==
  pc # "failed" =>
    \A avail \in SUBSET Syncs :
      Available(submitted \o last_submit, avail) = Available(batches, avail)

\* Command buffers run and signals happen in the order of the call, none lost or doubled,
\* and every command buffer with the counter pass and the protection of its batch
\* (vk_queue_submits_merge, vk_common_QueueSubmit2).
OrderKept ==
  pc # "failed" =>
    /\ FlatCmds(submitted \o last_submit) = FlatCmds(batches)
    /\ FlatSignals(submitted \o last_submit) = FlatSignals(batches)
=============================================================================
