-------------------------- MODULE MCVkQueueSubmit2 --------------------------
(* A small set of batches for VkQueueSubmit2. *)
EXTENDS VkQueueSubmit2

MCWaits == {<< >>, << [sync |-> "y", binary |-> TRUE] >>}
MCKinds == {[binds |-> << >>, perf |-> 0, prot |-> FALSE],
            [binds |-> << >>, perf |-> 1, prot |-> FALSE],
            [binds |-> << >>, perf |-> 0, prot |-> TRUE],
            [binds |-> << "bind" >>, perf |-> 0, prot |-> FALSE]}
MCInfos ==
  { [cmds |-> c, waits |-> w, signals |-> s, binds |-> k.binds, perf |-> k.perf, prot |-> k.prot] :
      c \in {<< >>, << "cmd" >>}, w \in MCWaits, s \in {<< >>, << "x" >>}, k \in MCKinds }
=============================================================================
