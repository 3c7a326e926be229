------------------------------- MODULE VkQueue -------------------------------
(***************************************************************************)
(* Queue submission of vulkan/runtime/vk_queue.c on a device with kernel   *)
(* timelines (VK_DEVICE_TIMELINE_MODE_ASSISTED): queues submit from the    *)
(* application's thread until a wait-before-signal makes them start a      *)
(* submit thread (VK_QUEUE_SUBMIT_MODE_THREADED_ON_DEMAND).  The model has *)
(* vkQueueSubmit2, vkQueueWaitIdle, the submit threads, the loss of the    *)
(* device and vk_queue_finish, over any number of queues.                  *)
(*                                                                         *)
(* An application thread drives each queue.  It follows the rules of       *)
(* Vulkan: a semaphore is used by one call at a time; a binary semaphore   *)
(* is waited for once after each signal, whose dependencies are submitted; *)
(* a timeline is signalled with increasing values by one queue or the host.*)
(* When a call fails, the thread stops using its queue and the semaphores  *)
(* of the call.                                                            *)
(***************************************************************************)
EXTENDS VkSubmitMerge, FiniteSetsExt

CONSTANTS
  Queues,
  Binaries, Timelines,      \* semaphores; binary ones have permanent, unshared payloads
  Host,
  Signaller,                \* Signaller[t]: the queue that signals t, or Host
  StartThreaded,            \* queues with a submit thread from the start (sparse binding)
  MaxValue,                 \* bound on the values of timelines
  MaxCalls,                 \* MaxCalls[q]: bound on the batches submitted to q
  MaxBatches,               \* 1 or 2 batches in a submission
  Mixed,                    \* the second may wait for a binary semaphore when the first does not
  MaxFailures,              \* bound on failing waits and driver submits
  Ops                       \* of "idle" (vkQueueWaitIdle), "finish" (vkDestroyDevice)

ASSUME ConstantsAssumption ==
  /\ MaxValue \in Nat /\ MaxCalls \in [Queues -> Nat] /\ MaxFailures \in Nat /\ MaxBatches \in {1, 2}
  /\ Mixed \in BOOLEAN
  /\ Signaller \in [Timelines -> Queues \cup {Host}]
  /\ Host \notin Queues /\ StartThreaded \subseteq Queues /\ Ops \subseteq {"idle", "finish"}
  /\ Binaries \cap Timelines = {}

VARIABLES
  bin,          \* bin[b]: 0, or the number of the signal operation that is its payload
  tl,           \* tl[t]: highest value with a submitted signal
  mode,         \* queue->submit.mode
  submits,      \* queue->submit.submits
  thread,       \* program point of the submit thread
  thread_run,
  lost,         \* the device is lost
  pc, todo,     \* application thread of the queue: program point, submits of the call
  idle,         \* vkQueueWaitIdle: its sync is signalled
  failures,
  \* What the application and the driver have seen:
  gen, waited,  \* signals of b, waits for b that were submitted by the application
  val,          \* highest value of t that the application submitted a signal for
  issued,       \* number of batches that the application submitted to the queue
  done,         \* batches that reached driver_submit, in order
  matched       \* every wait in a driver_submit found the signal that it means

apiVars == << gen, waited, val, issued >>
vars == << bin, tl, mode, submits, thread, thread_run, lost, pc, todo, idle, failures,
           apiVars, done, matched >>

Init ==
  /\ bin = [b \in Binaries |-> 0]
  /\ tl = [t \in Timelines |-> 0]
  /\ mode = [q \in Queues |-> IF q \in StartThreaded THEN "threaded" ELSE "immediate"]
  /\ submits = [q \in Queues |-> << >>]
  /\ thread = [q \in Queues |-> IF q \in StartThreaded THEN "loop" ELSE "none"]
  /\ thread_run = [q \in Queues |-> q \in StartThreaded]
  /\ lost = FALSE
  /\ pc = [q \in Queues |-> "ready"]
  /\ todo = [q \in Queues |-> << >>]
  /\ idle = [q \in Queues |-> FALSE]
  /\ failures = 0
  /\ gen = [b \in Binaries |-> 0] /\ waited = [b \in Binaries |-> 0]
  /\ val = [t \in Timelines |-> 0]
  /\ issued = [q \in Queues |-> 0]
  /\ done = [q \in Queues |-> << >>]
  /\ matched = TRUE

-----------------------------------------------------------------------------
(* vk_sync *)
\* The payload that a wait for a binary semaphore refers to.
Payload(w) == IF w.temp # 0 THEN w.temp ELSE bin[w.sync]

\* VK_SYNC_WAIT_PENDING: a signal operation is there.
Pending(w) == IF w.binary THEN Payload(w) # 0 ELSE tl[w.sync] >= w.val
\* Mutant: the dependencies are taken for granted.
AllPending_Always(s) == TRUE
AllPending(s) == \A w \in Elements(s.waits) : Pending(w)

\* The value that the signals of a set leave in a semaphore.
Latest(signals, sem, old) ==
  LET v == {g.val : g \in {g \in signals : g.sync = sem}} IN IF v = {} THEN old ELSE Max(v)

\* driver_submit: the kernel takes the payloads of the waits and attaches the signals.
DriverSubmit(q, s) ==
  /\ matched' = (matched /\ \A w \in Elements(s.waits) :
                              IF w.binary THEN Payload(w) = w.val ELSE tl[w.sync] >= w.val)
  /\ bin' = [b \in Binaries |-> Latest(Elements(s.signals), b, bin[b])]
  /\ tl' = [t \in Timelines |-> Latest(Elements(s.signals), t, tl[t])]
  /\ done' = [done EXCEPT ![q] = @ \o s.cmds]
  /\ idle' = [idle EXCEPT ![q] = @ \/ \E g \in Elements(s.signals) : g.sync = "idle"]

\* The driver reports a failure and the queue is marked as lost.
Fail == failures < MaxFailures /\ failures' = failures + 1 /\ lost' = TRUE

-----------------------------------------------------------------------------
(* The application's rules *)
\* Does b get its payload when the submits in the lists go as far as the timelines allow?
\* (Those in a list hold the payloads of their binary waits.)  n[q] submits of each queue
\* go; the smallest n that lets no more go is contained in all n that let no more go.
SignalComes(b) ==
  LET sent(n) == UNION {UNION {Elements(submits[q][k].signals) : k \in 1 .. n[q]} : q \in Queues}
      ready(q, n) == /\ n[q] < Len(submits[q])
                     /\ \A w \in Elements(submits[q][n[q] + 1].waits) :
                          w.binary \/ Max({tl[w.sync], Latest(sent(n), w.sync, 0)}) >= w.val
      closed == {n \in [Queues -> 0 .. Max({Len(submits[q]) : q \in Queues})] :
                   /\ \A q \in Queues : n[q] <= Len(submits[q])
                   /\ \A q \in Queues : ~ ready(q, n)}
  IN bin[b] = gen[b] \/ \A n \in closed : \E g \in sent(n) : g.sync = b /\ g.val = gen[b]

Busy(sem) == \E q \in Queues : \E k \in DOMAIN todo[q] :
               \/ \E w \in Elements(todo[q][k].waits) : w.sync = sem
               \/ \E g \in Elements(todo[q][k].signals) : g.sync = sem

WaitChoices(q) ==
  {<< >>} \cup
  { << [sync |-> b, val |-> gen[b], binary |-> TRUE, temp |-> 0] >> :
      b \in {b \in Binaries : waited[b] < gen[b] /\ ~ Busy(b) /\ SignalComes(b)} } \cup
  { << [sync |-> t, val |-> v, binary |-> FALSE, temp |-> 0] >> :
      t \in {t \in Timelines : Signaller[t] # q}, v \in 1 .. MaxValue }

SignalChoices(q) ==
  {<< >>} \cup
  { << [sync |-> b, val |-> gen[b] + 1] >> : b \in {b \in Binaries : ~ Busy(b)} } \cup
  { << [sync |-> t, val |-> val[t] + 1] >> :
      t \in {t \in Timelines : Signaller[t] = q /\ val[t] < MaxValue} }

Uses(w, g) == {x.sync : x \in Elements(w) \cup Elements(g)}
\* A binary semaphore is signalled when it is not, or after the wait for it.
SignalLegal(w, g) ==
  \A x \in Elements(g) : x.sync \in Binaries => waited[x.sync] = gen[x.sync] \/ x.sync \in Uses(w, << >>)

Batch(n, w, g) ==
  SubmitCreate([cmds |-> << n >>, binds |-> << >>, waits |-> w, signals |-> g,
                perf |-> 0, prot |-> FALSE], << >>)

\* The submits that vk_common_QueueSubmit2 makes of the batches s and r (in that order):
\* one when they are merged, which fails when memory is short.
Submits(s, r) == {<< s, r >>} \cup IF CanMerge(s, r) THEN {<< Merged(s, r) >>} ELSE {}

-----------------------------------------------------------------------------
(* vk_common_QueueSubmit2 *)
Issue(q, list, w, g) ==
  /\ todo' = [todo EXCEPT ![q] = list]
  /\ pc' = [pc EXCEPT ![q] = "check"]
  /\ gen' = [b \in Binaries |-> Latest(Elements(g), b, gen[b])]
  /\ waited' = [b \in Binaries |-> IF b \in Uses(w, << >>) THEN gen[b] ELSE waited[b]]
  /\ val' = [t \in Timelines |-> Latest(Elements(g), t, val[t])]
  /\ UNCHANGED << bin, tl, mode, submits, thread, thread_run, lost, idle, failures, done, matched >>

QueueSubmit(q) ==
  /\ pc[q] = "ready" /\ ~ lost /\ issued[q] < MaxCalls[q]
  /\ issued' = [issued EXCEPT ![q] = @ + 1]
  /\ \E w \in WaitChoices(q), g \in SignalChoices(q) :
       SignalLegal(w, g) /\ Issue(q, << Batch(issued[q] + 1, w, g) >>, w, g)

QueueSubmitTwo(q) ==
  /\ pc[q] = "ready" /\ ~ lost /\ issued[q] + 1 < MaxCalls[q] /\ MaxBatches = 2
  /\ issued' = [issued EXCEPT ![q] = @ + 2]
  /\ \E w1, w2 \in WaitChoices(q), g1, g2 \in SignalChoices(q) :
       /\ SignalLegal(w1, g1) /\ SignalLegal(w1 \o w2, g2)
       /\ Mixed \/ ((\E x \in Elements(w2) : x.binary) => \E x \in Elements(w1) : x.binary)
       /\ Uses(w1, g1) \cap Uses(w2, << >>) = {} /\ Uses(<< >>, g1) \cap Uses(<< >>, g2) = {}
       /\ \E list \in Submits(Batch(issued[q] + 1, w1, g1), Batch(issued[q] + 2, w2, g2)) :
            Issue(q, list, w1 \o w2, g1 \o g2)

-----------------------------------------------------------------------------
(* vk_queue_submit on the first submit of todo[q] *)
\* Mutant: a queue with a thread submits directly when it can.
Path_Direct(q, m) == IF m = "threaded" /\ ~ AllPending(Head(todo[q])) THEN "move" ELSE "final"
Path(q, m) == IF m = "threaded" THEN "move" ELSE "final"

EnableSubmitThread(q) ==
  /\ mode' = [mode EXCEPT ![q] = "threaded"]
  /\ thread' = [thread EXCEPT ![q] = "loop"]
  /\ thread_run' = [thread_run EXCEPT ![q] = TRUE]

\* Is every dependency submitted?  If not, start a submit thread.
CheckPending(q) ==
  /\ pc[q] = "check"
  /\ IF mode[q] = "threaded" \/ AllPending(Head(todo[q]))
     THEN UNCHANGED << mode, thread, thread_run >>
     ELSE EnableSubmitThread(q)
  /\ pc' = [pc EXCEPT ![q] = Path(q, mode'[q])]
  /\ UNCHANGED << bin, tl, submits, lost, todo, idle, failures, apiVars, done, matched >>

\* VK_QUEUE_SUBMIT_MODE_IMMEDIATE
SubmitFinal(q) ==
  /\ pc[q] = "final"
  /\ \/ DriverSubmit(q, Head(todo[q])) /\ pc' = [pc EXCEPT ![q] = "reset"]
        /\ UNCHANGED << lost, todo, failures >>
     \/ /\ Fail
        /\ pc' = [pc EXCEPT ![q] = "ready"] /\ todo' = [todo EXCEPT ![q] = << >>]
        /\ UNCHANGED << bin, tl, done, idle, matched >>
  /\ UNCHANGED << mode, submits, thread, thread_run, apiVars >>

NextSubmit(q) ==
  /\ todo' = [todo EXCEPT ![q] = Tail(@)]
  /\ pc' = [pc EXCEPT ![q] = IF Len(todo[q]) = 1 THEN "ready" ELSE "check"]

\* Mutant: nothing is reset.
ToReset_None(s) == {}
\* The binary semaphores that were waited for and not signalled again.
ToReset(s) ==
  IF ~ s.has_binary THEN {}
  ELSE {b \in Binaries : /\ \E w \in Elements(s.waits) : w.sync = b /\ w.temp = 0
                         /\ \A g \in Elements(s.signals) : g.sync # b}

SubmitReset(q) ==
  /\ pc[q] = "reset"
  /\ bin' = [b \in Binaries |-> IF b \in ToReset(Head(todo[q])) THEN 0 ELSE bin[b]]
  /\ NextSubmit(q)
  /\ UNCHANGED << tl, mode, submits, thread, thread_run, lost, idle, failures, apiVars, done, matched >>

\* VK_QUEUE_SUBMIT_MODE_THREADED: vk_queue_submit_move_binary_waits_to_temps ...
Unmoved(s) == {k \in DOMAIN s.waits : s.has_binary /\ s.waits[k].binary /\ s.waits[k].temp = 0}

SubmitMove(q) ==
  LET s == Head(todo[q])
      k == Min(Unmoved(s)) IN
  /\ pc[q] = "move" /\ Unmoved(s) # {}
  /\ Pending(s.waits[k])
  /\ todo' = [todo EXCEPT ![q][1].waits[k].temp = bin[s.waits[k].sync]]
  /\ bin' = [bin EXCEPT ![s.waits[k].sync] = 0]
  /\ UNCHANGED << tl, mode, submits, thread, thread_run, lost, pc, idle, failures, apiVars, done, matched >>

\* Mutants: list_add for list_addtail; the thread is not woken.
Push_Front(q, s) ==
  /\ submits' = [submits EXCEPT ![q] = << s >> \o @]
  /\ thread' = [thread EXCEPT ![q] = IF @ = "sleep" THEN "loop" ELSE @]
Push_NoSignal(q, s) == submits' = [submits EXCEPT ![q] = Append(@, s)] /\ UNCHANGED thread
\* ... and vk_queue_push_submit
Push(q, s) ==
  /\ submits' = [submits EXCEPT ![q] = Append(@, s)]
  /\ thread' = [thread EXCEPT ![q] = IF @ = "sleep" THEN "loop" ELSE @]

SubmitPush(q) ==
  /\ pc[q] = "move" /\ Unmoved(Head(todo[q])) = {}
  /\ Push(q, Head(todo[q]))
  /\ NextSubmit(q)
  /\ UNCHANGED << bin, tl, mode, thread_run, lost, idle, failures, apiVars, done, matched >>

\* `goto fail' outside of the driver.  The submits of the call are destroyed; todo remembers
\* their semaphores.  A thread that could not be created leaves thread_run set, and the
\* resets before the one that failed have happened.
SubmitFails(q) ==
  LET s == Head(todo[q]) IN
  /\ \/ /\ pc[q] = "check" /\ mode[q] = "immediate"
        /\ thread_run' \in {thread_run} \cup
             IF AllPending(s) THEN {} ELSE {[thread_run EXCEPT ![q] = TRUE]}
        /\ UNCHANGED bin
     \/ pc[q] = "move" /\ Unmoved(s) # {} /\ UNCHANGED << bin, thread_run >>
     \/ /\ pc[q] = "reset"
        /\ \E r \in SUBSET ToReset(s) : /\ r # ToReset(s)
                                        /\ bin' = [b \in Binaries |-> IF b \in r THEN 0 ELSE bin[b]]
        /\ UNCHANGED thread_run
  /\ failures < MaxFailures /\ failures' = failures + 1
  /\ pc' = [pc EXCEPT ![q] = "error"]
  /\ UNCHANGED << tl, mode, submits, thread, lost, todo, idle, apiVars, done, matched >>

-----------------------------------------------------------------------------
(* vk_queue_submit_thread_func *)
ThreadUnchanged == UNCHANGED << mode, thread_run, pc, todo, apiVars >>

ThreadLoop(q) ==
  /\ \/ /\ thread[q] = "loop"
        /\ thread' = [thread EXCEPT ![q] = IF ~ thread_run[q] THEN "exited"
                                           ELSE IF submits[q] = << >> THEN "sleep" ELSE "wait"]
        /\ UNCHANGED << lost, failures >>
     \/ thread[q] = "sleep" /\ Fail /\ thread' = [thread EXCEPT ![q] = "exited"]
  /\ ThreadUnchanged /\ UNCHANGED << bin, tl, submits, idle, done, matched >>

\* The lock is dropped while the thread waits and submits.
ThreadWait(q) ==
  /\ thread[q] = "wait"
  /\ \/ AllPending(Head(submits[q])) /\ thread' = [thread EXCEPT ![q] = "final"]
        /\ UNCHANGED << lost, failures >>
     \/ Fail /\ thread' = [thread EXCEPT ![q] = "exited"]
  /\ ThreadUnchanged /\ UNCHANGED << bin, tl, submits, idle, done, matched >>

ThreadFinal(q) ==
  /\ thread[q] = "final"
  /\ \/ DriverSubmit(q, Head(submits[q])) /\ thread' = [thread EXCEPT ![q] = "unlink"]
        /\ UNCHANGED << lost, failures >>
     \/ Fail /\ thread' = [thread EXCEPT ![q] = "exited"]
        /\ UNCHANGED << bin, tl, done, idle, matched >>
  /\ ThreadUnchanged /\ UNCHANGED submits

\* Mutant: nobody is woken.
BroadcastPop_None(q) == UNCHANGED pc
\* cnd_broadcast(pop) wakes vk_queue_drain.
BroadcastPop(q) == pc' = [pc EXCEPT ![q] = IF @ = "drain_wait" THEN "drain" ELSE @]

ThreadUnlink(q) ==
  /\ thread[q] = "unlink"
  /\ submits' = [submits EXCEPT ![q] = Tail(@)]
  /\ thread' = [thread EXCEPT ![q] = "loop"]
  /\ BroadcastPop(q)
  /\ UNCHANGED << bin, tl, mode, thread_run, lost, todo, idle, failures, apiVars, done, matched >>

-----------------------------------------------------------------------------
(* vk_common_QueueWaitIdle: vk_queue_signal_sync and a wait *)
IdleSubmit ==
  [cmds |-> << >>, binds |-> << >>, waits |-> << >>, signals |-> << [sync |-> "idle", val |-> 0] >>,
   has_binary |-> FALSE, perf |-> 0, prot |-> FALSE]

QueueWaitIdle(q) ==
  /\ pc[q] = "ready" /\ ~ lost /\ "idle" \in Ops
  /\ IF mode[q] = "threaded"
     THEN Push(q, IdleSubmit) /\ pc' = [pc EXCEPT ![q] = "idle_wait"]
     ELSE pc' = [pc EXCEPT ![q] = "idle_final"] /\ UNCHANGED << submits, thread >>
  /\ UNCHANGED << bin, tl, mode, thread_run, lost, todo, idle, failures, apiVars, done, matched >>

IdleFinal(q) ==
  /\ pc[q] = "idle_final"
  /\ \/ DriverSubmit(q, IdleSubmit) /\ pc' = [pc EXCEPT ![q] = "idle_wait"]
        /\ UNCHANGED << lost, failures >>
     \/ Fail /\ pc' = [pc EXCEPT ![q] = "ready"] /\ UNCHANGED << bin, tl, done, idle, matched >>
  /\ UNCHANGED << mode, submits, thread, thread_run, todo, apiVars >>

IdleReturn(q) ==
  /\ \/ pc[q] = "idle_wait" /\ idle[q] /\ pc' = [pc EXCEPT ![q] = "idle_ret"] /\ UNCHANGED idle
     \/ /\ pc[q] = "idle_ret"
        /\ pc' = [pc EXCEPT ![q] = "ready"] /\ idle' = [idle EXCEPT ![q] = FALSE]
  /\ UNCHANGED << bin, tl, mode, submits, thread, thread_run, lost, todo, failures, apiVars,
                  done, matched >>

-----------------------------------------------------------------------------
(* vk_queue_finish *)
FinishUnchanged == UNCHANGED << bin, tl, todo, idle, apiVars, done, matched >>

FinishStart(q) ==
  /\ pc[q] \in {"ready", "error"} /\ "finish" \in Ops
  /\ pc' = [pc EXCEPT ![q] = IF mode[q] = "threaded" THEN "drain" ELSE "stopped"]
  /\ FinishUnchanged /\ UNCHANGED << mode, submits, thread, thread_run, lost, failures >>

\* Mutant: submits are left behind.
Drained_Always(q) == TRUE
Drained(q) == submits[q] = << >> \/ lost

\* vk_queue_drain; its cnd_wait may fail.
Drain(q) ==
  /\ \/ /\ pc[q] = "drain"
        /\ pc' = [pc EXCEPT ![q] = IF Drained(q) THEN "drained" ELSE "drain_wait"]
        /\ UNCHANGED << lost, failures >>
     \/ pc[q] = "drain_wait" /\ Fail /\ pc' = [pc EXCEPT ![q] = "drained"]
  /\ FinishUnchanged /\ UNCHANGED << mode, submits, thread, thread_run >>

\* vk_queue_stop_submit_thread tells the thread to stop ...
Stop(q) ==
  /\ pc[q] = "drained"
  /\ thread_run' = [thread_run EXCEPT ![q] = FALSE]
  /\ thread' = [thread EXCEPT ![q] = IF @ = "sleep" THEN "loop" ELSE @]
  /\ pc' = [pc EXCEPT ![q] = "join"]
  /\ FinishUnchanged /\ UNCHANGED << mode, submits, lost, failures >>

\* ... and joins it.
Join(q) ==
  /\ pc[q] = "join" /\ thread[q] = "exited"
  /\ pc' = [pc EXCEPT ![q] = "stopped"]
  /\ mode' = [mode EXCEPT ![q] = "immediate"]
  /\ FinishUnchanged /\ UNCHANGED << submits, thread, thread_run, lost, failures >>

\* The submits of a lost device are destroyed.
FinishEnd(q) ==
  /\ pc[q] = "stopped"
  /\ submits' = [submits EXCEPT ![q] = << >>]
  /\ pc' = [pc EXCEPT ![q] = "finished"]
  /\ FinishUnchanged /\ UNCHANGED << mode, thread, thread_run, lost, failures >>

-----------------------------------------------------------------------------
\* vkSignalSemaphore
HostSignal(t) ==
  /\ Signaller[t] = Host /\ val[t] < MaxValue
  /\ val' = [val EXCEPT ![t] = @ + 1]
  /\ tl' = [tl EXCEPT ![t] = @ + 1]
  /\ UNCHANGED << bin, mode, submits, thread, thread_run, lost, pc, todo, idle, failures, gen,
                  waited, issued, done, matched >>

\* The bounds are reached, or the device is lost.
Quiet ==
  /\ lost \/ \A q \in Queues : pc[q] \in {"ready", "error", "finished", "idle_wait", "drain_wait", "join"}
  /\ UNCHANGED vars

ThreadStep(q) == ThreadLoop(q) \/ ThreadWait(q) \/ ThreadFinal(q) \/ ThreadUnlink(q)
\* The steps of a call that has begun.
CallStep(q) ==
  \/ CheckPending(q) \/ SubmitFinal(q) \/ SubmitReset(q) \/ SubmitMove(q) \/ SubmitPush(q)
  \/ IdleFinal(q) \/ IdleReturn(q) \/ Drain(q) \/ Stop(q) \/ Join(q) \/ FinishEnd(q)

Next ==
  \/ \E q \in Queues : \/ QueueSubmit(q) \/ QueueSubmitTwo(q) \/ QueueWaitIdle(q)
                       \/ FinishStart(q) \/ CallStep(q) \/ SubmitFails(q) \/ ThreadStep(q)
  \/ \E t \in Timelines : HostSignal(t)
  \/ Quiet

Spec == Init /\ [][Next]_vars

\* Threads that can run do run, and the host signals its timelines in the end.
FairSpec ==
  /\ Spec
  /\ \A q \in Queues : WF_vars(CallStep(q)) /\ WF_vars(ThreadStep(q))
  /\ \A t \in Timelines : WF_vars(HostSignal(t))

-----------------------------------------------------------------------------
\* The types, and the lengths that follow from the bounds: no list keeps a submit that
\* the thread has handed to the driver.
TypeOK ==
  /\ bin \in [Binaries -> Nat] /\ tl \in [Timelines -> 0 .. MaxValue]
  /\ mode \in [Queues -> {"immediate", "threaded"}]
  /\ thread \in [Queues -> {"none", "loop", "sleep", "wait", "final", "unlink", "exited"}]
  /\ thread_run \in [Queues -> BOOLEAN] /\ lost \in BOOLEAN /\ idle \in [Queues -> BOOLEAN]
  /\ pc \in [Queues -> {"ready", "check", "final", "reset", "move", "error", "idle_final",
                        "idle_wait", "idle_ret", "drain", "drain_wait", "drained", "join",
                        "stopped", "finished"}]
  /\ failures \in 0 .. MaxFailures
  /\ gen \in [Binaries -> Nat] /\ waited \in [Binaries -> Nat] /\ val \in [Timelines -> 0 .. MaxValue]
  /\ issued \in [Queues -> Nat]
  /\ \A q \in Queues : /\ issued[q] <= MaxCalls[q] /\ Len(done[q]) <= MaxCalls[q]
                       /\ Len(submits[q]) <= MaxCalls[q] + 2 /\ Len(todo[q]) <= 2

\* A submit reaches the driver only when what it waits for is submitted; for a binary
\* semaphore that is the signal operation that the application meant, not an older one
\* (vk_queue_submit, vk_queue_submit_thread_func).
WaitsMatched == matched

\* The batches of a queue reach the driver in the order in which they were submitted, each
\* once, also when the queue changes from immediate to threaded submission.
InOrder == \A q \in Queues : \A k \in DOMAIN done[q] : done[q][k] = k

\* `all binary semaphores being reset when they're not in active use from the point of view
\* of the client's CPU timeline' (vk_queue_submit_move_binary_waits_to_temps)
ResetWhenUnused ==
  \A b \in Binaries : ~ lost /\ ~ Busy(b) /\ waited[b] = gen[b] => bin[b] = 0

\* `this function will never be called by the runtime concurrently on the same queue'
\* (vk_queue::driver_submit)
DriverSubmitExclusive ==
  \A q \in Queues : ~ (pc[q] \in {"final", "idle_final"} /\ thread[q] = "final")

\* vkQueueWaitIdle returns after everything submitted before it has reached the driver, and
\* so does vk_queue_stop_submit_thread unless the device is lost:
\* `assert(list_is_empty(&queue->submit.submits))'.
DrainedIsSubmitted ==
  \A q \in Queues : /\ pc[q] = "idle_ret" => Len(done[q]) = issued[q]
                    /\ pc[q] = "stopped" /\ ~ lost => submits[q] = << >>

\* Every batch reaches the driver: no submit is forgotten in a list, no wakeup is lost.
AllSubmitted == \A q \in Queues : issued[q] > Len(done[q]) ~> issued[q] = Len(done[q])

\* On a device that is not lost, vkQueueSubmit2 returns (`we can safely do a blocking wait
\* here and it won't actually block for long'), vkQueueWaitIdle returns, and vk_queue_finish
\* returns: vk_queue_drain misses no broadcast and the submit thread ends when it is told to.
QueueCallsReturn ==
  \A q \in Queues : /\ pc[q] = "check" ~> pc[q] = "ready"
                    /\ pc[q] = "idle_wait" ~> pc[q] = "ready"
                    /\ pc[q] = "drain" ~> pc[q] = "finished"
=============================================================================
