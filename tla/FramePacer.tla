------------------------------ MODULE FramePacer ------------------------------
(***************************************************************************)
(* The frame pacer (vk_frame_pacer.c) as the anti-lag extension uses it    *)
(* (radv_anti_lag.c).  Application threads submit and present; every paced *)
(* submission is bracketed by two timestamp queries of its queue's ring    *)
(* and signals the next value of the queue's timeline semaphore.  A frame  *)
(* is the set of submissions between two presents.  vkAntiLagUpdateAMD     *)
(* evaluates the oldest frames once the GPU is done with them, and gives   *)
(* their queries back; switched off, it drains all of them.                *)
(*                                                                         *)
(* radv_AntiLagUpdateAMD holds anti_lag_data::mtx throughout, so that all  *)
(* of its callers are one activity here, ctl.  The two ring mutexes are    *)
(* frames_mtx and queries_mtx.  Left out: the measured times, their        *)
(* calibration and the delay computed from them.                           *)
(***************************************************************************)
EXTENDS Integers, Sequences, FiniteSets, FiniteSetsExt

CONSTANTS Threads,          \* application threads
          Queues,           \* graphics and compute queues of the device
          Submits, Presents, \* which thread submits to, presents on which queue: <<t, q>>
          Internal,         \* queues with VK_DEVICE_QUEUE_CREATE_INTERNALLY_SYNCHRONIZED_BIT_KHR
          MAX_FRAMES,       \* size of the ring of frames (8 in the code)
          MAX_SUBMISSIONS,  \* half the size of a queue's ring of queries (256 in the code)
          MaxSubmits,       \* bound on the paced submissions to each queue
          MaxFailures,      \* bound on failing submissions and waits
          Ctl,              \* the caller of vkAntiLagUpdateAMD, as owner of a mutex
          NULL

ASSUME PacerAssumption ==
    /\ IsFiniteSet(Queues) /\ Queues # {} /\ Internal \subseteq Queues
    /\ MAX_FRAMES \in Nat \ {0} /\ MAX_SUBMISSIONS \in Nat \ {0, 1}
    /\ MaxSubmits \in [Queues -> Nat] /\ MaxFailures \in Nat
    /\ NULL \notin Threads \cup {Ctl} /\ Ctl \notin Threads

VARIABLES
    enabled, active_frame, frames,   \* fields of vk_frame_pacer
    contexts,                        \* keys of the hash table vk_frame_pacer::queues
    ctx,                             \* the queue_context of each queue
    frames_mtx, queries_mtx,         \* owner or NULL
    th,                              \* application threads
    ctl,                             \* vkAntiLagUpdateAMD
    pending, sem, written,           \* GPU: work, semaphore, queries with a result
    failed,                          \* a submission or a wait has failed
    budget                           \* submissions and failures left (bounds)

pacer == <<enabled, active_frame, frames, contexts>>
locks == <<frames_mtx, queries_mtx>>
gpu == <<pending, sem, written>>
vars == <<pacer, ctx, locks, th, ctl, gpu, failed, budget>>

MAX_QUERIES == 2 * MAX_SUBMISSIONS
FrameIdx == 0 .. MAX_FRAMES - 1
QueryIdx == 0 .. MAX_QUERIES - 1

-----------------------------------------------------------------------------
(* Rings (ringbuffer.h) *)

ringbuffer_init == [head |-> 0, tail |-> 0, size |-> 0]

Full(r, n) == r.size = n

ringbuffer_alloc(r, n) == [r EXCEPT !.head = (@ + 1) % n, !.size = @ + 1]

ringbuffer_free_n(r, n, count) == [r EXCEPT !.size = @ - count, !.tail = (@ + count) % n]

(* The slots in use, oldest first: position p of ring r is slot At(r, n, p). *)
At(r, n, p) == (r.tail + p) % n

-----------------------------------------------------------------------------

(* A submission: the value it signals, the first of its two queries, and its *)
(* frame, which the code does not record.                                    *)
Work == [value : Nat, slot : QueryIdx, frame : FrameIdx]

(* Outside of calls.                                                         *)
Idle == [pc |-> "idle", queue |-> NULL, work |-> NULL]
Updated == [pc |-> "idle", mode |-> "evaluate", frame |-> NULL, blocking |-> FALSE, todo |-> {}]

TypeOK ==
    /\ enabled \in BOOLEAN
    /\ active_frame \in FrameIdx \cup {NULL}
    /\ frames \in [head : FrameIdx, tail : FrameIdx, size : 0 .. MAX_FRAMES]
    /\ contexts \in SUBSET Queues
    /\ ctx \in [Queues -> [latency_sensitive : BOOLEAN, semaphore_value : Nat,
                           signal_value : [FrameIdx -> Nat], num_submits : [FrameIdx -> Nat],
                           queries : [head : QueryIdx, tail : QueryIdx, size : 0 .. MAX_QUERIES]]]
    /\ frames_mtx \in Threads \cup {Ctl, NULL}
    /\ queries_mtx \in [Queues -> Threads \cup {NULL}]
    /\ th \in [Threads -> [pc : {"idle", "lock", "query", "submit", "present"},
                           queue : Queues \cup {NULL}, work : Work \cup {NULL}]]
    /\ ctl \in [pc : {"idle", "begin", "wait", "read", "free", "gone"},
                mode : {"evaluate", "disable", "finish"},
                frame : FrameIdx \cup {NULL}, blocking : BOOLEAN, todo : SUBSET Queues]
    /\ pending \in [Queues -> Seq(Work)]
    /\ sem \in [Queues -> Nat]
    /\ written \in [Queues -> SUBSET Work]
    /\ failed \in BOOLEAN
    /\ budget \in [submits : [Queues -> Nat], failures : Nat]

Init ==
    /\ enabled = FALSE /\ active_frame = NULL /\ frames = ringbuffer_init /\ contexts = {}
    /\ ctx = [q \in Queues |-> [latency_sensitive |-> FALSE, semaphore_value |-> 0,
                                signal_value |-> [f \in FrameIdx |-> 0],
                                num_submits |-> [f \in FrameIdx |-> 0],
                                queries |-> ringbuffer_init]]
    /\ frames_mtx = NULL /\ queries_mtx = [q \in Queues |-> NULL]
    /\ th = [t \in Threads |-> Idle]
    /\ ctl = Updated
    /\ pending = [q \in Queues |-> <<>>] /\ sem = [q \in Queues |-> 0]
    /\ written = [q \in Queues |-> {}]
    /\ failed = FALSE /\ budget = [submits |-> MaxSubmits, failures |-> MaxFailures]

-----------------------------------------------------------------------------
(* frame_pacer_QueueSubmit2.  A call that finds the pacer disabled, no active *)
(* frame or no query goes straight to the driver and is of no interest here.  *)

(* The application serialises the calls on a queue unless it is internally    *)
(* synchronised.                                                              *)
MayUse(t, q) ==
    \/ q \in Internal
    \/ \A u \in Threads \ {t} : th[u].pc = "idle" \/ th[u].queue # q

SubmitCall(t, q) ==
    /\ th[t].pc = "idle" /\ <<t, q>> \in Submits /\ MayUse(t, q)
    /\ enabled
    /\ th' = [th EXCEPT ![t].pc = "lock", ![t].queue = q]
    /\ UNCHANGED <<pacer, ctx, locks, ctl, gpu, failed, budget>>

SubmitLock(t) ==
    /\ th[t].pc = "lock" /\ frames_mtx = NULL
    /\ IF active_frame = NULL \/ th[t].queue \notin contexts
       THEN th' = [th EXCEPT ![t] = Idle] /\ UNCHANGED frames_mtx
       ELSE th' = [th EXCEPT ![t].pc = "query"] /\ frames_mtx' = t
    /\ UNCHANGED <<pacer, ctx, queries_mtx, ctl, gpu, failed, budget>>

(* first >= 0 \/ early_submit, for a queue that is sensitive to latency.      *)
need_query(c, cmds, waits) ==
    /\ c.latency_sensitive
    /\ cmds \/ (waits /\ c.num_submits[active_frame] = 0)

(* allocate_query would return a query.                                       *)
can_allocate(c) ==
    /\ c.num_submits[active_frame] < MAX_SUBMISSIONS \div 2
    /\ ~ Full(c.queries, MAX_QUERIES)

(* get_timestamp_queries: two queries, the next semaphore value, and one more *)
(* submission of the active frame.                                            *)
get_timestamp_queries(c) ==
    [c EXCEPT !.queries = ringbuffer_alloc(ringbuffer_alloc(@, MAX_QUERIES), MAX_QUERIES),
              !.semaphore_value = @ + 1,
              !.signal_value[active_frame] = c.semaphore_value + 1,
              !.num_submits[active_frame] = @ + 1]

HeldForSubmit_None(t, q) == NULL
(* Which of its locks the call keeps while it submits.                        *)
HeldForSubmit(t, q) == IF q \in Internal THEN t ELSE NULL

SubmitQuery(t) ==
    LET q == th[t].queue
        c == ctx[q]
        slot == c.queries.head
    IN  /\ th[t].pc = "query" /\ queries_mtx[q] = NULL
        /\ frames_mtx' = NULL
        /\ \E cmds, waits \in BOOLEAN :
              IF need_query(c, cmds, waits) /\ can_allocate(c)
              THEN /\ budget.submits[q] > 0 /\ budget' = [budget EXCEPT !.submits[q] = @ - 1]
                   /\ ctx' = [ctx EXCEPT ![q] = get_timestamp_queries(c)]
                   /\ queries_mtx' = [queries_mtx EXCEPT ![q] = HeldForSubmit(t, q)]
                   /\ th' = [th EXCEPT ![t].pc = "submit",
                                       ![t].work = [value |-> c.semaphore_value + 1, slot |-> slot, frame |-> active_frame]]
              ELSE /\ th' = [th EXCEPT ![t] = Idle]
                   /\ UNCHANGED <<ctx, queries_mtx, budget>>
        /\ UNCHANGED <<pacer, ctl, gpu, failed>>

Released_Never(t, q) == queries_mtx
Released(t, q) == IF queries_mtx[q] = t THEN [queries_mtx EXCEPT ![q] = NULL] ELSE queries_mtx

(* frame_pacer_submit hands the batches, timestamps and signal to the driver. *)
SubmitDone(t) ==
    LET q == th[t].queue
    IN  /\ th[t].pc = "submit"
        /\ pending' = [pending EXCEPT ![q] = Append(@, th[t].work)]
        /\ queries_mtx' = Released(t, q)
        /\ th' = [th EXCEPT ![t] = Idle]
        /\ UNCHANGED <<pacer, ctx, frames_mtx, ctl, sem, written, failed, budget>>

(* It runs out of memory, or the driver refuses: nothing will be signalled.   *)
SubmitFail(t) ==
    /\ th[t].pc = "submit" /\ budget.failures > 0
    /\ failed' = TRUE /\ budget' = [budget EXCEPT !.failures = @ - 1]
    /\ queries_mtx' = Released(t, th[t].queue)
    /\ th' = [th EXCEPT ![t] = Idle]
    /\ UNCHANGED <<pacer, ctx, frames_mtx, ctl, gpu>>

-----------------------------------------------------------------------------
(* frame_pacer_QueuePresentKHR *)

PresentCall(t, q) ==
    /\ th[t].pc = "idle" /\ <<t, q>> \in Presents /\ MayUse(t, q)
    /\ enabled
    /\ th' = [th EXCEPT ![t].pc = "present", ![t].queue = q]
    /\ UNCHANGED <<pacer, ctx, locks, ctl, gpu, failed, budget>>

PresentLock(t) ==
    LET q == th[t].queue
    IN  /\ th[t].pc = "present" /\ frames_mtx = NULL
        /\ ctx' = IF q \in contexts THEN [ctx EXCEPT ![q].latency_sensitive = TRUE] ELSE ctx
        /\ CASE ~ enabled ->
                    UNCHANGED <<frames, active_frame>>
             [] enabled /\ Full(frames, MAX_FRAMES) ->
                    active_frame' = NULL /\ UNCHANGED frames
             [] OTHER ->
                    active_frame' = frames.head /\ frames' = ringbuffer_alloc(frames, MAX_FRAMES)
        /\ th' = [th EXCEPT ![t] = Idle]
        /\ UNCHANGED <<enabled, contexts, locks, ctl, gpu, failed, budget>>

-----------------------------------------------------------------------------
(* radv_AntiLagUpdateAMD *)

(* vk_frame_pacer_enable: the first time it creates the contexts, which may   *)
(* fail and leave none, and reads the clocks, which may fail as well.         *)
vk_frame_pacer_enable ==
    \/ enabled /\ UNCHANGED <<enabled, contexts>>
    \/ ~ enabled /\ contexts # {} /\ enabled' = TRUE /\ UNCHANGED contexts
    \/ ~ enabled /\ contexts = {} /\ enabled' \in BOOLEAN /\ contexts' = Queues
    \/ ~ enabled /\ contexts = {} /\ UNCHANGED <<enabled, contexts>>

(* Mode on, and the stage that ends a frame's input, or the one that starts   *)
(* the next frame and evaluates earlier ones.                                 *)
AntiLagOn ==
    /\ ctl.pc = "idle"
    /\ vk_frame_pacer_enable
    /\ \E stage \in {"present", "input"} :
          ctl' = [Updated EXCEPT !.pc = IF stage = "input" THEN "begin" ELSE "idle"]
    /\ UNCHANGED <<active_frame, frames, ctx, locks, th, gpu, failed, budget>>

(* Mode off, or the destruction of the device, when no call is under way.     *)
AntiLagOff ==
    /\ ctl.pc = "idle"
    /\ \E mode \in {"disable", "finish"} :
          /\ mode = "finish" => \A t \in Threads : th[t].pc = "idle"
          /\ ctl' = [Updated EXCEPT !.pc = "begin", !.mode = mode]
    /\ UNCHANGED <<pacer, ctx, locks, th, gpu, failed, budget>>

(* evaluate_frame on frame f starts to wait for the queues.                   *)
Evaluating(f, blocking) == [ctl EXCEPT !.pc = "wait", !.frame = f, !.blocking = blocking, !.todo = contexts]

(* "If we have at least 3 frames, then 2 frames must already have been        *)
(* submitted to the GPU.  It is safe to wait for one to complete."            *)
EvaluateBegin ==
    /\ ctl.pc = "begin" /\ ctl.mode = "evaluate" /\ frames_mtx = NULL
    /\ ctl' = IF frames.size <= 1 THEN Updated
              ELSE Evaluating(frames.tail, frames.size >= 3)
    /\ UNCHANGED <<pacer, ctx, locks, th, gpu, failed, budget>>

DisableEnds_Locked ==
    /\ UNCHANGED frames_mtx
    /\ contexts' = IF ctl.mode = "finish" THEN {} ELSE contexts
    /\ ctl' = IF ctl.mode = "finish" THEN [Updated EXCEPT !.pc = "gone"] ELSE Updated

(* All frames are drained: the lock is released, the contexts of a dying      *)
(* device are destroyed.                                                      *)
DisableEnds ==
    /\ frames_mtx' = NULL
    /\ contexts' = IF ctl.mode = "finish" THEN {} ELSE contexts
    /\ ctl' = IF ctl.mode = "finish" THEN [Updated EXCEPT !.pc = "gone"] ELSE Updated

DisableBegin ==
    /\ ctl.pc = "begin" /\ ctl.mode # "evaluate" /\ frames_mtx = NULL
    /\ enabled' = FALSE /\ active_frame' = NULL
    /\ IF frames.size = 0
       THEN DisableEnds
       ELSE frames_mtx' = Ctl /\ ctl' = Evaluating(frames.tail, TRUE) /\ UNCHANGED contexts
    /\ UNCHANGED <<frames, ctx, queries_mtx, th, gpu, failed, budget>>

Reached_Never(q) == sem[q] > ctx[q].signal_value[ctl.frame]
Reached_Any(q) == TRUE
(* vkWaitSemaphores for the frame's last value on queue q.                    *)
Reached(q) == sem[q] >= ctx[q].signal_value[ctl.frame]

EvaluateWait(q) ==
    /\ ctl.pc = "wait" /\ q \in ctl.todo
    /\ Reached(q)
    /\ ctl' = IF ctl.todo = {q} THEN [ctl EXCEPT !.pc = "read", !.todo = contexts]
              ELSE [ctl EXCEPT !.todo = @ \ {q}]
    /\ UNCHANGED <<pacer, ctx, locks, th, gpu, failed, budget>>

(* evaluate_frame returns false: evaluate stops, disable gives the frame up.  *)
GivenUp == IF ctl.mode = "evaluate" THEN Updated ELSE [ctl EXCEPT !.pc = "free", !.todo = {}]

EvaluateTimeout(q) ==
    /\ ctl.pc = "wait" /\ q \in ctl.todo /\ ~ ctl.blocking /\ ~ Reached(q)
    /\ ctl' = GivenUp
    /\ UNCHANGED <<pacer, ctx, locks, th, gpu, failed, budget>>

EvaluateError(q) ==
    /\ ctl.pc = "wait" /\ q \in ctl.todo /\ budget.failures > 0
    /\ failed' = TRUE /\ budget' = [budget EXCEPT !.failures = @ - 1]
    /\ ctl' = GivenUp
    /\ UNCHANGED <<pacer, ctx, locks, th, gpu>>

(* How many of the frame's timestamps can be read up to the end of the ring.  *)
num_timestamps(q) ==
    LET c == ctx[q] IN Min({2 * c.num_submits[ctl.frame], MAX_QUERIES - c.queries.tail})

(* One round of the loop over the timestamps of queue q: results are read,    *)
(* the queries reset and freed, and the rest of them is left for the next.    *)
Chunk(q) == {At(ctx[q].queries, MAX_QUERIES, p) : p \in 0 .. num_timestamps(q) - 1}

Freed(c, n) == [c EXCEPT !.queries = ringbuffer_free_n(@, MAX_QUERIES, n),
                         !.num_submits[ctl.frame] = @ - n \div 2]

EvaluateRead(q) ==
    LET n == num_timestamps(q)
        c == Freed(ctx[q], n)
        todo == IF c.num_submits[ctl.frame] = 0 THEN ctl.todo \ {q} ELSE ctl.todo
    IN  /\ ctl.pc = "read" /\ q \in ctl.todo
        /\ n > 0 => queries_mtx[q] = NULL
        /\ ctx' = [ctx EXCEPT ![q] = c]
        /\ written' = [written EXCEPT ![q] = {w \in @ : w.slot \notin Chunk(q)}]
        /\ ctl' = [ctl EXCEPT !.todo = todo, !.pc = IF todo = {} THEN "free" ELSE "read"]
        /\ UNCHANGED <<pacer, locks, th, pending, sem, failed, budget>>

LeavesPending_NotLast(r) == r.size > 1

(* The frame is freed.  vk_frame_pacer_evaluate goes on, without waiting, if  *)
(* that leaves a frame besides the active one; disable until none is left.    *)
LeavesFrame(r) == r.size >= 2
LeavesPending(r) == r.size > 0

EvaluateFree ==
    /\ ctl.pc = "free" /\ ctl.mode = "evaluate" /\ frames_mtx = NULL
    /\ frames' = ringbuffer_free_n(frames, MAX_FRAMES, 1)
    /\ ctl' = IF LeavesFrame(frames') THEN Evaluating(frames'.tail, FALSE)
              ELSE Updated
    /\ UNCHANGED <<enabled, active_frame, contexts, ctx, locks, th, gpu, failed, budget>>

DisableFree ==
    /\ ctl.pc = "free" /\ ctl.mode # "evaluate"
    /\ frames' = ringbuffer_free_n(frames, MAX_FRAMES, 1)
    /\ IF LeavesPending(frames')
       THEN ctl' = Evaluating(frames'.tail, TRUE) /\ UNCHANGED <<frames_mtx, contexts>>
       ELSE DisableEnds
    /\ UNCHANGED <<enabled, active_frame, ctx, queries_mtx, th, gpu, failed, budget>>

-----------------------------------------------------------------------------

(* The GPU executes the oldest batch of a queue: both timestamps, the signal. *)
GpuExecute(q) ==
    /\ pending[q] # <<>>
    /\ LET w == Head(pending[q])
       IN  /\ sem' = [sem EXCEPT ![q] = w.value]
           /\ written' = [written EXCEPT ![q] = @ \cup {w}]
    /\ pending' = [pending EXCEPT ![q] = Tail(@)]
    /\ UNCHANGED <<pacer, ctx, locks, th, ctl, failed, budget>>

InCall(t) == SubmitLock(t) \/ SubmitQuery(t) \/ SubmitDone(t) \/ PresentLock(t)

ThreadStep(t) ==
    \/ \E q \in Queues : SubmitCall(t, q) \/ PresentCall(t, q)
    \/ InCall(t)
    \/ SubmitFail(t)

InUpdate ==
    \/ EvaluateBegin \/ DisableBegin \/ EvaluateFree \/ DisableFree
    \/ \E q \in Queues : EvaluateWait(q) \/ EvaluateTimeout(q) \/ EvaluateRead(q)

(* Nothing more happens when the device is gone, or to an update that waits   *)
(* for a submission that has failed.                                          *)
Stopped ==
    /\ \/ ctl.pc = "gone" /\ \A t \in Threads : th[t].pc = "idle"
       \/ failed /\ ctl.pc = "wait"
    /\ UNCHANGED vars

Next ==
    \/ \E t \in Threads : ThreadStep(t)
    \/ AntiLagOn \/ AntiLagOff \/ InUpdate
    \/ \E q \in Queues : GpuExecute(q) \/ EvaluateError(q)
    \/ Stopped

Spec == Init /\ [][Next]_vars

(* Threads inside of a call keep running and get a mutex that is free again   *)
(* and again; the GPU executes what was submitted.  Nobody has to call.       *)
Fairness ==
    /\ \A t \in Threads : SF_vars(InCall(t))
    /\ SF_vars(InUpdate)
    /\ \A q \in Queues : WF_vars(GpuExecute(q))

FairSpec == Spec /\ Fairness

-----------------------------------------------------------------------------
(* Properties *)

(* evaluate_frame reads as many queries as the frame has submissions, from    *)
(* the tail of the ring, without looking whose they are.  When it does, the   *)
(* frame is not the active one and gets no more submissions, the GPU has      *)
(* written all these timestamps (the assertion that GetQueryPoolResults       *)
(* returns VK_SUCCESS), they were taken for this frame, and the rest of the   *)
(* ring is the other frames' (the assertion 2 * submit_count == queries.size).*)
ReadsOwnResults ==
    /\ ctl.pc \in {"wait", "read", "free"} => ctl.frame # active_frame
    /\ ctl.pc = "read" /\ ~ failed =>
          \A q \in ctl.todo :
              /\ \A i \in Chunk(q) : \E w \in written[q] : i - w.slot \in {0, 1} /\ w.frame = ctl.frame
              /\ ctx[q].queries.size = 2 * MapThenSumSet(LAMBDA f : ctx[q].num_submits[f], FrameIdx)

(* Command buffers that a submission has taken, or the GPU has to execute.    *)
Outstanding(q) ==
    {th[t].work : t \in {u \in Threads : th[u].pc = "submit" /\ th[u].queue = q}}
       \cup {pending[q][i] : i \in DOMAIN pending[q]}

(* A timestamp command buffer is recorded for one use at a time: it stays     *)
(* allocated until the GPU has executed it, whatever threads, presents and    *)
(* evaluations do meanwhile, and the semaphore is signalled in order.         *)
InUseOnce ==
    ~ failed =>
    \A q \in Queues :
        /\ \A w \in Outstanding(q) :
              /\ w.slot \in {At(ctx[q].queries, MAX_QUERIES, p) : p \in 0 .. ctx[q].queries.size - 1}
              /\ \A r \in written[q] : r.slot # w.slot
              /\ w.value > sem[q]
        /\ \A v, w \in Outstanding(q) : v # w => v.slot # w.slot
        /\ \A i, j \in DOMAIN pending[q] : i < j => pending[q][i].value < pending[q][j].value

(* "This ensures that all CommandBuffers have completed, all Semaphores have  *)
(* been signaled and the data from the QueryPools have been read": when       *)
(* vk_frame_pacer_disable or finish has returned, nothing is left behind, not *)
(* even by a submission that was already past its check of enabled.           *)
DisabledIsDrained ==
    ~ enabled /\ ctl.pc \in {"idle", "gone"} /\ ~ failed =>
        /\ active_frame = NULL
        /\ frames.size = 0
        /\ \A q \in Queues : ctx[q].queries.size = 0 /\ Outstanding(q) = {}

(* Waiting for a frame ends, also without a timeout: "It is safe to wait for  *)
(* one to complete."                                                          *)
FrameCompletes ==
    [] ~ failed => (ctl.pc = "wait" ~> ctl.pc # "wait")

(* vk_frame_pacer_disable returns although it waits for the GPU with the lock *)
(* of the frames held, which submissions need: those that it waits for have   *)
(* released it, and need it no more until the GPU has their work.             *)
DisableReturns ==
    [] ~ failed => (ctl.pc # "idle" /\ ctl.mode = "disable" ~> ctl.pc = "idle")

(* Every vkQueueSubmit2 and vkQueuePresentKHR returns, also one that finds    *)
(* the lock held by vk_frame_pacer_disable.                                   *)
CallsReturn ==
    [] ~ failed => \A t \in Threads : th[t].pc # "idle" ~> th[t].pc = "idle"
=============================================================================
