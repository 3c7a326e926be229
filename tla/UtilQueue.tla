------------------------------ MODULE UtilQueue ------------------------------
(***************************************************************************)
(* The job queue with worker threads of util/u_queue.c: a ring buffer of   *)
(* jobs, workers that are created on demand, one completion fence per job, *)
(* util_queue_finish (a barrier job for every worker), util_queue_drop_job *)
(* and the termination of the workers by util_queue_destroy or at exit().  *)
(*                                                                         *)
(* Everything done under queue->lock without a cnd_wait is one step; only  *)
(* util_queue_finish keeps the lock over several steps.                    *)
(***************************************************************************)
EXTENDS Integers, FiniteSets

CONSTANTS
  Clients,         \* threads that use the queue
  Jobs,            \* jobs, each with a fence of its own
  NoJob,           \* job == NULL: an empty slot, or a job that was dropped
  NoClient,        \* queue->lock is free
  MaxThreads,      \* num_threads of util_queue_init
  InitJobs,        \* max_jobs of util_queue_init
  GrowBy,          \* slots added when a full queue is resized (8 in the code)
  SizeLimit,       \* S_256MB; every job has size 1
  ResizeIfFull, WakeAtHalfEmpty,    \* the flags of util_queue_init
  Ops,             \* the operations that the clients use
  Excluded,        \* the operations that nobody calls while util_queue_finish runs;
                   \* with "full": the workers are not terminated while the ring is full
  MaxSize          \* bound on total_jobs_size where jobs are dropped

ASSUME ConstantsAssumption ==
  /\ MaxThreads \in Nat \ {0} /\ InitJobs \in Nat \ {0} /\ GrowBy \in Nat \ {0}
  /\ SizeLimit \in Nat /\ MaxSize \in Nat
  /\ ResizeIfFull \in BOOLEAN /\ WakeAtHalfEmpty \in BOOLEAN
  /\ NoJob \notin Jobs /\ NoClient \notin Clients
  /\ Ops \subseteq {"add", "drop", "wait", "finish", "kill"} /\ Excluded \subseteq {"add", "finish", "kill", "full"}

Workers == 0 .. (MaxThreads - 1)
\* The jobs of util_queue_finish: one for each worker, all of the caller's barrier.
BarrierJobs == Clients \X Workers
AllJobs == Jobs \cup BarrierJobs

VARIABLES
  jobs, max_jobs, read_idx, write_idx, num_queued,   \* the ring
  total_jobs_size,
  num_threads,                \* workers at or above it terminate
  create_threads_on_demand,
  lock,                       \* the client that holds queue->lock between steps
  fence,                      \* fence[j]: signalled
  wpc, wjob,                  \* workers: program point, job
  pc, cjob,                   \* clients: program point, job
  num_fences, added,          \* util_queue_finish: barrier size, loop index
  owed,                       \* jobs added before util_queue_finish that are not done
  joining                     \* util_queue_kill_threads: workers to join

ringVars == << jobs, max_jobs, read_idx, write_idx, num_queued, total_jobs_size >>
finishVars == << num_fences, added, owed >>
vars == << ringVars, num_threads, create_threads_on_demand, lock, fence, wpc, wjob, pc, cjob,
           finishVars, joining >>

WorkerPcs == {"none", "ready", "sleep", "exec", "barrier", "signal", "exiting", "dead"}
ClientPcs == {"idle", "space", "woken", "fin_add", "fin_space", "fin_woken", "fin_fences",
              "fin_ret", "fence", "join"}

Init ==
  /\ jobs = [i \in 0 .. (InitJobs - 1) |-> NoJob]
  /\ max_jobs = InitJobs
  /\ read_idx = 0 /\ write_idx = 0 /\ num_queued = 0 /\ total_jobs_size = 0
  /\ num_threads = 1
  /\ create_threads_on_demand = TRUE
  /\ lock = NoClient
  /\ fence = [j \in AllJobs |-> TRUE]
  /\ wpc = [w \in Workers |-> IF w = 0 THEN "ready" ELSE "none"]
  /\ wjob = [w \in Workers |-> NoJob]
  /\ pc = [c \in Clients |-> "idle"]
  /\ cjob = [c \in Clients |-> NoJob]
  /\ num_fences = [c \in Clients |-> 0]
  /\ added = [c \in Clients |-> 0]
  /\ owed = [c \in Clients |-> {}]
  /\ joining = [c \in Clients |-> {}]

-----------------------------------------------------------------------------
\* Mutant: the index stays at the last slot.
NextIdx_Saturates(i) == IF i + 1 < max_jobs THEN i + 1 ELSE i
NextIdx(i) == (i + 1) % max_jobs

Size(j) == IF j \in Jobs THEN 1 ELSE 0

\* The slots that `for (i = read_idx; i != write_idx; ...)' visits.
Walked == { (read_idx + k) % max_jobs : k \in 0 .. (((write_idx - read_idx) % max_jobs) - 1) }

\* cnd_signal(has_queued_cond) wakes one sleeping worker, if there is one.
WakeWorker(workers) ==
  LET asleep == {w \in Workers : workers[w] = "sleep"} IN
  IF asleep = {} THEN wpc' = workers
  ELSE \E w \in asleep : wpc' = [workers EXCEPT ![w] = "ready"]

\* cnd_signal(has_space_cond) wakes one client that waits for a free slot.
WakeProducer ==
  LET asleep == {c \in Clients : pc[c] \in {"space", "fin_space"}} IN
  IF asleep = {} THEN UNCHANGED pc
  ELSE \E c \in asleep :
         pc' = [pc EXCEPT ![c] = IF @ = "space" THEN "woken" ELSE "fin_woken"]

\* Mutant: the producer is woken at exactly half empty.
SignalsSpace_Exactly == ~ WakeAtHalfEmpty \/ num_queued - 1 = max_jobs \div 2
SignalsSpace == ~ WakeAtHalfEmpty \/ num_queued - 1 <= max_jobs \div 2

Done(j) == owed' = [c \in Clients |-> owed[c] \ {j}]

-----------------------------------------------------------------------------
(* util_queue_thread_func *)
WorkerSleep(w) ==
  /\ wpc[w] = "ready" /\ lock = NoClient
  /\ w < num_threads /\ num_queued = 0
  /\ wpc' = [wpc EXCEPT ![w] = "sleep"]
  /\ UNCHANGED << ringVars, num_threads, create_threads_on_demand, lock, fence, wjob, pc, cjob,
                  finishVars, joining >>

WorkerTake(w) ==
  LET j == jobs[read_idx] IN
  /\ wpc[w] = "ready" /\ lock = NoClient
  /\ w < num_threads /\ num_queued > 0
  /\ jobs' = [jobs EXCEPT ![read_idx] = NoJob]
  /\ read_idx' = NextIdx(read_idx)
  /\ num_queued' = num_queued - 1
  /\ IF SignalsSpace THEN WakeProducer ELSE UNCHANGED pc
  /\ total_jobs_size' = total_jobs_size - Size(j)
  /\ wjob' = [wjob EXCEPT ![w] = j]
  /\ wpc' = [wpc EXCEPT ![w] = IF j = NoJob THEN "ready" ELSE "exec"]
  /\ UNCHANGED << max_jobs, write_idx, num_threads, create_threads_on_demand, lock, fence,
                  cjob, finishVars, joining >>

\* job.execute returns
WorkerExec(w) ==
  /\ wpc[w] = "exec" /\ wjob[w] \in Jobs
  /\ wpc' = [wpc EXCEPT ![w] = "signal"]
  /\ Done(wjob[w])
  /\ UNCHANGED << ringVars, num_threads, create_threads_on_demand, lock, fence, wjob, pc, cjob,
                  num_fences, added, joining >>

BarrierFull_Late(c, n) == n > num_fences[c]
BarrierFull(c, n) == n >= num_fences[c]

\* util_queue_finish_execute: the last worker that arrives releases the others.
WorkerBarrier(w) ==
  LET c == wjob[w][1]
      here == {v \in Workers : wpc[v] = "barrier" /\ wjob[v][1] = c} IN
  /\ wpc[w] = "exec" /\ wjob[w] \in BarrierJobs
  /\ wpc' = IF BarrierFull(c, Cardinality(here) + 1)
            THEN [v \in Workers |-> IF v \in here \cup {w} THEN "signal" ELSE wpc[v]]
            ELSE [wpc EXCEPT ![w] = "barrier"]
  /\ UNCHANGED << ringVars, num_threads, create_threads_on_demand, lock, fence, wjob, pc, cjob,
                  finishVars, joining >>

WorkerSignal(w) ==
  /\ wpc[w] = "signal"
  /\ fence' = [fence EXCEPT ![wjob[w]] = TRUE]
  /\ wjob' = [wjob EXCEPT ![w] = NoJob]
  /\ wpc' = [wpc EXCEPT ![w] = "ready"]
  /\ UNCHANGED << ringVars, num_threads, create_threads_on_demand, lock, pc, cjob, finishVars,
                  joining >>

\* The worker leaves its loop ...
WorkerLeave(w) ==
  /\ wpc[w] = "ready" /\ lock = NoClient
  /\ w >= num_threads
  /\ wpc' = [wpc EXCEPT ![w] = "exiting"]
  /\ UNCHANGED << ringVars, num_threads, create_threads_on_demand, lock, fence, wjob, pc, cjob,
                  finishVars, joining >>

\* ... and signals the remaining jobs if all workers are being terminated.
WorkerExit(w) ==
  /\ wpc[w] = "exiting" /\ lock = NoClient
  /\ wpc' = [wpc EXCEPT ![w] = "dead"]
  /\ IF num_threads = 0
     THEN /\ fence' = [j \in AllJobs |-> fence[j] \/ \E i \in Walked : jobs[i] = j]
          /\ jobs' = [i \in DOMAIN jobs |-> IF i \in Walked THEN NoJob ELSE jobs[i]]
          /\ read_idx' = write_idx
          /\ num_queued' = 0
          /\ owed' = [c \in Clients |-> owed[c] \ {jobs[i] : i \in Walked}]
     ELSE UNCHANGED << fence, jobs, read_idx, num_queued, owed >>
  /\ UNCHANGED << max_jobs, write_idx, total_jobs_size, num_threads, create_threads_on_demand,
                  lock, wjob, pc, cjob, num_fences, added, joining >>

-----------------------------------------------------------------------------
(* util_queue_add_job_locked *)
\* Store the job behind the queued ones and wake a worker.  `workers' is wpc, or
\* wpc with the worker that was just created.
Insert(j, workers) ==
  /\ jobs' = [jobs EXCEPT ![write_idx] = j]
  /\ write_idx' = NextIdx(write_idx)
  /\ num_queued' = num_queued + 1
  /\ total_jobs_size' = total_jobs_size + Size(j)
  /\ WakeWorker(workers)
  /\ UNCHANGED << max_jobs, read_idx >>

CanGrow(j) == ResizeIfFull /\ total_jobs_size + Size(j) < SizeLimit

\* The slot of the k-th queued job.  Mutant: the copy starts at slot 0.
CopySlot_FromZero(k) == k
CopySlot(k) == (read_idx + k) % max_jobs

\* Copy the queued jobs to the front of a larger ring, then store the job.
GrowAndInsert(j, workers) ==
  /\ jobs' = [ i \in 0 .. (max_jobs + GrowBy - 1) |->
                 IF i < num_queued THEN jobs[CopySlot(i)]
                 ELSE IF i = num_queued THEN j ELSE NoJob ]
  /\ max_jobs' = max_jobs + GrowBy
  /\ read_idx' = 0
  /\ write_idx' = (num_queued + 1) % (max_jobs + GrowBy)
  /\ num_queued' = num_queued + 1
  /\ total_jobs_size' = total_jobs_size + Size(j)
  /\ WakeWorker(workers)

\* Store the job now (afterwards the caller is at `next') or wait at `wait' for space.
AddLocked(c, j, workers, next, wait) ==
  \/ num_queued < max_jobs /\ Insert(j, workers) /\ pc' = [pc EXCEPT ![c] = next]
  \/ /\ num_queued = max_jobs /\ CanGrow(j)
     /\ GrowAndInsert(j, workers) /\ pc' = [pc EXCEPT ![c] = next]
  \/ /\ num_queued = max_jobs /\ ~ CanGrow(j)
     /\ wpc' = workers /\ pc' = [pc EXCEPT ![c] = wait] /\ UNCHANGED ringVars

InFinish(c) == pc[c] \in {"fin_add", "fin_space", "fin_woken", "fin_fences", "fin_ret"}

\* `Scale the number of threads up if there's already one job waiting.'  The number of
\* workers and their program points afterwards; creating the thread may fail.
ScaleUp ==
  {<< num_threads, wpc >>} \cup
  IF num_queued > 0 /\ create_threads_on_demand /\ num_threads < MaxThreads
  THEN {<< num_threads + 1, [wpc EXCEPT ![num_threads] = "ready"] >>} ELSE {}

\* util_queue_add_job.  (With num_threads = 0 the function returns at once.)  The caller
\* owns the job: its fence is signalled and nobody waits for it.
AddJob(c, j) ==
  /\ pc[c] = "idle" /\ "add" \in Ops
  /\ fence[j] /\ \A d \in Clients : cjob[d] # j
  /\ "add" \in Excluded => \A d \in Clients : ~ InFinish(d)
  /\ lock = NoClient /\ num_threads > 0
  /\ fence' = [fence EXCEPT ![j] = FALSE]
  /\ \E s \in ScaleUp : num_threads' = s[1] /\ AddLocked(c, j, s[2], "idle", "space")
  /\ cjob' = [cjob EXCEPT ![c] = IF pc'[c] = "space" THEN j ELSE NoJob]
  /\ UNCHANGED << create_threads_on_demand, lock, wjob, finishVars, joining >>

\* cnd_wait(has_space_cond) returned.
AddJobWoken(c) ==
  /\ pc[c] = "woken" /\ lock = NoClient
  /\ IF num_queued = max_jobs
     THEN pc' = [pc EXCEPT ![c] = "space"] /\ UNCHANGED << ringVars, wpc, cjob >>
     ELSE /\ Insert(cjob[c], wpc)
          /\ pc' = [pc EXCEPT ![c] = "idle"]
          /\ cjob' = [cjob EXCEPT ![c] = NoJob]
  /\ UNCHANGED << num_threads, create_threads_on_demand, lock, fence, wjob, finishVars, joining >>

-----------------------------------------------------------------------------
(* util_queue_finish *)
FinishStart(c) ==
  /\ pc[c] = "idle" /\ "finish" \in Ops
  /\ "finish" \in Excluded => \A d \in Clients : ~ InFinish(d)
  /\ lock = NoClient /\ num_threads > 0
  /\ lock' = c
  /\ create_threads_on_demand' = FALSE
  /\ num_fences' = [num_fences EXCEPT ![c] = num_threads]
  /\ added' = [added EXCEPT ![c] = 0]
  /\ owed' = [owed EXCEPT ![c] = {j \in Jobs : \/ \E i \in DOMAIN jobs : jobs[i] = j
                                               \/ \E w \in Workers : wpc[w] = "exec" /\ wjob[w] = j}]
  /\ pc' = [pc EXCEPT ![c] = "fin_add"]
  /\ UNCHANGED << ringVars, num_threads, fence, wpc, wjob, cjob, joining >>

\* Mutant: the lock is released after each barrier job.
FinishAdd_Unlocks(c) ==
  LET j == << c, added[c] >> IN
  /\ pc[c] = "fin_add" /\ lock \in {c, NoClient}
  /\ added[c] < num_threads
  /\ fence' = [fence EXCEPT ![j] = FALSE]
  /\ AddLocked(c, j, wpc, "fin_add", "fin_space")
  /\ lock' = IF pc'[c] = "fin_space" \/ added[c] = 0 THEN NoClient ELSE c
  /\ added' = IF pc'[c] = "fin_space" THEN added ELSE [added EXCEPT ![c] = @ + 1]
  /\ UNCHANGED << num_threads, create_threads_on_demand, wjob, cjob, num_fences, owed, joining >>

\* One barrier job; the lock is released only while waiting for space.
FinishAdd(c) ==
  LET j == << c, added[c] >> IN
  /\ pc[c] = "fin_add" /\ lock = c
  /\ added[c] < num_threads
  /\ fence' = [fence EXCEPT ![j] = FALSE]
  /\ AddLocked(c, j, wpc, "fin_add", "fin_space")
  /\ lock' = IF pc'[c] = "fin_space" THEN NoClient ELSE c
  /\ added' = IF pc'[c] = "fin_space" THEN added ELSE [added EXCEPT ![c] = @ + 1]
  /\ UNCHANGED << num_threads, create_threads_on_demand, wjob, cjob, num_fences, owed, joining >>

FinishWoken(c) ==
  /\ pc[c] = "fin_woken" /\ lock = NoClient
  /\ IF num_queued = max_jobs
     THEN pc' = [pc EXCEPT ![c] = "fin_space"] /\ UNCHANGED << ringVars, wpc, lock, added >>
     ELSE /\ Insert(<< c, added[c] >>, wpc)
          /\ pc' = [pc EXCEPT ![c] = "fin_add"]
          /\ lock' = c
          /\ added' = [added EXCEPT ![c] = @ + 1]
  /\ UNCHANGED << num_threads, create_threads_on_demand, fence, wjob, cjob, num_fences, owed,
                  joining >>

FinishUnlock(c) ==
  /\ pc[c] = "fin_add" /\ lock = c
  /\ added[c] >= num_threads
  /\ create_threads_on_demand' = TRUE
  /\ lock' = NoClient
  /\ pc' = [pc EXCEPT ![c] = "fin_fences"]
  /\ UNCHANGED << ringVars, num_threads, fence, wpc, wjob, cjob, finishVars, joining >>

\* All fences were waited for.
FinishFences(c) ==
  /\ pc[c] = "fin_fences"
  /\ \A i \in 0 .. (num_fences[c] - 1) : fence[<< c, i >>]
  /\ pc' = [pc EXCEPT ![c] = "fin_ret"]
  /\ UNCHANGED << ringVars, num_threads, create_threads_on_demand, lock, fence, wpc, wjob, cjob,
                  finishVars, joining >>

FinishReturn(c) ==
  /\ pc[c] = "fin_ret"
  /\ pc' = [pc EXCEPT ![c] = "idle"]
  /\ num_fences' = [num_fences EXCEPT ![c] = 0]
  /\ added' = [added EXCEPT ![c] = 0]
  /\ owed' = [owed EXCEPT ![c] = {}]
  /\ UNCHANGED << ringVars, num_threads, create_threads_on_demand, lock, fence, wpc, wjob, cjob,
                  joining >>

-----------------------------------------------------------------------------
\* util_queue_drop_job on a job that is not signalled: clear its slot, or wait for it.
DropJob(c, j) ==
  LET found == {i \in Walked : jobs[i] = j} IN
  /\ pc[c] = "idle" /\ "drop" \in Ops
  /\ ~ fence[j] /\ lock = NoClient /\ total_jobs_size <= MaxSize
  /\ IF found # {}
     THEN /\ jobs' = [i \in DOMAIN jobs |-> IF i \in found THEN NoJob ELSE jobs[i]]
          /\ fence' = [fence EXCEPT ![j] = TRUE]
          /\ Done(j)
          /\ UNCHANGED << pc, cjob >>
     ELSE /\ pc' = [pc EXCEPT ![c] = "fence"]
          /\ cjob' = [cjob EXCEPT ![c] = j]
          /\ UNCHANGED << jobs, fence, owed >>
  /\ UNCHANGED << max_jobs, read_idx, write_idx, num_queued, total_jobs_size, num_threads,
                  create_threads_on_demand, lock, wpc, wjob, num_fences, added, joining >>

\* util_queue_fence_wait
FenceWait(c, j) ==
  /\ pc[c] = "idle" /\ "wait" \in Ops
  /\ ~ fence[j]
  /\ pc' = [pc EXCEPT ![c] = "fence"]
  /\ cjob' = [cjob EXCEPT ![c] = j]
  /\ UNCHANGED << ringVars, num_threads, create_threads_on_demand, lock, fence, wpc, wjob,
                  finishVars, joining >>

FenceReturn(c) ==
  /\ pc[c] = "fence" /\ fence[cjob[c]]
  /\ pc' = [pc EXCEPT ![c] = "idle"]
  /\ cjob' = [cjob EXCEPT ![c] = NoJob]
  /\ UNCHANGED << ringVars, num_threads, create_threads_on_demand, lock, fence, wpc, wjob,
                  finishVars, joining >>

\* util_queue_kill_threads(queue, 0, false): terminate the workers and join them.
KillThreads(c) ==
  /\ pc[c] = "idle" /\ "kill" \in Ops
  /\ "kill" \in Excluded => \A d \in Clients : ~ InFinish(d)
  /\ "full" \in Excluded => num_queued < max_jobs
  /\ lock = NoClient /\ num_threads > 0
  /\ num_threads' = 0
  /\ wpc' = [w \in Workers |-> IF wpc[w] = "sleep" THEN "ready" ELSE wpc[w]]
  /\ joining' = [joining EXCEPT ![c] = 0 .. (num_threads - 1)]
  /\ pc' = [pc EXCEPT ![c] = "join"]
  /\ UNCHANGED << ringVars, create_threads_on_demand, lock, fence, wjob, cjob, finishVars >>

Joined(c) ==
  /\ pc[c] = "join" /\ \A w \in joining[c] : wpc[w] = "dead"
  /\ joining' = [joining EXCEPT ![c] = {}]
  /\ pc' = [pc EXCEPT ![c] = "idle"]
  /\ UNCHANGED << ringVars, num_threads, create_threads_on_demand, lock, fence, wpc, wjob, cjob,
                  finishVars >>

\* The workers are gone: nothing happens any more.
Terminated ==
  /\ num_threads = 0 /\ \A w \in Workers : wpc[w] \in {"none", "dead"}
  /\ UNCHANGED vars

WorkerNext(w) ==
  \/ WorkerSleep(w) \/ WorkerTake(w) \/ WorkerExec(w) \/ WorkerBarrier(w)
  \/ WorkerSignal(w) \/ WorkerLeave(w) \/ WorkerExit(w)

\* The steps of a call that has begun.
ClientStep(c) ==
  \/ AddJobWoken(c) \/ FinishAdd(c) \/ FinishWoken(c) \/ FinishUnlock(c)
  \/ FinishFences(c) \/ FinishReturn(c) \/ FenceReturn(c) \/ Joined(c)

ClientCall(c) ==
  \/ \E j \in Jobs : AddJob(c, j) \/ DropJob(c, j) \/ FenceWait(c, j)
  \/ FinishStart(c) \/ KillThreads(c)

Next ==
  \/ \E w \in Workers : WorkerNext(w)
  \/ \E c \in Clients : ClientStep(c) \/ ClientCall(c)
  \/ Terminated

Spec == Init /\ [][Next]_vars

\* Jobs return and threads that can run do run; a thread that competes for queue->lock
\* gets it eventually (the lock is free infinitely often).  No call has to be made.
FairSpec ==
  /\ Spec
  /\ \A w \in Workers : SF_vars(WorkerNext(w))
  /\ \A c \in Clients : SF_vars(ClientStep(c))

-----------------------------------------------------------------------------
\* The types; the indices stay inside of the ring.
TypeOK ==
  /\ max_jobs \in Nat \ {0}
  /\ jobs \in [0 .. (max_jobs - 1) -> AllJobs \cup {NoJob}]
  /\ read_idx \in 0 .. (max_jobs - 1) /\ write_idx \in 0 .. (max_jobs - 1)
  /\ num_queued \in 0 .. max_jobs
  /\ total_jobs_size \in Nat
  /\ num_threads \in 0 .. MaxThreads
  /\ create_threads_on_demand \in BOOLEAN
  /\ lock \in Clients \cup {NoClient}
  /\ fence \in [AllJobs -> BOOLEAN]
  /\ wpc \in [Workers -> WorkerPcs] /\ wjob \in [Workers -> AllJobs \cup {NoJob}]
  /\ pc \in [Clients -> ClientPcs] /\ cjob \in [Clients -> Jobs \cup {NoJob}]
  /\ num_fences \in [Clients -> 0 .. MaxThreads] /\ added \in [Clients -> 0 .. MaxThreads]
  /\ owed \in [Clients -> SUBSET Jobs]
  /\ joining \in [Clients -> SUBSET Workers]

\* Where a job that is not signalled is: in a slot, or with a worker, or with the
\* client that waits for a slot.
Places(j) ==
  { << "ring", i >> : i \in {i \in DOMAIN jobs : jobs[i] = j} } \cup
  { << "worker", w >> : w \in {w \in Workers : wjob[w] = j} } \cup
  { << "client", c >> : c \in {c \in Clients :
        \/ pc[c] \in {"space", "woken"} /\ cjob[c] = j
        \/ pc[c] \in {"fin_space", "fin_woken"} /\ j = << c, added[c] >>} }

\* No job is lost, duplicated or run after its fence was signalled, whatever the mixture
\* of producers, resizes, dropped jobs, barriers and terminating workers: it is in one
\* place, and in the ring only in a slot between read_idx and write_idx (the assertion
\* `ptr->job == NULL' before a job is stored).
EachJobOnce ==
  LET occupied == { (read_idx + k) % max_jobs : k \in 0 .. (num_queued - 1) } IN
  /\ \A j \in AllJobs : Cardinality(Places(j)) = IF fence[j] THEN 0 ELSE 1
  /\ \A i \in DOMAIN jobs \ occupied : jobs[i] = NoJob
  /\ write_idx = (read_idx + num_queued) % max_jobs


\* `1 barrier requires that all threads wait for it exclusively' (util_queue_finish):
\* the workers never wait at two barriers, neither of which can be completed.
BarriersExclusive ==
  \A v, w \in Workers : wpc[v] = "barrier" /\ wpc[w] = "barrier" => wjob[v][1] = wjob[w][1]


\* The steps that touch the ring keep the order of the jobs: a job that is taken is the
\* one that was queued first, also across a resize.
Queued == [k \in 0 .. (num_queued - 1) |-> jobs[(read_idx + k) % max_jobs]]
Fifo ==
  [][ num_threads > 0 =>
        \/ num_queued' = num_queued /\ \A k \in DOMAIN Queued : Queued'[k] \in {Queued[k], NoJob}
        \/ num_queued' = num_queued + 1 /\ \A k \in DOMAIN Queued : Queued'[k] = Queued[k]
        \/ num_queued' = num_queued - 1 /\ \A k \in DOMAIN Queued' : Queued'[k] = Queued[k + 1] ]_vars

\* Every job that was added is run and its fence signalled, unless others add jobs for
\* ever: no wakeup of a worker, or of a producer that waits for a slot (also when it is
\* only woken at half empty), is lost.
EveryJobCompletes ==
  \/ []<><< \E c \in Clients, j \in Jobs : AddJob(c, j) >>_vars
  \/ \A j \in Jobs : ~ fence[j] ~> fence[j]

\* util_queue_finish returns.
FinishReturns == \A c \in Clients : pc[c] = "fin_add" ~> pc[c] = "idle"
=============================================================================
