------------------------------ MODULE GpuQueue ------------------------------
(***************************************************************************)
(* The GPU queue of vocarium-api: gpu_queue.GpuQueue with the persisted    *)
(* rows of database.py and the cancel endpoint and startup of main.py.     *)
(*                                                                         *)
(* Everything in this process runs on one asyncio loop, so a step here is  *)
(* the code between two awaits.  The worker's position is `pc`; other      *)
(* requests (submit, cancel, a caller that goes away) take their steps     *)
(* while the worker is suspended at one of its awaits.  Another replica    *)
(* shares only the database and can flag any row at any time.              *)
(***************************************************************************)
EXTENDS GpuRows, Sequences

CONSTANTS
    Jobs,         \* every job that is ever submitted
    Users,        \* the users who submit
    Owner,        \* [Jobs -> Users]: who submits which job
    MaxAttempts,  \* Job.max_attempts
    MaxHistory,   \* GpuQueue._max_history
    MaxActive,    \* GPU_QUEUE_MAX_ACTIVE_PER_USER, 0 is no limit
    MaxQueued,    \* GPU_QUEUE_MAX_QUEUED_PER_USER, 0 is no limit
    Replicated,   \* another replica serves requests over the same database
    DbFaults,     \* a database call may fail (logged and swallowed)
    MaxRestarts,  \* bound on the restarts explored
    NoJob         \* the value of _current when the worker holds no job

ASSUME JobsAssumption == NoJob \notin Jobs
ASSUME OwnerAssumption == Owner \in [Jobs -> Users]
ASSUME LimitsAssumption ==
    /\ MaxAttempts \in Nat \ {0}
    /\ MaxHistory \in Nat
    /\ MaxActive \in Nat
    /\ MaxQueued \in Nat
    /\ MaxRestarts \in Nat
ASSUME FlagsAssumption == Replicated \in BOOLEAN /\ DbFaults \in BOOLEAN

VARIABLES
    job,       \* the Job objects: status, cancel flag, attempts, finished_at
    retained,  \* the keys of _jobs: what the status and cancel calls can see
    queue,     \* the asyncio.Queue
    current,   \* _current
    pc,        \* the await the worker is suspended at
    fut,       \* the futures handed to the callers
    row,       \* the gpu_queue_jobs table
    clock,     \* orders the finished_at stamps
    up,        \* the process runs
    restarts   \* restarts so far

vars == <<job, retained, queue, current, pc, fut, row, clock, up, restarts>>

MemStatus == {"new", "queued", "running", "cancel_requested",
              "completed", "failed", "cancelled", "lost"}

Active == {"queued", "running", "cancel_requested"}

\* The awaits inside the worker's try block: the heartbeat task is alive.
Busy == {"unloading", "guarding", "selfUnloading", "rechecking", "working"}

\* ... and the two ways it waits for that task to end.
Closing == {"closing", "requeueing"}

Answers == {"none", "pending", "result", "exception", "cancelled", "dropped"}

FreshJob == [status |-> "new", cancelReq |-> FALSE, attempts |-> 0, finished |-> 0]

TypeOK ==
    /\ job \in [Jobs -> [status : MemStatus, cancelReq : BOOLEAN,
                         attempts : Nat, finished : Nat]]
    /\ retained \subseteq Jobs
    /\ queue \in Seq(Jobs)
    /\ current \in Jobs \cup {NoJob}
    /\ pc \in {"idle"} \cup Busy \cup Closing
    /\ fut \in [Jobs -> Answers]
    /\ row \in [Jobs -> Rows]
    /\ clock \in Nat
    /\ up \in BOOLEAN
    /\ restarts \in 0..MaxRestarts

Init ==
    /\ job = [j \in Jobs |-> FreshJob]
    /\ retained = {}
    /\ queue = <<>>
    /\ current = NoJob
    /\ pc = "idle"
    /\ fut = [j \in Jobs |-> "none"]
    /\ row = [j \in Jobs |-> NoRow]
    /\ clock = 0
    /\ up = TRUE
    /\ restarts = 0

-----------------------------------------------------------------------------
(* Helpers shared by the handlers. *)

(***************************************************************************)
(* _record_job: upsert the job's row; a database error is swallowed.       *)
(***************************************************************************)
Record(j) ==
    \/ row' = [row EXCEPT ![j] = Upsert(@, job'[j].status, job'[j].cancelReq)]
    \/ DbFaults /\ UNCHANGED row

(***************************************************************************)
(* _is_cancel_requested: the job's own flag, else the row's; a failing     *)
(* lookup counts as "not cancelled".  The set of answers it may give.      *)
(***************************************************************************)
CancelSeen(j) ==
    IF job[j].cancelReq THEN {TRUE}
    ELSE IF CancelFlag(row[j]) THEN {TRUE} \cup (IF DbFaults THEN {FALSE} ELSE {})
    ELSE {FALSE}

\* Mutant of Done: any job that does not run may be forgotten.
DoneAny(held) == {j \in held : job'[j].status # "running"}

(***************************************************************************)
(* _evict_old: forget the finished jobs beyond MaxHistory, those with the  *)
(* smallest finished_at first; a job whose finished_at is not set yet      *)
(* sorts as 0.                                                             *)
(***************************************************************************)
Done(held) == {j \in held : job'[j].status \in Terminal}

EvictOld(held) ==
    \E victims \in SUBSET Done(held) :
        /\ Cardinality(victims) =
             IF Cardinality(Done(held)) > MaxHistory
             THEN Cardinality(Done(held)) - MaxHistory ELSE 0
        /\ \A v \in victims, k \in Done(held) \ victims :
             job'[v].finished <= job'[k].finished
        /\ retained' = held \ victims

\* Mutant of CancelFuture: the caller is not told.
CancelFutureForgotten(j) == fut[j]

Flagged(r, status) == [r EXCEPT !.status = status, !.cancelReq = TRUE]

CancelFuture(j) == IF fut[j] = "pending" THEN "cancelled" ELSE fut[j]

-----------------------------------------------------------------------------
(* Requests: each runs from start to end without an await that suspends.   *)

(***************************************************************************)
(* submit: refused over quota, else queue, record, evict.                  *)
(***************************************************************************)
OwnRows(u) == {j \in Jobs : Owner[j] = u}

Submit(j) ==
    /\ up
    /\ job[j].status = "new"
    /\ QuotaAllows(row, OwnRows(Owner[j]), MaxActive, MaxQueued)
    /\ job' = [job EXCEPT ![j].status = "queued"]
    /\ fut' = [fut EXCEPT ![j] = "pending"]
    /\ queue' = Append(queue, j)
    /\ Record(j)
    /\ EvictOld(retained \cup {j})
    /\ UNCHANGED <<current, pc, clock, up, restarts>>

(***************************************************************************)
(* cancel_job: a queued job is settled at once and stays in the queue for  *)
(* the worker to skip; a running one is only flagged.                      *)
(***************************************************************************)
CancelQueued(j) ==
    /\ up
    /\ j \in retained
    /\ job[j].status = "queued"
    /\ clock' = clock + 1
    /\ job' = [job EXCEPT ![j] = [Flagged(@, "cancelled") EXCEPT !.finished = clock']]
    /\ fut' = [fut EXCEPT ![j] = CancelFuture(j)]
    /\ Record(j)
    /\ UNCHANGED <<retained, queue, current, pc, up, restarts>>

CancelRunning(j) ==
    /\ up
    /\ j \in retained
    /\ job[j].status \in {"running", "cancel_requested"}
    /\ job' = [job EXCEPT ![j] = Flagged(@, "cancel_requested")]
    /\ Record(j)
    /\ UNCHANGED <<retained, queue, current, pc, fut, clock, up, restarts>>

(***************************************************************************)
(* The cancel endpoint for a job that is not in this process's memory, and *)
(* the same endpoint of another replica.                                   *)
(***************************************************************************)
CancelByRow(j) ==
    /\ Replicated \/ (up /\ j \notin retained)
    /\ row[j].status # "absent"
    /\ row' = [row EXCEPT ![j] = RequestCancel(@)]
    /\ UNCHANGED <<job, retained, queue, current, pc, fut, clock, up, restarts>>

(***************************************************************************)
(* The request task that awaits the future is cancelled, which cancels the *)
(* future; the job is told nothing.                                        *)
(***************************************************************************)
CallerLeaves(j) ==
    /\ up
    /\ fut[j] = "pending"
    /\ fut' = [fut EXCEPT ![j] = "cancelled"]
    /\ UNCHANGED <<job, retained, queue, current, pc, row, clock, up, restarts>>

-----------------------------------------------------------------------------
(* The worker. *)

(***************************************************************************)
(* The head of the queue was cancelled while it waited.                    *)
(***************************************************************************)
Skip(j) ==
    /\ up /\ pc = "idle" /\ queue # <<>> /\ j = Head(queue)
    /\ fut[j] = "cancelled" \/ TRUE \in CancelSeen(j)
    /\ queue' = Tail(queue)
    /\ clock' = clock + 1
    /\ job' = [job EXCEPT ![j] = [Flagged(@, "cancelled") EXCEPT !.finished = clock']]
    /\ Record(j)
    /\ UNCHANGED <<retained, current, pc, fut, up, restarts>>

Start(j) ==
    /\ up /\ pc = "idle" /\ queue # <<>> /\ j = Head(queue)
    /\ fut[j] # "cancelled" /\ FALSE \in CancelSeen(j)
    /\ queue' = Tail(queue)
    /\ current' = j
    /\ job' = [job EXCEPT ![j].status = "running", ![j].attempts = @ + 1]
    /\ Record(j)
    /\ pc' = "unloading"
    /\ UNCHANGED <<retained, fut, clock, up, restarts>>

\* CancelledError reaches the worker's handler: from a cancel check, or from work_fn.
Abort(j) ==
    /\ job' = [job EXCEPT ![j] = Flagged(@, "cancelled")]
    /\ fut' = [fut EXCEPT ![j] = CancelFuture(j)]
    /\ pc' = "closing"
    /\ UNCHANGED <<retained, queue, current, row, clock, up, restarts>>

\* Mutant of Retry: one attempt too many.
RetryOnceMore(j) ==
    /\ job[j].attempts <= MaxAttempts
    /\ FALSE \in CancelSeen(j)
    /\ job' = [job EXCEPT ![j].status = "queued"]
    /\ Record(j)
    /\ queue' = Append(queue, j)
    /\ pc' = "requeueing"
    /\ UNCHANGED <<retained, current, fut, clock, up, restarts>>

\* Mutant of Retry: the job is marked queued and not put back.
RetryDropped(j) ==
    /\ job[j].attempts < MaxAttempts
    /\ FALSE \in CancelSeen(j)
    /\ job' = [job EXCEPT ![j].status = "queued"]
    /\ Record(j)
    /\ pc' = "requeueing"
    /\ UNCHANGED <<retained, queue, current, fut, clock, up, restarts>>

\* Any other exception: queue the job again, or give up.
Retry(j) ==
    /\ job[j].attempts < MaxAttempts
    /\ FALSE \in CancelSeen(j)
    /\ job' = [job EXCEPT ![j].status = "queued"]
    /\ Record(j)
    /\ queue' = Append(queue, j)
    /\ pc' = "requeueing"
    /\ UNCHANGED <<retained, current, fut, clock, up, restarts>>

GiveUp(j) ==
    /\ \/ /\ job[j].attempts >= MaxAttempts
          /\ job' = [job EXCEPT ![j].status = "failed"]
       \/ /\ job[j].attempts < MaxAttempts
          /\ TRUE \in CancelSeen(j)
          /\ job' = [job EXCEPT ![j] = Flagged(@, "failed")]
    /\ fut' = [fut EXCEPT ![j] = IF @ = "pending" THEN "exception" ELSE @]
    /\ pc' = "closing"
    /\ UNCHANGED <<retained, queue, current, row, clock, up, restarts>>

Raises(j) == Retry(j) \/ GiveUp(j)

\* A cancel check of the worker, then the next await.
Proceed(j, from, to) ==
    /\ up /\ pc = from /\ j = current
    /\ \/ TRUE \in CancelSeen(j) /\ Abort(j)
       \/ /\ FALSE \in CancelSeen(j)
          /\ pc' = to
          /\ UNCHANGED <<job, retained, queue, current, fut, row, clock, up, restarts>>

\* _unload_conflicts returns; failures of the callbacks are only logged.
Unloaded(j) == Proceed(j, "unloading", "guarding")

\* require_gpu_resources lets the job through: first check, or after a self-unload.
Admitted(j) ==
    \/ Proceed(j, "guarding", "working")
    \/ Proceed(j, "rechecking", "working")

\* The guard denies, and the service cannot be unloaded or was already.
Denied(j) ==
    /\ up /\ pc \in {"guarding", "rechecking"} /\ j = current
    /\ Raises(j)

\* The first denial with an unloader registered: unload the service itself.
SelfUnload(j) ==
    /\ up /\ pc = "guarding" /\ j = current
    /\ pc' = "selfUnloading"
    /\ UNCHANGED <<job, retained, queue, current, fut, row, clock, up, restarts>>

SelfUnloaded(j) ==
    /\ up /\ pc = "selfUnloading" /\ j = current
    /\ \/ /\ pc' = "rechecking"
          /\ UNCHANGED <<job, retained, queue, current, fut, row, clock, up, restarts>>
       \/ Raises(j)

\* Mutant of Complete: a result is delivered without the last cancel check.
CompleteUnchecked(j) ==
    /\ fut' = [fut EXCEPT ![j] = IF @ = "cancelled" THEN @ ELSE "result"]
    /\ job' = [job EXCEPT ![j].status = "completed"]
    /\ pc' = "closing"
    /\ UNCHANGED <<retained, queue, current, row, clock, up, restarts>>

Complete(j) ==
    /\ FALSE \in CancelSeen(j)
    /\ fut' = [fut EXCEPT ![j] = IF @ = "cancelled" THEN @ ELSE "result"]
    /\ job' = [job EXCEPT ![j].status = "completed"]
    /\ pc' = "closing"
    /\ UNCHANGED <<retained, queue, current, row, clock, up, restarts>>

WorkReturns(j) ==
    /\ up /\ pc = "working" /\ j = current
    /\ (TRUE \in CancelSeen(j) /\ Abort(j)) \/ Complete(j)

WorkRaises(j) ==
    /\ up /\ pc = "working" /\ j = current
    /\ Raises(j) \/ Abort(j)

\* Mutant of Close: the final record is missing.
CloseUnrecorded(j) ==
    /\ up /\ pc = "closing" /\ j = current
    /\ clock' = clock + 1
    /\ job' = [job EXCEPT ![j].finished = clock']
    /\ current' = NoJob
    /\ pc' = "idle"
    /\ UNCHANGED <<retained, queue, fut, row, up, restarts>>

\* The finally block once the heartbeat task is gone.
Close(j) ==
    /\ up /\ pc = "closing" /\ j = current
    /\ clock' = clock + 1
    /\ job' = [job EXCEPT ![j].finished = clock']
    /\ Record(j)
    /\ current' = NoJob
    /\ pc' = "idle"
    /\ UNCHANGED <<retained, queue, fut, up, restarts>>

Requeued(j) ==
    /\ up /\ pc = "requeueing" /\ j = current
    /\ current' = NoJob
    /\ pc' = "idle"
    /\ UNCHANGED <<job, retained, queue, fut, row, clock, up, restarts>>

\* _heartbeat, every GPU_QUEUE_HEARTBEAT_SECONDS while the job is active.
Heartbeat(j) ==
    /\ up /\ pc \in Busy /\ j = current
    /\ job' = job
    /\ Record(j)
    /\ UNCHANGED <<retained, queue, current, pc, fut, clock, up, restarts>>

-----------------------------------------------------------------------------
(* Restart of the process: its memory is gone, the rows stay. *)

Crash ==
    /\ up /\ restarts < MaxRestarts
    /\ up' = FALSE
    /\ restarts' = restarts + 1
    /\ job' = [j \in Jobs |-> IF job[j].status = "new" THEN FreshJob
                              ELSE [FreshJob EXCEPT !.status = "lost"]]
    /\ fut' = [j \in Jobs |-> IF fut[j] = "pending" THEN "dropped" ELSE fut[j]]
    /\ retained' = {}
    /\ queue' = <<>>
    /\ current' = NoJob
    /\ pc' = "idle"
    /\ UNCHANGED <<row, clock>>

Startup ==
    /\ ~up
    /\ up' = TRUE
    /\ row' = [j \in Jobs |-> Interrupt(row[j])]
    /\ UNCHANGED <<job, retained, queue, current, pc, fut, clock, restarts>>

-----------------------------------------------------------------------------
Worker(j) ==
    \/ Skip(j) \/ Start(j)
    \/ Unloaded(j) \/ Admitted(j) \/ Denied(j)
    \/ SelfUnload(j) \/ SelfUnloaded(j)
    \/ WorkReturns(j) \/ WorkRaises(j)
    \/ Close(j) \/ Requeued(j)

Next ==
    \/ \E j \in Jobs :
        \/ Submit(j) \/ CancelQueued(j) \/ CancelRunning(j)
        \/ CancelByRow(j) \/ CallerLeaves(j)
        \/ Worker(j) \/ Heartbeat(j)
    \/ Crash \/ Startup

Spec == Init /\ [][Next]_vars

(***************************************************************************)
(* The loop keeps scheduling the worker task and every await of it ends:   *)
(* HTTP calls carry timeouts, the heartbeat task is cancelled before it is *)
(* awaited.  Nothing is assumed of the requests, of failures or restarts.  *)
(***************************************************************************)
LiveSpec == Spec /\ WF_vars(\E j \in Jobs : Worker(j))

-----------------------------------------------------------------------------
(* What the queue owes its callers. *)

Enqueued(j) == \E i \in DOMAIN queue : queue[i] = j

(***************************************************************************)
(* Nothing is lost between the queue and the worker: a job whose status is *)
(* queued is in the asyncio.Queue exactly once, one that runs is the       *)
(* worker's current job, and both can still be found by cancel_job.        *)
(***************************************************************************)
NothingLost ==
    /\ \A j \in Jobs :
        /\ job[j].status = "queued" => Enqueued(j)
        /\ job[j].status \in {"running", "cancel_requested"} => j = current
        /\ job[j].status \in Active => j \in retained
    /\ \A a, b \in DOMAIN queue : queue[a] = queue[b] => a = b
    /\ current # NoJob /\ Enqueued(current) => pc = "requeueing"

(***************************************************************************)
(* A job that has ended has answered its caller, and with the answer its   *)
(* status announces; "The caller awaits the future to get the result".     *)
(***************************************************************************)
Answered ==
    \A j \in Jobs :
        /\ job[j].status = "completed" => fut[j] \in {"result", "cancelled"}
        /\ job[j].status = "failed" => fut[j] \in {"exception", "cancelled"}
        /\ job[j].status = "cancelled" => fut[j] = "cancelled"

(***************************************************************************)
(* A job that was told to cancel is never reported completed, whichever    *)
(* await the cancel fell into, and cannot deliver a result.                *)
(***************************************************************************)
CancelWins ==
    \A j \in Jobs :
        job[j].cancelReq => job[j].status # "completed" /\ fut[j] # "result"

(***************************************************************************)
(* A final status is final while the process lives: no late heartbeat,     *)
(* retry or cancel reopens a completed, failed or cancelled job.           *)
(***************************************************************************)
FinalStaysFinal ==
    [][up' => \A j \in Jobs :
        job[j].status \in Terminal => job'[j].status = job[j].status]_vars

(***************************************************************************)
(* When the worker is done with a job its row says so: outside the moment  *)
(* between the status and the closing record, an ended job's row carries   *)
(* the same final status, and a live job's row an active one.  And no row  *)
(* says that a job waits or runs of which the process knows nothing: what  *)
(* a restart left behind is marked, and no late record revives it.         *)
(***************************************************************************)
RowsFollow ==
    ~DbFaults /\ up => \A j \in Jobs :
        /\ job[j].status \in Terminal /\ j # current => row[j].status = job[j].status
        /\ job[j].status \in Active => row[j].status \in Counted
        /\ row[j].status \in Waiting => job[j].status \in Active \/ j = current

(***************************************************************************)
(* Every caller gets an answer eventually, unless the process dies.        *)
(***************************************************************************)
EveryCallerAnswered ==
    \A j \in Jobs : fut[j] = "pending" ~> fut[j] # "pending"

(***************************************************************************)
(* Every job leaves the queue and the worker in the end, whatever cancels, *)
(* failures, retries and other replicas do meanwhile.                      *)
(***************************************************************************)
EveryJobEnds == \A j \in Jobs : job[j].status \in Active ~> job[j].status \notin Active

-----------------------------------------------------------------------------
(***************************************************************************)
(* The queue implements SerialExecutor: one job at a time on the GPU, no   *)
(* more than MaxAttempts times each, an answer for every job that is over. *)
(***************************************************************************)
Phase ==
    [j \in Jobs |->
        CASE job[j].status = "new" -> "new"
          [] job[j].status = "queued" -> "waiting"
          [] job[j].status \in {"running", "cancel_requested"} -> "running"
          [] OTHER -> "over"]

Tries == [j \in Jobs |-> job[j].attempts]

Abs == INSTANCE SerialExecutor WITH phase <- Phase, answer <- fut, tries <- Tries

AbsSpec == Abs!AbsSpec
=============================================================================
