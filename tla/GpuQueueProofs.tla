--------------------------- MODULE GpuQueueProofs ---------------------------
(***************************************************************************)
(* Proofs about GpuQueue, for any jobs, users, limits and any number of    *)
(* restarts, with or without a second replica and failing database calls.  *)
(*                                                                         *)
(* IInv is the inductive invariant.  NothingLost alone is not inductive:   *)
(* that a queued job is findable needs to know which jobs the queue may    *)
(* hold (QueueShape), what the worker's position says of its current job   *)
(* (WorkerShape), what each job's own fields allow together (JobShape) and *)
(* that a process that is down holds nothing (DownShape).                  *)
(*                                                                         *)
(* RInv, inductive with IInv, adds the database: which rows follow their   *)
(* jobs (RowShape), which may be flagged (AnswerShape), and that a waiting *)
(* job has an attempt left (TryShape).  It gives RowsFollow, Answered and  *)
(* the refinement of SerialExecutor; the last two need ~Replicated, as a   *)
(* second replica really breaks them.                                      *)
(***************************************************************************)
EXTENDS GpuQueue, GpuGuard, FiniteSetTheorems, WellFoundedInduction, TLAPS

JobRec == [status : MemStatus, cancelReq : BOOLEAN, attempts : Nat, finished : Nat]

QueueShape ==
    /\ \A i \in DOMAIN queue : job[queue[i]].status \in {"queued", "cancelled"}
    /\ \A a, b \in DOMAIN queue : queue[a] = queue[b] => a = b
    /\ \A j \in Jobs : job[j].status = "queued" => Enqueued(j)

WorkerShape ==
    /\ pc = "idle" <=> current = NoJob
    /\ \A j \in Jobs :
        /\ job[j].status \in {"running", "cancel_requested"} => j = current /\ pc \in Busy
        /\ j = current /\ pc \in Busy =>
             job[j].status \in {"running", "cancel_requested"}
        /\ j = current /\ pc = "closing" => job[j].status \in Terminal /\ ~Enqueued(j)
        /\ j = current /\ pc = "requeueing" => job[j].status \in {"queued", "cancelled"}

JobShape ==
    \A j \in Jobs :
        /\ job[j].status = "new" => fut[j] = "none" /\ ~job[j].cancelReq
        /\ job[j].status \in Active => j \in retained /\ fut[j] \in {"pending", "cancelled"}
        /\ job[j].status \in {"queued", "lost"} => ~job[j].cancelReq
        /\ job[j].status = "completed" =>
             ~job[j].cancelReq /\ fut[j] \in {"result", "cancelled"}
        /\ job[j].status = "failed" => fut[j] \in {"exception", "cancelled"}
        /\ job[j].status = "cancelled" =>
             job[j].cancelReq /\ fut[j] \in {"pending", "cancelled"}

DownShape ==
    /\ ~up => pc = "idle" /\ queue = <<>>
    /\ ~up => \A j \in Jobs : job[j].status \in {"new", "lost"}

IInv == TypeOK /\ QueueShape /\ WorkerShape /\ JobShape /\ DownShape

(***************************************************************************)
(* A row stays a row under the statements that rewrite it.                 *)
(***************************************************************************)
LEMMA RowStatements ==
    ASSUME NEW r \in Rows, NEW s \in RowStatus, NEW c \in BOOLEAN
    PROVE  /\ Upsert(r, s, c) \in Rows
           /\ Interrupt(r) \in Rows
           /\ RequestCancel(r) \in Rows
BY DEF Rows, RowStatus, Upsert, Interrupt, RequestCancel, Waiting, Terminal

(***************************************************************************)
(* Recording a job that is neither new nor lost keeps the table a table.   *)
(***************************************************************************)
LEMMA RecordType ==
    ASSUME row \in [Jobs -> Rows], NEW j \in Jobs, job'[j] \in JobRec,
           job'[j].status \in RowStatus, Record(j)
    PROVE  row' \in [Jobs -> Rows]
<1>1. Upsert(row[j], job'[j].status, job'[j].cancelReq) \in Rows
  BY RowStatements DEF JobRec
<1> QED BY <1>1 DEF Record

(***************************************************************************)
(* What flagging a job does to the table of jobs.                          *)
(***************************************************************************)
LEMMA FlagJob ==
    ASSUME job \in [Jobs -> JobRec], NEW j \in Jobs, NEW s \in MemStatus,
           job' = [job EXCEPT ![j] = Flagged(job[j], s)]
    PROVE  /\ job' \in [Jobs -> JobRec]
           /\ \A k \in Jobs : k # j => job'[k] = job[k]
           /\ job'[j].status = s /\ job'[j].cancelReq = TRUE
           /\ job'[j].attempts = job[j].attempts
<1> DEFINE r == Flagged(job[j], s)
<1>1. job[j] \in JobRec
  OBVIOUS
<1>2. r \in JobRec /\ r.status = s /\ r.cancelReq = TRUE /\ r.attempts = job[j].attempts
  BY <1>1, Zenon DEF JobRec, Flagged
<1>3. job' = [job EXCEPT ![j] = r]
  OBVIOUS
<1> HIDE DEF r
<1> QED BY <1>2, <1>3

(***************************************************************************)
(* ... and stamping it as finished.                                        *)
(***************************************************************************)
LEMMA StampJob ==
    ASSUME job \in [Jobs -> JobRec], NEW j \in Jobs, NEW s \in MemStatus, NEW t \in Nat,
           job' = [job EXCEPT ![j] = [Flagged(job[j], s) EXCEPT !.finished = t]]
    PROVE  /\ job' \in [Jobs -> JobRec]
           /\ \A k \in Jobs : k # j => job'[k] = job[k]
           /\ job'[j].status = s /\ job'[j].cancelReq = TRUE
           /\ job'[j].attempts = job[j].attempts
<1> DEFINE q == Flagged(job[j], s)
           r == [q EXCEPT !.finished = t]
<1>1. job[j] \in JobRec
  OBVIOUS
<1>2. q \in JobRec /\ q.status = s /\ q.cancelReq = TRUE /\ q.attempts = job[j].attempts
  BY <1>1, Zenon DEF JobRec, Flagged
<1>3. job' = [job EXCEPT ![j] = r]
  OBVIOUS
<1> HIDE DEF q
<1>4. /\ r \in JobRec /\ r.status = q.status
      /\ r.cancelReq = q.cancelReq /\ r.attempts = q.attempts
  BY <1>2, Zenon DEF JobRec
<1> HIDE DEF r
<1> QED BY <1>2, <1>3, <1>4

(***************************************************************************)
(* Jobs in the queue: the members of a sequence, of its tail, of a longer  *)
(* one.                                                                    *)
(***************************************************************************)
LEMMA TailEnqueued ==
    ASSUME queue \in Seq(Jobs), queue # <<>>, queue' = Tail(queue), NEW h, h = Head(queue),
           \A a, b \in DOMAIN queue : queue[a] = queue[b] => a = b
    PROVE  /\ h \in Jobs
           /\ queue' \in Seq(Jobs)
           /\ \A a, b \in DOMAIN queue' : queue'[a] = queue'[b] => a = b
           /\ \A i \in DOMAIN queue' : queue'[i] # h /\ Enqueued(queue'[i])
           /\ \A k \in Jobs : Enqueued(k) /\ k # h => Enqueued(k)'
           /\ ~Enqueued(h)'
<1>1. /\ Len(queue) \in Nat \ {0} /\ h = queue[1] /\ h \in Jobs
      /\ DOMAIN queue = 1..Len(queue) /\ queue' \in Seq(Jobs)
      /\ DOMAIN queue' = 1..(Len(queue) - 1)
      /\ \A i \in DOMAIN queue' : queue'[i] = queue[i + 1]
  OBVIOUS
<1>2. \A i \in DOMAIN queue' : i + 1 \in DOMAIN queue /\ i + 1 # 1
  BY <1>1
<1>3. \A i \in DOMAIN queue' : queue'[i] # h /\ Enqueued(queue'[i])
  BY <1>1, <1>2 DEF Enqueued
<1>4. \A a, b \in DOMAIN queue' : queue'[a] = queue'[b] => a = b
  BY <1>1, <1>2
<1>5. ASSUME NEW k \in Jobs, Enqueued(k), k # h
      PROVE  Enqueued(k)'
  <2>1. PICK i \in DOMAIN queue : queue[i] = k
    BY <1>5 DEF Enqueued
  <2>2. i - 1 \in DOMAIN queue' /\ queue'[i - 1] = k
    BY <1>1, <1>5, <2>1
  <2> QED BY <2>2 DEF Enqueued
<1>6. ~Enqueued(h)'
  BY <1>1, <1>3 DEF Enqueued
<1> QED BY <1>1, <1>3, <1>4, <1>5, <1>6

(***************************************************************************)
(* A job that was not queued joins a queue without duplicates.             *)
(***************************************************************************)
LEMMA AppendEnqueued ==
    ASSUME queue \in Seq(Jobs), NEW j \in Jobs, queue' = Append(queue, j),
           ~Enqueued(j),
           \A a, b \in DOMAIN queue : queue[a] = queue[b] => a = b
    PROVE  /\ queue' \in Seq(Jobs)
           /\ \A a, b \in DOMAIN queue' : queue'[a] = queue'[b] => a = b
           /\ \A i \in DOMAIN queue' : queue'[i] = j \/ (i \in DOMAIN queue /\ queue'[i] = queue[i])
           /\ Enqueued(j)'
           /\ \A k \in Jobs : Enqueued(k) => Enqueued(k)'
           /\ \A k \in Jobs : Enqueued(k)' => Enqueued(k) \/ k = j
<1>1. /\ Len(queue) \in Nat /\ DOMAIN queue = 1..Len(queue)
      /\ queue' \in Seq(Jobs) /\ DOMAIN queue' = 1..(Len(queue) + 1)
      /\ queue'[Len(queue) + 1] = j
      /\ \A i \in DOMAIN queue : queue'[i] = queue[i]
  OBVIOUS
<1>2. \A i \in DOMAIN queue' : i = Len(queue) + 1 \/ i \in DOMAIN queue
  BY <1>1
<1>3. \A i \in DOMAIN queue : queue[i] # j
  BY DEF Enqueued
<1>4. \A a, b \in DOMAIN queue' : queue'[a] = queue'[b] => a = b
  BY <1>1, <1>2, <1>3
<1>5. Enqueued(j)' /\ \A k \in Jobs : Enqueued(k) => Enqueued(k)'
  BY <1>1, <1>2 DEF Enqueued
<1>6. \A k \in Jobs : Enqueued(k)' => Enqueued(k) \/ k = j
  BY <1>1, <1>2 DEF Enqueued
<1>7. ASSUME NEW i \in DOMAIN queue'
      PROVE  queue'[i] = j \/ (i \in DOMAIN queue /\ queue'[i] = queue[i])
  <2>1. CASE i \in DOMAIN queue
    BY <1>1, <2>1
  <2>2. CASE i = Len(queue) + 1
    BY <1>1, <2>2
  <2> QED BY <1>2, <2>1, <2>2
<1> QED BY <1>1, <1>4, <1>5, <1>6, <1>7
(***************************************************************************)
(* A queued job that is cancelled keeps its place in the queue.            *)
(***************************************************************************)
LEMMA CancelQueuedStep ==
    ASSUME IInv, NEW j \in Jobs, CancelQueued(j)
    PROVE  IInv'
<1>1. job \in [Jobs -> JobRec] /\ clock' \in Nat
  BY DEF IInv, TypeOK, JobRec, CancelQueued, CancelFuture
<1>2. /\ job' \in [Jobs -> JobRec]
      /\ \A k \in Jobs : k # j => job'[k] = job[k]
      /\ job'[j].status = "cancelled" /\ job'[j].cancelReq = TRUE
  <2>1. job' = [job EXCEPT ![j] = [Flagged(job[j], "cancelled") EXCEPT !.finished = clock']]
    BY DEF CancelQueued
  <2> QED BY <1>1, <2>1, StampJob DEF MemStatus
<1>3. row' \in [Jobs -> Rows]
  BY <1>2, RecordType DEF IInv, TypeOK, RowStatus, CancelQueued, CancelFuture
<1>4. TypeOK'
  BY <1>1, <1>2, <1>3 DEF IInv, TypeOK, JobRec, CancelQueued, CancelFuture, MemStatus, Active, Terminal, Busy, Closing, Answers
<1>5. QueueShape'
  BY <1>1, <1>2, <1>3 DEF IInv, TypeOK, QueueShape, WorkerShape, JobShape, DownShape, Enqueued, CancelQueued, CancelFuture, MemStatus, Active, Terminal, Busy, Closing, Answers
<1>6. WorkerShape'
  BY <1>1, <1>2, <1>3, JobsAssumption DEF IInv, TypeOK, QueueShape, WorkerShape, JobShape, DownShape, Enqueued, CancelQueued, CancelFuture, MemStatus, Active, Terminal, Busy, Closing, Answers
<1>7. JobShape'
  BY <1>1, <1>2, <1>3 DEF IInv, TypeOK, QueueShape, WorkerShape, JobShape, DownShape, Enqueued, CancelQueued, CancelFuture, MemStatus, Active, Terminal, Busy, Closing, Answers
<1>8. DownShape'
  BY <1>1, <1>2, <1>3 DEF IInv, TypeOK, QueueShape, WorkerShape, JobShape, DownShape, CancelQueued, CancelFuture, MemStatus, Active, Terminal, Busy, Closing, Answers
<1> QED BY <1>4, <1>5, <1>6, <1>7, <1>8 DEF IInv

(***************************************************************************)
(* Only the job the worker holds can be flagged while it runs.             *)
(***************************************************************************)
LEMMA CancelRunningStep ==
    ASSUME IInv, NEW j \in Jobs, CancelRunning(j)
    PROVE  IInv'
<1>1. job \in [Jobs -> JobRec] /\ clock' \in Nat
  BY DEF IInv, TypeOK, JobRec, CancelRunning
<1>2. /\ job' \in [Jobs -> JobRec]
      /\ \A k \in Jobs : k # j => job'[k] = job[k]
      /\ job'[j].status = "cancel_requested" /\ job'[j].cancelReq = TRUE
  <2>1. job' = [job EXCEPT ![j] = Flagged(job[j], "cancel_requested")]
    BY DEF CancelRunning
  <2> QED BY <1>1, <2>1, FlagJob DEF MemStatus
<1>3. row' \in [Jobs -> Rows]
  BY <1>2, RecordType DEF IInv, TypeOK, RowStatus, CancelRunning
<1>4. TypeOK'
  BY <1>1, <1>2, <1>3 DEF IInv, TypeOK, JobRec, CancelRunning, MemStatus, Active, Terminal, Busy, Closing, Answers
<1>5. QueueShape'
  BY <1>1, <1>2, <1>3 DEF IInv, TypeOK, QueueShape, WorkerShape, JobShape, DownShape, Enqueued, CancelRunning, MemStatus, Active, Terminal, Busy, Closing, Answers
<1>6. WorkerShape'
  BY <1>1, <1>2, <1>3, JobsAssumption DEF IInv, TypeOK, QueueShape, WorkerShape, JobShape, DownShape, Enqueued, CancelRunning, MemStatus, Active, Terminal, Busy, Closing, Answers
<1>7. JobShape'
  BY <1>1, <1>2, <1>3 DEF IInv, TypeOK, QueueShape, WorkerShape, JobShape, DownShape, Enqueued, CancelRunning, MemStatus, Active, Terminal, Busy, Closing, Answers
<1>8. DownShape'
  BY <1>1, <1>2, <1>3 DEF IInv, TypeOK, QueueShape, WorkerShape, JobShape, DownShape, CancelRunning, MemStatus, Active, Terminal, Busy, Closing, Answers
<1> QED BY <1>4, <1>5, <1>6, <1>7, <1>8 DEF IInv

(***************************************************************************)
(* The worker's CancelledError handler.                                    *)
(***************************************************************************)
LEMMA AbortStep ==
    ASSUME IInv, NEW j \in Jobs, up, j = current, pc \in Busy, Abort(j)
    PROVE  IInv'
<1>1. job \in [Jobs -> JobRec] /\ clock' \in Nat
  BY DEF IInv, TypeOK, JobRec, Abort, CancelFuture
<1>2. /\ job' \in [Jobs -> JobRec]
      /\ \A k \in Jobs : k # j => job'[k] = job[k]
      /\ job'[j].status = "cancelled" /\ job'[j].cancelReq = TRUE
  <2>1. job' = [job EXCEPT ![j] = Flagged(job[j], "cancelled")]
    BY DEF Abort
  <2> QED BY <1>1, <2>1, FlagJob DEF MemStatus
<1>3. row' \in [Jobs -> Rows]
  BY DEF IInv, TypeOK, Abort, CancelFuture
<1>4. TypeOK'
  BY <1>1, <1>2, <1>3 DEF IInv, TypeOK, JobRec, Abort, CancelFuture, MemStatus, Active, Terminal, Busy, Closing, Answers
<1>5. QueueShape'
  BY <1>1, <1>2, <1>3 DEF IInv, TypeOK, QueueShape, WorkerShape, JobShape, DownShape, Enqueued, Abort, CancelFuture, MemStatus, Active, Terminal, Busy, Closing, Answers
<1>6. WorkerShape'
  BY <1>1, <1>2, <1>3, JobsAssumption DEF IInv, TypeOK, QueueShape, WorkerShape, JobShape, DownShape, Enqueued, Abort, CancelFuture, MemStatus, Active, Terminal, Busy, Closing, Answers
<1>7. JobShape'
  BY <1>1, <1>2, <1>3 DEF IInv, TypeOK, QueueShape, WorkerShape, JobShape, DownShape, Enqueued, Abort, CancelFuture, MemStatus, Active, Terminal, Busy, Closing, Answers
<1>8. DownShape'
  BY <1>1, <1>2, <1>3 DEF IInv, TypeOK, QueueShape, WorkerShape, JobShape, DownShape, Abort, CancelFuture, MemStatus, Active, Terminal, Busy, Closing, Answers
<1> QED BY <1>4, <1>5, <1>6, <1>7, <1>8 DEF IInv

-----------------------------------------------------------------------------
(* Each step of the queue keeps IInv. *)

(***************************************************************************)
(* A cancel check that lets the job through read its flag as unset.        *)
(***************************************************************************)
LEMMA CancelSeenFalse ==
    ASSUME NEW j \in Jobs, FALSE \in CancelSeen(j)
    PROVE  ~job[j].cancelReq
BY DEF CancelSeen

(***************************************************************************)
(* A job that failed for good.                                             *)
(***************************************************************************)
LEMMA GiveUpStep ==
    ASSUME IInv, NEW j \in Jobs, up, j = current, pc \in Busy, GiveUp(j)
    PROVE  IInv'
<1>1. job \in [Jobs -> JobRec] /\ clock' \in Nat
  BY DEF IInv, TypeOK, JobRec, GiveUp
<1>2. /\ job' \in [Jobs -> JobRec]
      /\ \A k \in Jobs : k # j => job'[k] = job[k]
      /\ job'[j].status = "failed"
  <2>1. CASE job' = [job EXCEPT ![j].status = "failed"]
    BY <1>1, <2>1 DEF JobRec, MemStatus
  <2>2. CASE job' = [job EXCEPT ![j] = Flagged(job[j], "failed")]
    BY <1>1, <2>2, FlagJob DEF MemStatus
  <2> QED BY <2>1, <2>2 DEF GiveUp
<1>3. row' \in [Jobs -> Rows]
  BY DEF IInv, TypeOK, GiveUp
<1>4. TypeOK'
  BY <1>1, <1>2, <1>3 DEF IInv, TypeOK, JobRec, GiveUp, MemStatus, Active, Terminal, Busy, Closing, Answers
<1>5. QueueShape'
  <2>1. ~Enqueued(j) /\ queue' = queue /\ \A i \in DOMAIN queue : queue[i] \in Jobs
    <3>1. job[j].status \in {"running", "cancel_requested"}
      BY DEF IInv, WorkerShape
    <3>2. ~Enqueued(j)
      BY <3>1 DEF IInv, QueueShape, Enqueued
    <3>3. queue' = queue
      BY DEF GiveUp, Complete
    <3>4. \A i \in DOMAIN queue : queue[i] \in Jobs
      BY DEF IInv, TypeOK
    <3> QED BY <3>2, <3>3, <3>4
  <2>2. \A i \in DOMAIN queue : job'[queue[i]] = job[queue[i]]
    BY <1>2, <2>1 DEF Enqueued
  <2>3. \A k \in Jobs : job'[k].status = "queued" => Enqueued(k)'
    BY <1>2, <2>1 DEF IInv, QueueShape, Enqueued
  <2> QED BY <2>1, <2>2, <2>3 DEF IInv, QueueShape
<1>6. WorkerShape'
  BY <1>1, <1>2, <1>3, JobsAssumption DEF IInv, TypeOK, QueueShape, WorkerShape, JobShape, DownShape, Enqueued, GiveUp, MemStatus, Active, Terminal, Busy, Closing, Answers
<1>7. JobShape'
  BY <1>1, <1>2, <1>3 DEF IInv, TypeOK, QueueShape, WorkerShape, JobShape, DownShape, Enqueued, GiveUp, MemStatus, Active, Terminal, Busy, Closing, Answers
<1>8. DownShape'
  BY <1>1, <1>2, <1>3 DEF IInv, TypeOK, QueueShape, WorkerShape, JobShape, DownShape, GiveUp, MemStatus, Active, Terminal, Busy, Closing, Answers
<1> QED BY <1>4, <1>5, <1>6, <1>7, <1>8 DEF IInv

(***************************************************************************)
(* work_fn returned and nobody asked to cancel.                            *)
(***************************************************************************)
LEMMA CompleteStep ==
    ASSUME IInv, NEW j \in Jobs, up, j = current, pc \in Busy, Complete(j)
    PROVE  IInv'
<1>1. job \in [Jobs -> JobRec] /\ clock' \in Nat
  BY DEF IInv, TypeOK, JobRec, Complete
<1>2. /\ job' \in [Jobs -> JobRec]
      /\ \A k \in Jobs : k # j => job'[k] = job[k]
      /\ job'[j].status = "completed" /\ job'[j].cancelReq = job[j].cancelReq
  BY <1>1 DEF JobRec, MemStatus, Complete
<1>3. row' \in [Jobs -> Rows]
  BY DEF IInv, TypeOK, Complete
<1>a. ~job[j].cancelReq /\ job[j].status \in {"running", "cancel_requested"}
  BY CancelSeenFalse DEF IInv, WorkerShape, Complete
<1>4. TypeOK'
  BY <1>1, <1>2, <1>3, <1>a DEF IInv, TypeOK, JobRec, Complete, MemStatus, Active, Terminal, Busy, Closing, Answers
<1>5. QueueShape'
  <2>1. ~Enqueued(j) /\ queue' = queue /\ \A i \in DOMAIN queue : queue[i] \in Jobs
    <3>1. job[j].status \in {"running", "cancel_requested"}
      BY DEF IInv, WorkerShape
    <3>2. ~Enqueued(j)
      BY <3>1 DEF IInv, QueueShape, Enqueued
    <3>3. queue' = queue
      BY DEF GiveUp, Complete
    <3>4. \A i \in DOMAIN queue : queue[i] \in Jobs
      BY DEF IInv, TypeOK
    <3> QED BY <3>2, <3>3, <3>4
  <2>2. \A i \in DOMAIN queue : job'[queue[i]] = job[queue[i]]
    BY <1>2, <2>1 DEF Enqueued
  <2>3. \A k \in Jobs : job'[k].status = "queued" => Enqueued(k)'
    BY <1>2, <2>1 DEF IInv, QueueShape, Enqueued
  <2> QED BY <2>1, <2>2, <2>3 DEF IInv, QueueShape
<1>6. WorkerShape'
  BY <1>1, <1>2, <1>3, <1>a, JobsAssumption DEF IInv, TypeOK, QueueShape, WorkerShape, JobShape, DownShape, Enqueued, Complete, MemStatus, Active, Terminal, Busy, Closing, Answers
<1>7. JobShape'
  BY <1>1, <1>2, <1>3, <1>a DEF IInv, TypeOK, QueueShape, WorkerShape, JobShape, DownShape, Enqueued, Complete, MemStatus, Active, Terminal, Busy, Closing, Answers
<1>8. DownShape'
  BY <1>1, <1>2, <1>3, <1>a DEF IInv, TypeOK, QueueShape, WorkerShape, JobShape, DownShape, Complete, MemStatus, Active, Terminal, Busy, Closing, Answers
<1> QED BY <1>4, <1>5, <1>6, <1>7, <1>8 DEF IInv

(***************************************************************************)
(* From one await of the try block to the next.                            *)
(***************************************************************************)
LEMMA MoveStep ==
    ASSUME IInv, NEW j \in Jobs, up, j = current, pc \in Busy, pc' \in Busy,
           UNCHANGED <<job, retained, queue, current, fut, row, clock, up, restarts>>
    PROVE  IInv'
<1>1. job \in [Jobs -> JobRec] /\ clock' \in Nat
  BY DEF IInv, TypeOK, JobRec, Busy
<1>2. job' = job
  BY DEF Busy
<1>3. row' \in [Jobs -> Rows]
  BY DEF IInv, TypeOK, Busy
<1>4. TypeOK'
  BY <1>1, <1>2, <1>3 DEF IInv, TypeOK, JobRec, Busy, MemStatus, Active, Terminal, Busy, Closing, Answers
<1>5. QueueShape'
  BY <1>1, <1>2, <1>3 DEF IInv, TypeOK, QueueShape, WorkerShape, JobShape, DownShape, Enqueued, Busy, MemStatus, Active, Terminal, Busy, Closing, Answers
<1>6. WorkerShape'
  BY <1>1, <1>2, <1>3, JobsAssumption DEF IInv, TypeOK, QueueShape, WorkerShape, JobShape, DownShape, Enqueued, Busy, MemStatus, Active, Terminal, Busy, Closing, Answers
<1>7. JobShape'
  BY <1>1, <1>2, <1>3 DEF IInv, TypeOK, QueueShape, WorkerShape, JobShape, DownShape, Enqueued, Busy, MemStatus, Active, Terminal, Busy, Closing, Answers
<1>8. DownShape'
  BY <1>1, <1>2, <1>3 DEF IInv, TypeOK, QueueShape, WorkerShape, JobShape, DownShape, Busy, MemStatus, Active, Terminal, Busy, Closing, Answers
<1> QED BY <1>4, <1>5, <1>6, <1>7, <1>8 DEF IInv

(***************************************************************************)
(* The finally block stamps and releases the job.                          *)
(***************************************************************************)
LEMMA CloseStep ==
    ASSUME IInv, NEW j \in Jobs, Close(j)
    PROVE  IInv'
<1>1. job \in [Jobs -> JobRec] /\ clock' \in Nat
  BY DEF IInv, TypeOK, JobRec, Close
<1>2. /\ job' \in [Jobs -> JobRec]
      /\ \A k \in Jobs : k # j => job'[k] = job[k]
      /\ job'[j].status = job[j].status /\ job'[j].cancelReq = job[j].cancelReq
  BY <1>1 DEF JobRec, MemStatus, Close
<1>3. row' \in [Jobs -> Rows]
  BY <1>1, <1>2, RecordType DEF IInv, TypeOK, RowStatus, QueueShape, WorkerShape, JobShape, DownShape, MemStatus, Active, Terminal, Busy, Closing, Answers, Close
<1>4. TypeOK'
  BY <1>1, <1>2, <1>3 DEF IInv, TypeOK, JobRec, Close, MemStatus, Active, Terminal, Busy, Closing, Answers
<1>5. QueueShape'
  BY <1>1, <1>2, <1>3 DEF IInv, TypeOK, QueueShape, WorkerShape, JobShape, DownShape, Enqueued, Close, MemStatus, Active, Terminal, Busy, Closing, Answers
<1>6. WorkerShape'
  BY <1>1, <1>2, <1>3, JobsAssumption DEF IInv, TypeOK, QueueShape, WorkerShape, JobShape, DownShape, Enqueued, Close, MemStatus, Active, Terminal, Busy, Closing, Answers
<1>7. JobShape'
  BY <1>1, <1>2, <1>3 DEF IInv, TypeOK, QueueShape, WorkerShape, JobShape, DownShape, Enqueued, Close, MemStatus, Active, Terminal, Busy, Closing, Answers
<1>8. DownShape'
  BY <1>1, <1>2, <1>3 DEF IInv, TypeOK, QueueShape, WorkerShape, JobShape, DownShape, Close, MemStatus, Active, Terminal, Busy, Closing, Answers
<1> QED BY <1>4, <1>5, <1>6, <1>7, <1>8 DEF IInv

(***************************************************************************)
(* The finally block releases a job that is queued again.                  *)
(***************************************************************************)
LEMMA RequeuedStep ==
    ASSUME IInv, NEW j \in Jobs, Requeued(j)
    PROVE  IInv'
<1>1. job \in [Jobs -> JobRec] /\ clock' \in Nat
  BY DEF IInv, TypeOK, JobRec, Requeued
<1>2. job' = job
  BY DEF Requeued
<1>3. row' \in [Jobs -> Rows]
  BY DEF IInv, TypeOK, Requeued
<1>4. TypeOK'
  BY <1>1, <1>2, <1>3 DEF IInv, TypeOK, JobRec, Requeued, MemStatus, Active, Terminal, Busy, Closing, Answers
<1>5. QueueShape'
  BY <1>1, <1>2, <1>3 DEF IInv, TypeOK, QueueShape, WorkerShape, JobShape, DownShape, Enqueued, Requeued, MemStatus, Active, Terminal, Busy, Closing, Answers
<1>6. WorkerShape'
  BY <1>1, <1>2, <1>3, JobsAssumption DEF IInv, TypeOK, QueueShape, WorkerShape, JobShape, DownShape, Enqueued, Requeued, MemStatus, Active, Terminal, Busy, Closing, Answers
<1>7. JobShape'
  BY <1>1, <1>2, <1>3 DEF IInv, TypeOK, QueueShape, WorkerShape, JobShape, DownShape, Enqueued, Requeued, MemStatus, Active, Terminal, Busy, Closing, Answers
<1>8. DownShape'
  BY <1>1, <1>2, <1>3 DEF IInv, TypeOK, QueueShape, WorkerShape, JobShape, DownShape, Requeued, MemStatus, Active, Terminal, Busy, Closing, Answers
<1> QED BY <1>4, <1>5, <1>6, <1>7, <1>8 DEF IInv

(***************************************************************************)
(* A heartbeat rewrites the row of the running job.                        *)
(***************************************************************************)
LEMMA HeartbeatStep ==
    ASSUME IInv, NEW j \in Jobs, Heartbeat(j)
    PROVE  IInv'
<1>1. job \in [Jobs -> JobRec] /\ clock' \in Nat
  BY DEF IInv, TypeOK, JobRec, Heartbeat
<1>2. job' = job
  BY DEF Heartbeat
<1>3. row' \in [Jobs -> Rows]
  BY <1>1, <1>2, RecordType DEF IInv, TypeOK, RowStatus, QueueShape, WorkerShape, JobShape, DownShape, MemStatus, Active, Terminal, Busy, Closing, Answers, Heartbeat
<1>4. TypeOK'
  BY <1>1, <1>2, <1>3 DEF IInv, TypeOK, JobRec, Heartbeat, MemStatus, Active, Terminal, Busy, Closing, Answers
<1>5. QueueShape'
  BY <1>1, <1>2, <1>3 DEF IInv, TypeOK, QueueShape, WorkerShape, JobShape, DownShape, Enqueued, Heartbeat, MemStatus, Active, Terminal, Busy, Closing, Answers
<1>6. WorkerShape'
  BY <1>1, <1>2, <1>3, JobsAssumption DEF IInv, TypeOK, QueueShape, WorkerShape, JobShape, DownShape, Enqueued, Heartbeat, MemStatus, Active, Terminal, Busy, Closing, Answers
<1>7. JobShape'
  BY <1>1, <1>2, <1>3 DEF IInv, TypeOK, QueueShape, WorkerShape, JobShape, DownShape, Enqueued, Heartbeat, MemStatus, Active, Terminal, Busy, Closing, Answers
<1>8. DownShape'
  BY <1>1, <1>2, <1>3 DEF IInv, TypeOK, QueueShape, WorkerShape, JobShape, DownShape, Heartbeat, MemStatus, Active, Terminal, Busy, Closing, Answers
<1> QED BY <1>4, <1>5, <1>6, <1>7, <1>8 DEF IInv

(***************************************************************************)
(* A caller that goes away only loses its future.                          *)
(***************************************************************************)
LEMMA CallerLeavesStep ==
    ASSUME IInv, NEW j \in Jobs, CallerLeaves(j)
    PROVE  IInv'
<1>1. job \in [Jobs -> JobRec] /\ clock' \in Nat
  BY DEF IInv, TypeOK, JobRec, CallerLeaves
<1>2. job' = job
  BY DEF CallerLeaves
<1>3. row' \in [Jobs -> Rows]
  BY DEF IInv, TypeOK, CallerLeaves
<1>4. TypeOK'
  BY <1>1, <1>2, <1>3 DEF IInv, TypeOK, JobRec, CallerLeaves, MemStatus, Active, Terminal, Busy, Closing, Answers
<1>5. QueueShape'
  BY <1>1, <1>2, <1>3 DEF IInv, TypeOK, QueueShape, WorkerShape, JobShape, DownShape, Enqueued, CallerLeaves, MemStatus, Active, Terminal, Busy, Closing, Answers
<1>6. WorkerShape'
  BY <1>1, <1>2, <1>3, JobsAssumption DEF IInv, TypeOK, QueueShape, WorkerShape, JobShape, DownShape, Enqueued, CallerLeaves, MemStatus, Active, Terminal, Busy, Closing, Answers
<1>7. JobShape'
  BY <1>1, <1>2, <1>3 DEF IInv, TypeOK, QueueShape, WorkerShape, JobShape, DownShape, Enqueued, CallerLeaves, MemStatus, Active, Terminal, Busy, Closing, Answers
<1>8. DownShape'
  BY <1>1, <1>2, <1>3 DEF IInv, TypeOK, QueueShape, WorkerShape, JobShape, DownShape, CallerLeaves, MemStatus, Active, Terminal, Busy, Closing, Answers
<1> QED BY <1>4, <1>5, <1>6, <1>7, <1>8 DEF IInv

(***************************************************************************)
(* A cancel through the database touches nothing but the row.              *)
(***************************************************************************)
LEMMA CancelByRowStep ==
    ASSUME IInv, NEW j \in Jobs, CancelByRow(j)
    PROVE  IInv'
<1>1. job \in [Jobs -> JobRec] /\ clock' \in Nat
  BY DEF IInv, TypeOK, JobRec, CancelByRow
<1>2. job' = job
  BY DEF CancelByRow
<1>3. row' \in [Jobs -> Rows]
  BY RowStatements DEF IInv, TypeOK, CancelByRow, RowStatus
<1>4. TypeOK'
  BY <1>1, <1>2, <1>3 DEF IInv, TypeOK, JobRec, CancelByRow, MemStatus, Active, Terminal, Busy, Closing, Answers
<1>5. QueueShape'
  BY <1>1, <1>2, <1>3 DEF IInv, TypeOK, QueueShape, WorkerShape, JobShape, DownShape, Enqueued, CancelByRow, MemStatus, Active, Terminal, Busy, Closing, Answers
<1>6. WorkerShape'
  BY <1>1, <1>2, <1>3, JobsAssumption DEF IInv, TypeOK, QueueShape, WorkerShape, JobShape, DownShape, Enqueued, CancelByRow, MemStatus, Active, Terminal, Busy, Closing, Answers
<1>7. JobShape'
  BY <1>1, <1>2, <1>3 DEF IInv, TypeOK, QueueShape, WorkerShape, JobShape, DownShape, Enqueued, CancelByRow, MemStatus, Active, Terminal, Busy, Closing, Answers
<1>8. DownShape'
  BY <1>1, <1>2, <1>3 DEF IInv, TypeOK, QueueShape, WorkerShape, JobShape, DownShape, CancelByRow, MemStatus, Active, Terminal, Busy, Closing, Answers
<1> QED BY <1>4, <1>5, <1>6, <1>7, <1>8 DEF IInv

(***************************************************************************)
(* The worker drops a job that was cancelled while it waited.              *)
(***************************************************************************)
LEMMA SkipStep ==
    ASSUME IInv, NEW j \in Jobs, Skip(j)
    PROVE  IInv'
<1>1. job \in [Jobs -> JobRec] /\ clock' \in Nat
  BY DEF IInv, TypeOK, JobRec, Skip
<1>2. /\ job' \in [Jobs -> JobRec]
      /\ \A k \in Jobs : k # j => job'[k] = job[k]
      /\ job'[j].status = "cancelled" /\ job'[j].cancelReq = TRUE
  <2>1. job' = [job EXCEPT ![j] = [Flagged(job[j], "cancelled") EXCEPT !.finished = clock']]
    BY DEF Skip
  <2> QED BY <1>1, <2>1, StampJob DEF MemStatus
<1>3. row' \in [Jobs -> Rows]
  BY <1>1, <1>2, RecordType DEF IInv, TypeOK, RowStatus, QueueShape, WorkerShape, JobShape, DownShape, MemStatus, Active, Terminal, Busy, Closing, Answers, Skip
<1>a. /\ queue' \in Seq(Jobs)
      /\ \A a, b \in DOMAIN queue' : queue'[a] = queue'[b] => a = b
      /\ \A i \in DOMAIN queue' : queue'[i] # j /\ Enqueued(queue'[i])
      /\ \A k \in Jobs : Enqueued(k) /\ k # j => Enqueued(k)'
  BY TailEnqueued DEF IInv, TypeOK, QueueShape, Skip
<1>4. TypeOK'
  BY <1>1, <1>2, <1>3, <1>a DEF IInv, TypeOK, JobRec, Skip, MemStatus, Active, Terminal, Busy, Closing, Answers
<1>5. QueueShape'
  <2>1. \A k \in Jobs : Enqueued(k) => job[k].status \in {"queued", "cancelled"}
    BY DEF IInv, QueueShape, Enqueued
  <2>2. \A i \in DOMAIN queue' : queue'[i] \in Jobs
    BY <1>a
  <2>3. \A i \in DOMAIN queue' : job'[queue'[i]].status \in {"queued", "cancelled"}
    BY <1>2, <1>a, <2>1, <2>2 DEF Enqueued
  <2>4. \A k \in Jobs : job'[k].status = "queued" => Enqueued(k)'
    BY <1>2, <1>a DEF IInv, QueueShape
  <2> QED BY <1>a, <2>3, <2>4 DEF QueueShape
<1>6. WorkerShape'
  BY <1>1, <1>2, <1>3, <1>a, JobsAssumption DEF IInv, TypeOK, QueueShape, WorkerShape, JobShape, DownShape, Skip, MemStatus, Active, Terminal, Busy, Closing, Answers
<1>7. JobShape'
  BY <1>1, <1>2, <1>3, <1>a DEF IInv, TypeOK, QueueShape, WorkerShape, JobShape, DownShape, Enqueued, Skip, MemStatus, Active, Terminal, Busy, Closing, Answers
<1>8. DownShape'
  BY <1>1, <1>2, <1>3, <1>a DEF IInv, TypeOK, QueueShape, WorkerShape, JobShape, DownShape, Skip, MemStatus, Active, Terminal, Busy, Closing, Answers
<1> QED BY <1>4, <1>5, <1>6, <1>7, <1>8 DEF IInv

(***************************************************************************)
(* The worker takes the head of the queue.                                 *)
(***************************************************************************)
LEMMA StartStep ==
    ASSUME IInv, NEW j \in Jobs, Start(j)
    PROVE  IInv'
<1>1. job \in [Jobs -> JobRec] /\ clock' \in Nat
  BY DEF IInv, TypeOK, JobRec, Start
<1>2. /\ job' \in [Jobs -> JobRec]
      /\ \A k \in Jobs : k # j => job'[k] = job[k]
      /\ job'[j].status = "running" /\ job'[j].cancelReq = job[j].cancelReq
  BY <1>1 DEF JobRec, MemStatus, Start
<1>3. row' \in [Jobs -> Rows]
  BY <1>1, <1>2, RecordType DEF IInv, TypeOK, RowStatus, QueueShape, WorkerShape, JobShape, DownShape, MemStatus, Active, Terminal, Busy, Closing, Answers, Start
<1>a. /\ queue' \in Seq(Jobs)
      /\ \A a, b \in DOMAIN queue' : queue'[a] = queue'[b] => a = b
      /\ \A i \in DOMAIN queue' : queue'[i] # j /\ Enqueued(queue'[i])
      /\ \A k \in Jobs : Enqueued(k) /\ k # j => Enqueued(k)'
      /\ ~Enqueued(j)'
  BY TailEnqueued DEF IInv, TypeOK, QueueShape, Start
<1>4. TypeOK'
  BY <1>1, <1>2, <1>3, <1>a DEF IInv, TypeOK, JobRec, Start, MemStatus, Active, Terminal, Busy, Closing, Answers
<1>5. QueueShape'
  <2>1. \A k \in Jobs : Enqueued(k) => job[k].status \in {"queued", "cancelled"}
    BY DEF IInv, QueueShape, Enqueued
  <2>2. \A i \in DOMAIN queue' : queue'[i] \in Jobs
    BY <1>a
  <2>3. \A i \in DOMAIN queue' : job'[queue'[i]].status \in {"queued", "cancelled"}
    BY <1>2, <1>a, <2>1, <2>2 DEF Enqueued
  <2>4. \A k \in Jobs : job'[k].status = "queued" => Enqueued(k)'
    BY <1>2, <1>a DEF IInv, QueueShape
  <2> QED BY <1>a, <2>3, <2>4 DEF QueueShape
<1>6. WorkerShape'
  BY <1>1, <1>2, <1>3, <1>a, JobsAssumption DEF IInv, TypeOK, QueueShape, WorkerShape, JobShape, DownShape, Start, MemStatus, Active, Terminal, Busy, Closing, Answers
<1>7. JobShape'
  <2>1. ~job[j].cancelReq
    BY CancelSeenFalse DEF Start
  <2>2. Enqueued(j)
    BY DEF Start, Enqueued, IInv, TypeOK
  <2>3. job[j].status = "queued"
    BY <2>1, <2>2 DEF IInv, QueueShape, JobShape, Enqueued
  <2>4. j \in retained /\ fut[j] \in {"pending", "cancelled"}
    BY <2>3 DEF IInv, JobShape, Active
  <2>5. retained' = retained /\ fut' = fut
    BY DEF Start
  <2> QED BY <1>2, <2>1, <2>4, <2>5 DEF IInv, JobShape, Active
<1>8. DownShape'
  BY <1>1, <1>2, <1>3, <1>a DEF IInv, TypeOK, QueueShape, WorkerShape, JobShape, DownShape, Start, MemStatus, Active, Terminal, Busy, Closing, Answers
<1> QED BY <1>4, <1>5, <1>6, <1>7, <1>8 DEF IInv

(***************************************************************************)
(* A new job joins the tail of the queue.                                  *)
(***************************************************************************)
LEMMA SubmitStep ==
    ASSUME IInv, NEW j \in Jobs, Submit(j)
    PROVE  IInv'
<1>1. job \in [Jobs -> JobRec] /\ clock' \in Nat
  BY DEF IInv, TypeOK, JobRec, Submit
<1>2. /\ job' \in [Jobs -> JobRec]
      /\ \A k \in Jobs : k # j => job'[k] = job[k]
      /\ job'[j].status = "queued" /\ job'[j].cancelReq = job[j].cancelReq
  BY <1>1 DEF JobRec, MemStatus, Submit
<1>3. row' \in [Jobs -> Rows]
  BY <1>1, <1>2, RecordType DEF IInv, TypeOK, RowStatus, QueueShape, WorkerShape, JobShape, DownShape, MemStatus, Active, Terminal, Busy, Closing, Answers, Submit
<1>a. /\ queue' \in Seq(Jobs)
      /\ \A a, b \in DOMAIN queue' : queue'[a] = queue'[b] => a = b
      /\ \A i \in DOMAIN queue' : queue'[i] = j \/ (i \in DOMAIN queue /\ queue'[i] = queue[i])
      /\ Enqueued(j)'
      /\ \A k \in Jobs : Enqueued(k) => Enqueued(k)'
      /\ \A k \in Jobs : Enqueued(k)' => Enqueued(k) \/ k = j
  <2>1. ~Enqueued(j)
    BY DEF IInv, QueueShape, Submit, Enqueued
  <2> QED BY <2>1, AppendEnqueued DEF IInv, TypeOK, QueueShape, Submit
<1>b. retained' \subseteq Jobs /\ \A k \in retained \cup {j} : job'[k].status \in Active => k \in retained'
  BY DEF Submit, EvictOld, Done, Terminal, Active, IInv, TypeOK
<1>4. TypeOK'
  BY <1>1, <1>2, <1>3, <1>a, <1>b DEF IInv, TypeOK, JobRec, Submit, MemStatus, Active, Terminal, Busy, Closing, Answers
<1>5. QueueShape'
  <2>1. \A k \in Jobs : Enqueued(k) => job[k].status \in {"queued", "cancelled"}
    BY DEF IInv, QueueShape, Enqueued
  <2>2. \A i \in DOMAIN queue' : queue'[i] \in Jobs
    BY <1>a
  <2>3. \A i \in DOMAIN queue' : job'[queue'[i]].status \in {"queued", "cancelled"}
    BY <1>2, <1>a, <2>1, <2>2 DEF Enqueued
  <2>4. \A k \in Jobs : job'[k].status = "queued" => Enqueued(k)'
    BY <1>2, <1>a DEF IInv, QueueShape
  <2> QED BY <1>a, <2>3, <2>4 DEF QueueShape
<1>6. WorkerShape'
  BY <1>1, <1>2, <1>3, <1>a, <1>b, JobsAssumption DEF IInv, TypeOK, QueueShape, WorkerShape, JobShape, DownShape, Submit, MemStatus, Active, Terminal, Busy, Closing, Answers
<1>7. JobShape'
  BY <1>1, <1>2, <1>3, <1>a, <1>b DEF IInv, TypeOK, QueueShape, WorkerShape, JobShape, DownShape, Enqueued, Submit, MemStatus, Active, Terminal, Busy, Closing, Answers
<1>8. DownShape'
  BY <1>1, <1>2, <1>3, <1>a, <1>b DEF IInv, TypeOK, QueueShape, WorkerShape, JobShape, DownShape, Submit, MemStatus, Active, Terminal, Busy, Closing, Answers
<1> QED BY <1>4, <1>5, <1>6, <1>7, <1>8 DEF IInv

(***************************************************************************)
(* A failed job with attempts left goes back to the tail.                  *)
(***************************************************************************)
LEMMA RetryStep ==
    ASSUME IInv, NEW j \in Jobs, up, j = current, pc \in Busy, Retry(j)
    PROVE  IInv'
<1>1. job \in [Jobs -> JobRec] /\ clock' \in Nat
  BY DEF IInv, TypeOK, JobRec, Retry
<1>2. /\ job' \in [Jobs -> JobRec]
      /\ \A k \in Jobs : k # j => job'[k] = job[k]
      /\ job'[j].status = "queued" /\ job'[j].cancelReq = job[j].cancelReq
  BY <1>1 DEF JobRec, MemStatus, Retry
<1>3. row' \in [Jobs -> Rows]
  BY <1>1, <1>2, RecordType DEF IInv, TypeOK, RowStatus, QueueShape, WorkerShape, JobShape, DownShape, MemStatus, Active, Terminal, Busy, Closing, Answers, Retry
<1>a. /\ queue' \in Seq(Jobs)
      /\ \A a, b \in DOMAIN queue' : queue'[a] = queue'[b] => a = b
      /\ \A i \in DOMAIN queue' : queue'[i] = j \/ (i \in DOMAIN queue /\ queue'[i] = queue[i])
      /\ Enqueued(j)'
      /\ \A k \in Jobs : Enqueued(k) => Enqueued(k)'
      /\ \A k \in Jobs : Enqueued(k)' => Enqueued(k) \/ k = j
  <2>1. ~Enqueued(j)
    BY DEF IInv, QueueShape, WorkerShape, Enqueued, Busy
  <2> QED BY <2>1, AppendEnqueued DEF IInv, TypeOK, QueueShape, Retry
<1>b. ~job[j].cancelReq /\ job[j].status \in {"running", "cancel_requested"}
  BY CancelSeenFalse DEF IInv, WorkerShape, Retry
<1>4. TypeOK'
  BY <1>1, <1>2, <1>3, <1>a, <1>b DEF IInv, TypeOK, JobRec, Retry, MemStatus, Active, Terminal, Busy, Closing, Answers
<1>5. QueueShape'
  <2>1. \A k \in Jobs : Enqueued(k) => job[k].status \in {"queued", "cancelled"}
    BY DEF IInv, QueueShape, Enqueued
  <2>2. \A i \in DOMAIN queue' : queue'[i] \in Jobs
    BY <1>a
  <2>3. \A i \in DOMAIN queue' : job'[queue'[i]].status \in {"queued", "cancelled"}
    BY <1>2, <1>a, <2>1, <2>2 DEF Enqueued
  <2>4. \A k \in Jobs : job'[k].status = "queued" => Enqueued(k)'
    BY <1>2, <1>a DEF IInv, QueueShape
  <2> QED BY <1>a, <2>3, <2>4 DEF QueueShape
<1>6. WorkerShape'
  BY <1>1, <1>2, <1>3, <1>a, <1>b, JobsAssumption DEF IInv, TypeOK, QueueShape, WorkerShape, JobShape, DownShape, Retry, MemStatus, Active, Terminal, Busy, Closing, Answers
<1>7. JobShape'
  BY <1>1, <1>2, <1>3, <1>a, <1>b DEF IInv, TypeOK, QueueShape, WorkerShape, JobShape, DownShape, Enqueued, Retry, MemStatus, Active, Terminal, Busy, Closing, Answers
<1>8. DownShape'
  BY <1>1, <1>2, <1>3, <1>a, <1>b DEF IInv, TypeOK, QueueShape, WorkerShape, JobShape, DownShape, Retry, MemStatus, Active, Terminal, Busy, Closing, Answers
<1> QED BY <1>4, <1>5, <1>6, <1>7, <1>8 DEF IInv

(***************************************************************************)
(* The process dies: everything it knew is gone.                           *)
(***************************************************************************)
LEMMA CrashStep ==
    ASSUME IInv, Crash
    PROVE  IInv'
<1>1. \A j \in Jobs : job'[j].status \in {"new", "lost"} /\ ~job'[j].cancelReq
  BY DEF Crash, FreshJob
<1>2. \A j \in Jobs : job'[j].status = "new" => job[j].status = "new"
  BY DEF Crash, FreshJob
<1>3. TypeOK'
  <2>1. FreshJob \in JobRec /\ [FreshJob EXCEPT !.status = "lost"] \in JobRec
    BY DEF FreshJob, JobRec, MemStatus
  <2>2. job' \in [Jobs -> JobRec]
    BY <2>1 DEF Crash
  <2>3. fut' \in [Jobs -> Answers]
    BY DEF Crash, IInv, TypeOK, Answers
  <2>4. restarts' \in 0..MaxRestarts
    BY LimitsAssumption DEF Crash, IInv, TypeOK
  <2>5. queue' \in Seq(Jobs) /\ retained' \subseteq Jobs /\ pc' = "idle" /\ current' = NoJob
    BY DEF Crash
  <2>6. row' \in [Jobs -> Rows] /\ clock' \in Nat /\ up' \in BOOLEAN
    BY DEF Crash, IInv, TypeOK
  <2> QED BY <2>2, <2>3, <2>4, <2>5, <2>6 DEF TypeOK, JobRec
<1>4. QueueShape'
  BY <1>1 DEF Crash, QueueShape
<1>5. WorkerShape'
  BY <1>1, JobsAssumption DEF Crash, WorkerShape, Busy, IInv, TypeOK
<1>6. JobShape'
  BY <1>1, <1>2 DEF Crash, JobShape, IInv, Active
<1>7. DownShape'
  BY <1>1 DEF Crash, DownShape
<1> QED BY <1>3, <1>4, <1>5, <1>6, <1>7 DEF IInv

(***************************************************************************)
(* The new process starts with the rows it finds.                          *)
(***************************************************************************)
LEMMA StartupStep ==
    ASSUME IInv, Startup
    PROVE  IInv'
<1>1. row' \in [Jobs -> Rows]
  <2>1. \A j \in Jobs : Interrupt(row[j]) \in Rows
    BY RowStatements DEF IInv, TypeOK, RowStatus
  <2> QED BY <2>1 DEF Startup
<1>2. TypeOK'
  BY <1>1 DEF IInv, TypeOK, Startup
<1>3. QueueShape' /\ WorkerShape' /\ JobShape' /\ DownShape'
  BY DEF IInv, Startup, QueueShape, WorkerShape, JobShape, DownShape, Enqueued
<1> QED BY <1>2, <1>3 DEF IInv

(***************************************************************************)
(* The worker's exits and moves, put together from the steps above.        *)
(***************************************************************************)
LEMMA RaisesStep ==
    ASSUME IInv, NEW j \in Jobs, up, j = current, pc \in Busy, Raises(j)
    PROVE  IInv'
BY RetryStep, GiveUpStep DEF Raises

(***************************************************************************)
(* A cancel check followed by the next await.                              *)
(***************************************************************************)
LEMMA ProceedStep ==
    ASSUME IInv, NEW j \in Jobs, NEW from \in Busy, NEW to \in Busy,
           Proceed(j, from, to)
    PROVE  IInv'
<1>1. up /\ j = current /\ pc \in Busy
  BY DEF Proceed
<1>2. CASE Abort(j)
  BY <1>1, <1>2, AbortStep
<1>3. CASE pc' = to /\ UNCHANGED <<job, retained, queue, current, fut, row, clock, up, restarts>>
  BY <1>1, <1>3, MoveStep
<1> QED BY <1>2, <1>3 DEF Proceed

(***************************************************************************)
(* Every step of the worker keeps IInv.                                    *)
(***************************************************************************)
LEMMA WorkerStep ==
    ASSUME IInv, NEW j \in Jobs, Worker(j)
    PROVE  IInv'
<1>1. CASE Skip(j)
  BY <1>1, SkipStep
<1>2. CASE Start(j)
  BY <1>2, StartStep
<1>3. CASE Unloaded(j)
  BY <1>3, ProceedStep DEF Unloaded, Busy
<1>4. CASE Admitted(j)
  BY <1>4, ProceedStep DEF Admitted, Busy
<1>5. CASE Denied(j)
  BY <1>5, RaisesStep DEF Denied, Busy
<1>6. CASE SelfUnload(j)
  BY <1>6, MoveStep DEF SelfUnload, Busy
<1>7. CASE SelfUnloaded(j)
  <2>1. up /\ j = current /\ pc \in Busy
    BY <1>7 DEF SelfUnloaded, Busy
  <2>2. CASE Raises(j)
    BY <2>1, <2>2, RaisesStep
  <2>3. CASE pc' = "rechecking" /\ UNCHANGED <<job, retained, queue, current, fut, row, clock, up, restarts>>
    BY <2>1, <2>3, MoveStep DEF Busy
  <2> QED BY <1>7, <2>2, <2>3 DEF SelfUnloaded
<1>8. CASE WorkReturns(j)
  BY <1>8, AbortStep, CompleteStep DEF WorkReturns, Busy
<1>9. CASE WorkRaises(j)
  BY <1>9, AbortStep, RaisesStep DEF WorkRaises, Busy
<1>10. CASE Close(j)
  BY <1>10, CloseStep
<1>11. CASE Requeued(j)
  BY <1>11, RequeuedStep
<1> QED
  BY <1>1, <1>2, <1>3, <1>4, <1>5, <1>6, <1>7, <1>8, <1>9, <1>10, <1>11 DEF Worker

(***************************************************************************)
(* The three facts of the inductive invariant.                             *)
(***************************************************************************)
LEMMA InitIInv == Init => IInv
<1> SUFFICES ASSUME Init PROVE IInv
  OBVIOUS
<1>1. TypeOK
  <2>1. FreshJob \in JobRec /\ NoRow \in Rows
    BY DEF FreshJob, JobRec, MemStatus, NoRow, Rows, RowStatus
  <2> QED BY <2>1, LimitsAssumption DEF Init, TypeOK, JobRec, Answers
<1>2. QueueShape /\ WorkerShape /\ JobShape /\ DownShape
  BY JobsAssumption
  DEF Init, FreshJob, QueueShape, WorkerShape, JobShape, DownShape, Busy, Active
<1> QED BY <1>1, <1>2 DEF IInv

(***************************************************************************)
(* Every step of the queue keeps IInv.                                     *)
(***************************************************************************)
LEMMA NextIInv == IInv /\ [Next]_vars => IInv'
<1> SUFFICES ASSUME IInv, [Next]_vars PROVE IInv'
  OBVIOUS
<1>1. ASSUME NEW j \in Jobs,
             \/ Submit(j) \/ CancelQueued(j) \/ CancelRunning(j)
             \/ CancelByRow(j) \/ CallerLeaves(j) \/ Worker(j) \/ Heartbeat(j)
      PROVE  IInv'
  BY <1>1, SubmitStep, CancelQueuedStep, CancelRunningStep, CancelByRowStep,
     CallerLeavesStep, WorkerStep, HeartbeatStep
<1>2. CASE Crash
  BY <1>2, CrashStep
<1>3. CASE Startup
  BY <1>3, StartupStep
<1>4. CASE UNCHANGED vars
  BY <1>4 DEF vars, IInv, TypeOK, QueueShape, WorkerShape, JobShape, DownShape, Enqueued
<1> QED BY <1>1, <1>2, <1>3, <1>4 DEF Next

(***************************************************************************)
(* IInv holds in every reachable state.                                    *)
(***************************************************************************)
LEMMA IInvHolds == Spec => []IInv
<1> QED BY InitIInv, NextIInv, PTL DEF Spec

(***************************************************************************)
(* The state of the queue, the futures and the rows keeps its types.       *)
(***************************************************************************)
THEOREM TypeCorrect == Spec => []TypeOK
<1>1. IInv => TypeOK
  BY DEF IInv
<1> QED BY <1>1, IInvHolds, PTL

(***************************************************************************)
(* No job is lost between queue and worker: a queued job is in the queue   *)
(* exactly once, a running one is the worker's, and both can be cancelled. *)
(***************************************************************************)
THEOREM NothingIsLost == Spec => []NothingLost
<1>1. IInv => NothingLost
  <2> SUFFICES ASSUME IInv PROVE NothingLost
    OBVIOUS
  <2>1. \A j \in Jobs :
          /\ job[j].status = "queued" => Enqueued(j)
          /\ job[j].status \in {"running", "cancel_requested"} => j = current
          /\ job[j].status \in Active => j \in retained
    BY DEF IInv, QueueShape, WorkerShape, JobShape
  <2>2. \A a, b \in DOMAIN queue : queue[a] = queue[b] => a = b
    BY DEF IInv, QueueShape
  <2>3. ASSUME current # NoJob, Enqueued(current)
        PROVE  pc = "requeueing"
    <3>1. current \in Jobs /\ pc \in Busy \cup Closing
      BY <2>3 DEF IInv, TypeOK, WorkerShape
    <3>2. job[current].status \in {"queued", "cancelled"}
      BY <2>3 DEF IInv, QueueShape, Enqueued
    <3>3. pc \notin Busy
      BY <3>1, <3>2 DEF IInv, WorkerShape
    <3>4. pc # "closing"
      BY <2>3, <3>1 DEF IInv, WorkerShape
    <3> QED BY <3>1, <3>3, <3>4 DEF Closing
  <2> QED BY <2>1, <2>2, <2>3 DEF NothingLost
<1> QED BY <1>1, IInvHolds, PTL

(***************************************************************************)
(* A job told to cancel is never completed and never hands out a result.   *)
(***************************************************************************)
THEOREM CancelAlwaysWins == Spec => []CancelWins
<1>1. IInv => CancelWins
  <2> SUFFICES ASSUME IInv, NEW j \in Jobs, job[j].cancelReq
               PROVE  job[j].status # "completed" /\ fut[j] # "result"
    BY DEF CancelWins
  <2>1. job[j].status \in MemStatus
    BY DEF IInv, TypeOK
  <2>2. job[j].status \notin {"new", "queued", "lost", "completed"}
    BY DEF IInv, JobShape
  <2>3. job[j].status \in {"running", "cancel_requested", "failed", "cancelled"}
    BY <2>1, <2>2 DEF MemStatus
  <2> QED BY <2>3 DEF IInv, JobShape, Active
<1> QED BY <1>1, IInvHolds, PTL

(***************************************************************************)
(* No exit of the try block touches a job that is already over.            *)
(***************************************************************************)
LEMMA RaisesFinal ==
    ASSUME IInv, NEW j \in Jobs, j = current, pc \in Busy, Raises(j) \/ Abort(j),
           NEW k \in Jobs, job[k].status \in Terminal
    PROVE  job'[k].status = job[k].status
<1>1. k # j
  BY DEF IInv, WorkerShape, Terminal
<1> QED BY <1>1 DEF Raises, Retry, GiveUp, Abort, IInv, TypeOK

(***************************************************************************)
(* No step of the worker reopens a finished job.                           *)
(***************************************************************************)
LEMMA WorkerFinal ==
    ASSUME IInv, NEW j \in Jobs, Worker(j), NEW k \in Jobs, job[k].status \in Terminal
    PROVE  job'[k].status = job[k].status
<1>1. CASE Skip(j)
  <2>0. job \in [Jobs -> JobRec] /\ clock' \in Nat /\ "cancelled" \in MemStatus
    BY <1>1 DEF Skip, IInv, TypeOK, JobRec, MemStatus
  <2>1. (\A i \in Jobs : i # j => job'[i] = job[i]) /\ job'[j].status = "cancelled"
    <3>1. job' = [job EXCEPT ![j] = [Flagged(job[j], "cancelled") EXCEPT !.finished = clock']]
      BY <1>1 DEF Skip
    <3> QED BY <2>0, <3>1, StampJob
  <2>2. k = j => job[k].status = "cancelled"
    <3>1. Enqueued(j)
      BY <1>1 DEF Skip, Enqueued, IInv, TypeOK
    <3> QED BY <3>1 DEF IInv, QueueShape, Enqueued, Terminal
  <2> QED BY <2>1, <2>2 DEF IInv, TypeOK
<1>2. CASE Start(j)
  <2>1. Enqueued(j)
    BY <1>2 DEF Start, Enqueued, IInv, TypeOK
  <2>2. ~job[j].cancelReq
    BY <1>2, CancelSeenFalse DEF Start
  <2>3. job[j].status \in {"queued", "cancelled"}
    BY <2>1 DEF IInv, QueueShape, Enqueued
  <2>4. k # j
    BY <2>2, <2>3 DEF IInv, JobShape, Terminal
  <2> QED BY <1>2, <2>4 DEF Start, IInv, TypeOK
<1>3. CASE Unloaded(j) \/ Admitted(j)
  BY <1>3, RaisesFinal DEF Unloaded, Admitted, Proceed, Busy
<1>4. CASE Denied(j) \/ WorkRaises(j)
  BY <1>4, RaisesFinal DEF Denied, WorkRaises, Busy
<1>5. CASE SelfUnload(j) \/ Requeued(j)
  BY <1>5 DEF SelfUnload, Requeued
<1>6. CASE SelfUnloaded(j)
  BY <1>6, RaisesFinal DEF SelfUnloaded, Busy
<1>7. CASE WorkReturns(j)
  <2>1. k # j
    BY <1>7 DEF WorkReturns, IInv, WorkerShape, Busy, Terminal
  <2> QED BY <1>7, <2>1 DEF WorkReturns, Abort, Complete, IInv, TypeOK
<1>8. CASE Close(j)
  BY <1>8 DEF Close, IInv, TypeOK
<1> QED
  BY <1>1, <1>2, <1>3, <1>4, <1>5, <1>6, <1>7, <1>8 DEF Worker

(***************************************************************************)
(* While the process lives, a completed, failed or cancelled job keeps its *)
(* status.                                                                 *)
(***************************************************************************)
THEOREM FinalIsFinal == Spec => FinalStaysFinal
<1>1. ASSUME IInv, [Next]_vars, up', NEW k \in Jobs, job[k].status \in Terminal
      PROVE  job'[k].status = job[k].status
  <2>1. ASSUME NEW j \in Jobs, Submit(j) \/ CancelQueued(j) \/ CancelRunning(j)
        PROVE  job'[k].status = job[k].status
    <3>1. k # j
      BY <1>1, <2>1 DEF Submit, CancelQueued, CancelRunning, Terminal
    <3> QED BY <1>1, <2>1, <3>1 DEF Submit, CancelQueued, CancelRunning, IInv, TypeOK
  <2>2. ASSUME NEW j \in Jobs, CancelByRow(j) \/ CallerLeaves(j) \/ Heartbeat(j)
        PROVE  job'[k].status = job[k].status
    BY <2>2 DEF CancelByRow, CallerLeaves, Heartbeat
  <2>3. CASE Startup \/ UNCHANGED vars
    BY <2>3 DEF Startup, vars
  <2>4. ~Crash
    BY <1>1 DEF Crash
  <2>5. ASSUME NEW j \in Jobs, Worker(j)
        PROVE  job'[k].status = job[k].status
    BY <1>1, <2>5, WorkerFinal
  <2>6. Next \/ UNCHANGED vars
    BY <1>1
  <2> QED BY <2>1, <2>2, <2>3, <2>4, <2>5, <2>6 DEF Next
<1>2. IInv /\ [Next]_vars =>
        [up' => \A j \in Jobs :
            job[j].status \in Terminal => job'[j].status = job[j].status]_vars
  BY <1>1
<1> QED BY <1>2, IInvHolds, PTL DEF Spec, FinalStaysFinal

-----------------------------------------------------------------------------
(* What the rows say, whom the future was told, how often a job was tried. *)

(***************************************************************************)
(* A job that was never submitted has no row; the row of a job follows its *)
(* status, except between the final status and the closing record; a row   *)
(* that waits or runs has a job that does.                                 *)
(***************************************************************************)
RowShape ==
    /\ \A j \in Jobs : job[j].status = "new" => row[j] = NoRow
    /\ ~DbFaults /\ up => \A j \in Jobs :
        /\ job[j].status \in Terminal /\ ~(j = current /\ pc = "closing") =>
             row[j].status = job[j].status
        /\ job[j].status \in Active => row[j].status \in Counted
        /\ row[j].status \in Waiting =>
             job[j].status \in Active \/ (j = current /\ pc = "closing")

(***************************************************************************)
(* With one process, the row of a live job is flagged only after the job   *)
(* itself is: then a job the worker skips has an answered caller.          *)
(***************************************************************************)
AnswerShape ==
    /\ \A j \in Jobs : job[j].status = "cancel_requested" => job[j].cancelReq
    /\ ~Replicated => \A j \in Jobs :
        /\ job[j].status \in Active /\ ~job[j].cancelReq => ~CancelFlag(row[j])
        /\ job[j].status = "cancelled" => fut[j] = "cancelled"

\* A job that waits has an attempt left.
TryShape ==
    \A j \in Jobs :
        /\ job[j].status = "new" => job[j].attempts = 0
        /\ job[j].status = "queued" => job[j].attempts < MaxAttempts

RInv == RowShape /\ AnswerShape /\ TryShape

(***************************************************************************)
(* What recording a job leaves in the table.                               *)
(***************************************************************************)
LEMMA RecordedRow ==
    ASSUME row \in [Jobs -> Rows], NEW j \in Jobs, job'[j] \in JobRec,
           job'[j].status \in RowStatus \ {"absent", "interrupted"}, Record(j)
    PROVE  /\ \A k \in Jobs : k # j => row'[k] = row[k]
           /\ ~DbFaults /\ job'[j].status \in Terminal => row'[j].status = job'[j].status
           /\ ~DbFaults /\ job'[j].status \in Active => row'[j].status \in Counted
           /\ ~job'[j].cancelReq /\ job'[j].status # "cancel_requested" /\ ~CancelFlag(row[j])
                => ~CancelFlag(row'[j])
<1> DEFINE r == Upsert(row[j], job'[j].status, job'[j].cancelReq)
<1>1. /\ job'[j].status \in Terminal => r.status = job'[j].status
      /\ job'[j].status \in Active => r.status \in Counted
      /\ ~job'[j].cancelReq /\ job'[j].status # "cancel_requested" /\ ~CancelFlag(row[j])
           => ~CancelFlag(r)
  BY DEF Upsert, Terminal, Waiting, Active, Counted, CancelFlag
<1>2. row' = [row EXCEPT ![j] = r] \/ (DbFaults /\ row' = row)
  BY DEF Record
<1> HIDE DEF r
<1>3. CASE row' = [row EXCEPT ![j] = r]
  <2>1. row'[j] = r /\ \A k \in Jobs : k # j => row'[k] = row[k]
    BY <1>3
  <2> QED BY <1>1, <2>1
<1>4. CASE DbFaults /\ row' = row
  BY <1>4
<1> QED BY <1>2, <1>3, <1>4

(***************************************************************************)
(* A step that records the one job it changes keeps RInv, if it leaves the *)
(* job a place among the jobs as RInv describes them.                      *)
(***************************************************************************)
LEMMA RecordStep ==
    ASSUME IInv, RInv, NEW j \in Jobs, Record(j), up' = up,
           job' \in [Jobs -> JobRec], \A k \in Jobs : k # j => job'[k] = job[k],
           \A k \in Jobs : k # j => fut'[k] = fut[k],
           job'[j].status \in Active \cup Terminal,
           \A k \in Jobs : k # j /\ k = current /\ pc = "closing" =>
             k = current' /\ pc' = "closing",
           job'[j].status = "cancel_requested" => job'[j].cancelReq,
           ~Replicated /\ job'[j].status \in Active /\ ~job'[j].cancelReq =>
             ~CancelFlag(row[j]),
           ~Replicated /\ job'[j].status = "cancelled" => fut'[j] = "cancelled",
           job'[j].status = "queued" => job'[j].attempts < MaxAttempts
    PROVE  RInv'
<1>1. /\ \A k \in Jobs : k # j => row'[k] = row[k]
      /\ ~DbFaults /\ job'[j].status \in Terminal => row'[j].status = job'[j].status
      /\ ~DbFaults /\ job'[j].status \in Active => row'[j].status \in Counted
      /\ ~job'[j].cancelReq /\ job'[j].status # "cancel_requested" /\ ~CancelFlag(row[j])
           => ~CancelFlag(row'[j])
  <2>1. job'[j].status \in RowStatus \ {"absent", "interrupted"} /\ job'[j] \in JobRec
    BY DEF Active, Terminal, RowStatus
  <2>2. row \in [Jobs -> Rows]
    BY DEF IInv, TypeOK
  <2> QED BY <2>1, <2>2, RecordedRow
<1>2. job'[j].status # "new"
  BY DEF Active, Terminal
<1>3. RowShape'
  BY <1>1, <1>2 DEF RInv, RowShape, Active, Terminal, Waiting
<1>4. AnswerShape'
  BY <1>1 DEF RInv, AnswerShape, CancelFlag
<1>5. TryShape'
  BY <1>2 DEF RInv, TryShape
<1> QED BY <1>3, <1>4, <1>5 DEF RInv

(***************************************************************************)
(* A step that ends the job the worker holds, before its closing record.   *)
(***************************************************************************)
LEMMA EndedStep ==
    ASSUME IInv, RInv, NEW j \in Jobs, j = current, pc \in Busy,
           job' \in [Jobs -> JobRec], \A k \in Jobs : k # j => job'[k] = job[k],
           \A k \in Jobs : k # j => fut'[k] = fut[k],
           job'[j].status \in Terminal, UNCHANGED <<row, up, current>>, pc' = "closing",
           job'[j].status = "cancelled" => fut'[j] = "cancelled"
    PROVE  RInv'
<1>1. job'[j].status \notin Active \cup {"new"}
  BY DEF Active, Terminal
<1>2. RowShape'
  BY <1>1 DEF RInv, RowShape, Busy
<1>3. AnswerShape'
  BY <1>1 DEF RInv, AnswerShape, Active
<1>4. TryShape'
  BY <1>1 DEF RInv, TryShape, Active
<1> QED BY <1>2, <1>3, <1>4 DEF RInv

(***************************************************************************)
(* The requests keep RInv.                                                 *)
(***************************************************************************)
LEMMA RequestRInv ==
    ASSUME IInv, RInv, NEW j \in Jobs,
           Submit(j) \/ CancelQueued(j) \/ CancelRunning(j) \/ CancelByRow(j) \/ CallerLeaves(j)
    PROVE  RInv'
<1>1. job \in [Jobs -> JobRec] /\ fut \in [Jobs -> Answers] /\ clock \in Nat
  BY DEF IInv, TypeOK, JobRec
<1>2. CASE Submit(j)
  <2>1. /\ job' \in [Jobs -> JobRec]
        /\ \A k \in Jobs : k # j => job'[k] = job[k]
        /\ job'[j].status = "queued" /\ job'[j].attempts = job[j].attempts
    BY <1>1, <1>2 DEF JobRec, MemStatus, Submit
  <2>2. ~CancelFlag(row[j]) /\ job[j].attempts < MaxAttempts
    BY <1>2, LimitsAssumption DEF Submit, RInv, RowShape, TryShape, NoRow, CancelFlag
  <2>3. /\ Record(j) /\ up' = up /\ current' = current /\ pc' = pc
        /\ \A k \in Jobs : k # j => fut'[k] = fut[k]
    BY <1>1, <1>2 DEF Submit
  <2> QED BY <2>1, <2>2, <2>3, RecordStep DEF Active
<1>3. CASE CancelQueued(j)
  <2>1. /\ job' \in [Jobs -> JobRec]
        /\ \A k \in Jobs : k # j => job'[k] = job[k]
        /\ job'[j].status = "cancelled"
    <3>1. job' = [job EXCEPT ![j] = [Flagged(job[j], "cancelled") EXCEPT !.finished = clock']]
      BY <1>3 DEF CancelQueued
    <3>2. clock' \in Nat
      BY <1>1, <1>3 DEF CancelQueued
    <3> QED BY <1>1, <3>1, <3>2, StampJob DEF MemStatus
  <2>2. fut'[j] = "cancelled" /\ \A k \in Jobs : k # j => fut'[k] = fut[k]
    BY <1>1, <1>3 DEF CancelQueued, CancelFuture, IInv, JobShape, Active
  <2>3. Record(j) /\ up' = up /\ current' = current /\ pc' = pc
    BY <1>3 DEF CancelQueued
  <2> QED BY <2>1, <2>2, <2>3, RecordStep DEF Active, Terminal
<1>4. CASE CancelRunning(j)
  <2>1. /\ job' \in [Jobs -> JobRec]
        /\ \A k \in Jobs : k # j => job'[k] = job[k]
        /\ job'[j].status = "cancel_requested" /\ job'[j].cancelReq
    <3>1. job' = [job EXCEPT ![j] = Flagged(job[j], "cancel_requested")]
      BY <1>4 DEF CancelRunning
    <3> QED BY <1>1, <3>1, FlagJob DEF MemStatus
  <2>2. Record(j) /\ up' = up /\ current' = current /\ pc' = pc /\ fut' = fut
    BY <1>4 DEF CancelRunning
  <2> QED BY <2>1, <2>2, RecordStep DEF Active
<1>5. CASE CancelByRow(j)
  <2>1. /\ UNCHANGED <<job, fut, up, current, pc>>
        /\ row'[j] = RequestCancel(row[j])
        /\ \A k \in Jobs : k # j => row'[k] = row[k]
    BY <1>5 DEF CancelByRow, IInv, TypeOK
  <2>2. ~Replicated => job[j].status \notin Active
    BY <1>5 DEF CancelByRow, IInv, JobShape
  <2>3. /\ row[j].status \in Terminal \cup {"absent"} => row'[j] = row[j]
        /\ row[j].status \in Counted => row'[j].status \in Counted
        /\ row'[j].status \in Waiting => row[j].status \in Waiting
    BY <2>1 DEF RequestCancel, Terminal, Counted, Waiting
  <2>4. RowShape'
    BY <2>1, <2>3 DEF RInv, RowShape, NoRow
  <2>5. AnswerShape'
    BY <2>1, <2>2 DEF RInv, AnswerShape
  <2>6. TryShape'
    BY <2>1 DEF RInv, TryShape
  <2> QED BY <2>4, <2>5, <2>6 DEF RInv
<1>6. CASE CallerLeaves(j)
  BY <1>1, <1>6 DEF CallerLeaves, RInv, RowShape, AnswerShape, TryShape
<1> QED BY <1>2, <1>3, <1>4, <1>5, <1>6

(***************************************************************************)
(* The exits of the try block keep RInv.                                   *)
(***************************************************************************)
LEMMA AbortRInv ==
    ASSUME IInv, RInv, NEW j \in Jobs, j = current, pc \in Busy, Abort(j)
    PROVE  RInv'
<1>1. job \in [Jobs -> JobRec] /\ fut \in [Jobs -> Answers]
  BY DEF IInv, TypeOK, JobRec
<1>2. /\ job' \in [Jobs -> JobRec]
      /\ \A k \in Jobs : k # j => job'[k] = job[k]
      /\ job'[j].status = "cancelled"
  <2>1. job' = [job EXCEPT ![j] = Flagged(job[j], "cancelled")]
    BY DEF Abort
  <2> QED BY <1>1, <2>1, FlagJob DEF MemStatus
<1>3. fut'[j] = "cancelled" /\ \A k \in Jobs : k # j => fut'[k] = fut[k]
  <2>1. job[j].status \in Active
    BY DEF IInv, WorkerShape, Active
  <2> QED BY <1>1, <2>1 DEF Abort, CancelFuture, IInv, JobShape
<1> QED BY <1>2, <1>3, EndedStep DEF Abort, Terminal

(***************************************************************************)
(* ... an exception,                                                       *)
(***************************************************************************)
LEMMA RaisesRInv ==
    ASSUME IInv, RInv, NEW j \in Jobs, up, j = current, pc \in Busy, Raises(j)
    PROVE  RInv'
<1>1. job \in [Jobs -> JobRec] /\ fut \in [Jobs -> Answers]
  BY DEF IInv, TypeOK, JobRec
<1>2. CASE Retry(j)
  <2>1. /\ job' \in [Jobs -> JobRec]
        /\ \A k \in Jobs : k # j => job'[k] = job[k]
        /\ job'[j].status = "queued" /\ job'[j].attempts < MaxAttempts
    BY <1>1, <1>2 DEF JobRec, MemStatus, Retry
  <2>2. Record(j) /\ up' = up /\ fut' = fut
    BY <1>2 DEF Retry
  <2>3. job[j].status \in Active
    BY DEF IInv, WorkerShape, Active
  <2>4. ~Replicated => ~CancelFlag(row[j])
    BY <1>2, <2>3, CancelSeenFalse DEF Retry, RInv, AnswerShape
  <2> QED BY <2>1, <2>2, <2>4, RecordStep DEF Active, Busy
<1>3. CASE GiveUp(j)
  <2>1. /\ job' \in [Jobs -> JobRec]
        /\ \A k \in Jobs : k # j => job'[k] = job[k]
        /\ job'[j].status = "failed"
    <3>1. CASE job' = [job EXCEPT ![j].status = "failed"]
      BY <1>1, <3>1 DEF JobRec, MemStatus
    <3>2. CASE job' = [job EXCEPT ![j] = Flagged(job[j], "failed")]
      BY <1>1, <3>2, FlagJob DEF MemStatus
    <3> QED BY <1>3, <3>1, <3>2 DEF GiveUp
  <2>2. \A k \in Jobs : k # j => fut'[k] = fut[k]
    BY <1>1, <1>3 DEF GiveUp
  <2> QED BY <1>3, <2>1, <2>2, EndedStep DEF GiveUp, Terminal
<1> QED BY <1>2, <1>3 DEF Raises

(***************************************************************************)
(* ... and a result.                                                       *)
(***************************************************************************)
LEMMA CompleteRInv ==
    ASSUME IInv, RInv, NEW j \in Jobs, j = current, pc \in Busy, Complete(j)
    PROVE  RInv'
<1>1. job \in [Jobs -> JobRec] /\ fut \in [Jobs -> Answers]
  BY DEF IInv, TypeOK, JobRec
<1>2. /\ job' \in [Jobs -> JobRec]
      /\ \A k \in Jobs : k # j => job'[k] = job[k]
      /\ job'[j].status = "completed"
  BY <1>1 DEF JobRec, MemStatus, Complete
<1>3. \A k \in Jobs : k # j => fut'[k] = fut[k]
  BY <1>1 DEF Complete
<1> QED BY <1>2, <1>3, EndedStep DEF Complete, Terminal

(***************************************************************************)
(* From one await of the try block to the next nothing is disturbed.       *)
(***************************************************************************)
LEMMA MoveRInv ==
    ASSUME RInv, pc \in Busy, UNCHANGED <<job, current, fut, row, up>>
    PROVE  RInv'
<1>1. RowShape'
  BY DEF RInv, RowShape, Busy
<1>2. AnswerShape' /\ TryShape'
  BY DEF RInv, AnswerShape, TryShape
<1> QED BY <1>1, <1>2 DEF RInv

(***************************************************************************)
(* A cancel check followed by the next await.                              *)
(***************************************************************************)
LEMMA ProceedRInv ==
    ASSUME IInv, RInv, NEW j \in Jobs, NEW from \in Busy, NEW to \in Busy,
           Proceed(j, from, to)
    PROVE  RInv'
<1>1. j = current /\ pc \in Busy
  BY DEF Proceed
<1>2. CASE Abort(j)
  BY <1>1, <1>2, AbortRInv
<1>3. CASE UNCHANGED <<job, retained, queue, current, fut, row, clock, up, restarts>>
  BY <1>1, <1>3, MoveRInv
<1> QED BY <1>2, <1>3 DEF Proceed

(***************************************************************************)
(* The job the worker takes waits, or was cancelled while it waited.       *)
(***************************************************************************)
LEMMA TakenJob ==
    ASSUME IInv, NEW j \in Jobs, queue # <<>>, j = Head(queue)
    PROVE  Enqueued(j) /\ job[j].status \in {"queued", "cancelled"}
<1>1. 1 \in DOMAIN queue /\ queue[1] = j
  BY DEF IInv, TypeOK
<1>2. Enqueued(j)
  BY <1>1 DEF Enqueued
<1> QED BY <1>1, <1>2 DEF IInv, QueueShape

(***************************************************************************)
(* What starting a job does to the table of jobs.                          *)
(***************************************************************************)
LEMMA StartedJob ==
    ASSUME IInv, NEW j \in Jobs, Start(j)
    PROVE  /\ job' \in [Jobs -> JobRec]
           /\ \A k \in Jobs : k # j => job'[k] = job[k]
           /\ job'[j].status = "running" /\ job'[j].cancelReq = job[j].cancelReq
           /\ job'[j].attempts = job[j].attempts + 1
           /\ job[j].status = "queued" /\ ~job[j].cancelReq
<1>1. job \in [Jobs -> JobRec] /\ job[j] \in JobRec
  BY DEF IInv, TypeOK, JobRec
<1>2. job' = [job EXCEPT ![j].status = "running", ![j].attempts = job[j].attempts + 1]
  BY DEF Start
<1>3. /\ job' \in [Jobs -> JobRec]
      /\ \A k \in Jobs : k # j => job'[k] = job[k]
      /\ job'[j].status = "running" /\ job'[j].cancelReq = job[j].cancelReq
      /\ job'[j].attempts = job[j].attempts + 1
  BY <1>1, <1>2 DEF JobRec, MemStatus
<1>4. ~job[j].cancelReq
  BY CancelSeenFalse DEF Start
<1>5. job[j].status = "queued"
  BY <1>4, TakenJob DEF Start, IInv, JobShape
<1> QED BY <1>3, <1>4, <1>5

(***************************************************************************)
(* The worker takes a job off the queue: to skip it, because it was        *)
(* cancelled while it waited, or to start it.                              *)
(***************************************************************************)
LEMMA TakenRInv ==
    ASSUME IInv, RInv, NEW j \in Jobs, Skip(j) \/ Start(j)
    PROVE  RInv'
<1>1. job \in [Jobs -> JobRec] /\ fut \in [Jobs -> Answers] /\ clock \in Nat
  BY DEF IInv, TypeOK, JobRec
<1>2. job[j].status \in {"queued", "cancelled"}
  BY TakenJob DEF Skip, Start
<1>3. pc = "idle" /\ up' = up /\ fut' = fut /\ Record(j)
  BY DEF Skip, Start
<1>4. CASE Skip(j)
  <2>1. /\ job' \in [Jobs -> JobRec]
        /\ \A k \in Jobs : k # j => job'[k] = job[k]
        /\ job'[j].status = "cancelled"
    <3>1. job' = [job EXCEPT ![j] = [Flagged(job[j], "cancelled") EXCEPT !.finished = clock']]
      BY <1>4 DEF Skip
    <3>2. clock' \in Nat
      BY <1>1, <1>4 DEF Skip
    <3> QED BY <1>1, <3>1, <3>2, StampJob DEF MemStatus
  <2>2. ~Replicated => fut[j] = "cancelled"
    <3>1. CASE job[j].status = "cancelled"
      BY <3>1 DEF RInv, AnswerShape
    <3>2. CASE job[j].status = "queued"
      <4>1. ~job[j].cancelReq
        BY <3>2 DEF IInv, JobShape
      <4>2. ~Replicated => ~CancelFlag(row[j])
        BY <3>2, <4>1 DEF RInv, AnswerShape, Active
      <4>3. ~Replicated => TRUE \notin CancelSeen(j)
        BY <4>1, <4>2 DEF CancelSeen
      <4> QED BY <1>4, <4>3 DEF Skip
    <3> QED BY <1>2, <3>1, <3>2
  <2> QED BY <1>3, <2>1, <2>2, RecordStep DEF Active, Terminal
<1>5. CASE Start(j)
  <2>1. /\ job' \in [Jobs -> JobRec]
        /\ \A k \in Jobs : k # j => job'[k] = job[k]
        /\ job'[j].status = "running"
        /\ job[j].status = "queued" /\ ~job[j].cancelReq
    BY <1>5, StartedJob
  <2>4. ~Replicated => ~CancelFlag(row[j])
    BY <2>1 DEF RInv, AnswerShape, Active
  <2> QED BY <1>3, <2>1, <2>4, RecordStep DEF Active
<1> QED BY <1>4, <1>5

(***************************************************************************)
(* The finally block records the job, or leaves it to the queue again.     *)
(***************************************************************************)
LEMMA ReleasedRInv ==
    ASSUME IInv, RInv, NEW j \in Jobs, Close(j) \/ Requeued(j)
    PROVE  RInv'
<1>1. job \in [Jobs -> JobRec] /\ clock \in Nat
  BY DEF IInv, TypeOK, JobRec
<1>2. CASE Close(j)
  <2>1. /\ job' \in [Jobs -> JobRec]
        /\ \A k \in Jobs : k # j => job'[k] = job[k]
        /\ job'[j].status = job[j].status
    BY <1>1, <1>2 DEF JobRec, MemStatus, Close
  <2>2. job[j].status \in Terminal
    BY <1>2 DEF Close, IInv, WorkerShape
  <2>3. Record(j) /\ up' = up /\ fut' = fut /\ current = j
    BY <1>2 DEF Close
  <2>4. ~Replicated /\ job[j].status = "cancelled" => fut[j] = "cancelled"
    BY DEF RInv, AnswerShape
  <2> QED BY <2>1, <2>2, <2>3, <2>4, RecordStep DEF Active, Terminal
<1>3. CASE Requeued(j)
  <2>1. RowShape'
    BY <1>3 DEF Requeued, RInv, RowShape
  <2>2. AnswerShape' /\ TryShape'
    BY <1>3 DEF Requeued, RInv, AnswerShape, TryShape
  <2> QED BY <2>1, <2>2 DEF RInv
<1> QED BY <1>2, <1>3

(***************************************************************************)
(* A heartbeat records the running job as it is.                           *)
(***************************************************************************)
LEMMA HeartbeatRInv ==
    ASSUME IInv, RInv, NEW j \in Jobs, Heartbeat(j)
    PROVE  RInv'
<1>1. /\ job' = job /\ fut' = fut /\ up' = up /\ pc' = pc /\ current' = current
      /\ Record(j) /\ job[j].status \in {"running", "cancel_requested"} /\ j = current
      /\ pc # "closing"
  BY DEF Heartbeat, IInv, WorkerShape, Busy
<1>2. /\ job' \in [Jobs -> JobRec] /\ job'[j].status \in Active
  BY <1>1 DEF IInv, TypeOK, JobRec, Active
<1>3. /\ job[j].status = "cancel_requested" => job[j].cancelReq
      /\ ~Replicated /\ ~job[j].cancelReq => ~CancelFlag(row[j])
  BY <1>1 DEF RInv, AnswerShape, Active
<1> QED BY <1>1, <1>2, <1>3, RecordStep DEF Active

(***************************************************************************)
(* A restart ends every job; the rows it interrupts belong to no live job. *)
(***************************************************************************)
LEMMA RestartRInv ==
    ASSUME IInv, RInv, Crash \/ Startup
    PROVE  RInv'
<1>1. CASE Crash
  <2>1. /\ ~up' /\ row' = row
        /\ \A j \in Jobs : /\ job'[j].status \in {"new", "lost"}
                           /\ job'[j].attempts = 0
                           /\ job'[j].status = "new" => job[j].status = "new"
    BY <1>1 DEF Crash, FreshJob
  <2> QED BY <2>1 DEF RInv, RowShape, AnswerShape, TryShape, Active
<1>2. CASE Startup
  <2>1. /\ job' = job /\ fut' = fut
        /\ \A j \in Jobs : job[j].status \in {"new", "lost"}
        /\ \A j \in Jobs : row[j] = NoRow => row'[j] = NoRow
        /\ \A j \in Jobs : row'[j].status \notin Waiting
    <3>1. \A j \in Jobs : row[j] \in Rows /\ row'[j] = Interrupt(row[j])
      BY <1>2 DEF Startup, IInv, TypeOK
    <3>2. \A r \in Rows : Interrupt(r).status \notin Waiting
      BY DEF Interrupt, Rows, Waiting
    <3> QED BY <1>2, <3>1, <3>2 DEF Startup, IInv, DownShape, Interrupt, NoRow, Waiting
  <2> QED BY <2>1 DEF RInv, RowShape, AnswerShape, TryShape, Active, Terminal
<1> QED BY <1>1, <1>2

(***************************************************************************)
(* Every step of the worker keeps RInv.                                    *)
(***************************************************************************)
LEMMA WorkerRInv ==
    ASSUME IInv, RInv, NEW j \in Jobs, Worker(j)
    PROVE  RInv'
<1>1. CASE Skip(j) \/ Start(j)
  BY <1>1, TakenRInv
<1>2. CASE Unloaded(j) \/ Admitted(j)
  BY <1>2, ProceedRInv DEF Unloaded, Admitted, Busy
<1>3. CASE Denied(j)
  BY <1>3, RaisesRInv DEF Denied, Busy
<1>4. CASE SelfUnload(j)
  BY <1>4, MoveRInv DEF SelfUnload, Busy
<1>5. CASE SelfUnloaded(j)
  BY <1>5, RaisesRInv, MoveRInv DEF SelfUnloaded, Busy
<1>6. CASE WorkReturns(j)
  BY <1>6, AbortRInv, CompleteRInv DEF WorkReturns, Busy
<1>7. CASE WorkRaises(j)
  BY <1>7, AbortRInv, RaisesRInv DEF WorkRaises, Busy
<1>8. CASE Close(j) \/ Requeued(j)
  BY <1>8, ReleasedRInv
<1> QED BY <1>1, <1>2, <1>3, <1>4, <1>5, <1>6, <1>7, <1>8 DEF Worker

(***************************************************************************)
(* RInv holds in every reachable state: the invariant IInv makes it        *)
(* inductive.                                                              *)
(***************************************************************************)
LEMMA RInvHolds == Spec => []RInv
<1>1. Init => RInv
  BY LimitsAssumption
  DEF Init, FreshJob, RInv, RowShape, AnswerShape, TryShape, Active, Terminal, NoRow, Waiting
<1>2. IInv /\ RInv /\ [Next]_vars => RInv'
  <2> SUFFICES ASSUME IInv, RInv, [Next]_vars PROVE RInv'
    OBVIOUS
  <2>1. ASSUME NEW j \in Jobs,
               \/ Submit(j) \/ CancelQueued(j) \/ CancelRunning(j)
               \/ CancelByRow(j) \/ CallerLeaves(j)
        PROVE  RInv'
    BY <2>1, RequestRInv
  <2>2. ASSUME NEW j \in Jobs, Worker(j)
        PROVE  RInv'
    BY <2>2, WorkerRInv
  <2>3. ASSUME NEW j \in Jobs, Heartbeat(j)
        PROVE  RInv'
    BY <2>3, HeartbeatRInv
  <2>4. CASE Crash \/ Startup
    BY <2>4, RestartRInv
  <2>5. CASE UNCHANGED vars
    BY <2>5 DEF vars, RInv, RowShape, AnswerShape, TryShape
  <2> QED BY <2>1, <2>2, <2>3, <2>4, <2>5 DEF Next
<1> QED BY <1>1, <1>2, IInvHolds, PTL DEF Spec

(***************************************************************************)
(* When every database call succeeds, the row of a job follows it: a final *)
(* status once the worker let the job go, an active one while it lives.    *)
(***************************************************************************)
THEOREM RowsAlwaysFollow == Spec => []RowsFollow
<1>1. IInv /\ RInv => RowsFollow
  <2> SUFFICES ASSUME IInv, RInv PROVE RowsFollow
    OBVIOUS
  <2>1. RowShape
    BY DEF RInv
  <2> QED BY <2>1 DEF RowShape, RowsFollow
<1> QED BY <1>1, IInvHolds, RInvHolds, PTL

(***************************************************************************)
(* With one process, a job that is over has answered its caller, with the  *)
(* answer its status announces.  With a second replica it has not: that    *)
(* one's cancel reaches only the row of a queued job, the worker skips it, *)
(* and its future stays pending.                                           *)
(***************************************************************************)
THEOREM EveryEndIsAnswered ==
    ASSUME ~Replicated
    PROVE  Spec => []Answered
<1>1. IInv /\ RInv => Answered
  BY DEF IInv, JobShape, RInv, AnswerShape, Answered
<1> QED BY <1>1, IInvHolds, RInvHolds, PTL

-----------------------------------------------------------------------------
(* The queue implements SerialExecutor: every step is one of its steps. *)

PhaseName(status) ==
    CASE status = "new" -> "new"
      [] status = "queued" -> "waiting"
      [] status \in {"running", "cancel_requested"} -> "running"
      [] OTHER -> "over"

AbsStep == Abs!AbsNext \/ UNCHANGED <<Phase, fut, Tries>>

(***************************************************************************)
(* A step that changes one job moves one job of the executor.              *)
(***************************************************************************)
LEMMA OneJobMoves ==
    ASSUME NEW j \in Jobs, \A k \in Jobs : k # j => job'[k] = job[k]
    PROVE  /\ Phase' = [Phase EXCEPT ![j] = PhaseName(job'[j].status)]
           /\ Tries' = [Tries EXCEPT ![j] = job'[j].attempts]
           /\ \A k \in Jobs : Phase[k] = PhaseName(job[k].status)
           /\ \A k \in Jobs : Tries[k] = job[k].attempts
           /\ Phase = [Phase EXCEPT ![j] = PhaseName(job[j].status)]
           /\ Tries = [Tries EXCEPT ![j] = job[j].attempts]
<1>1. /\ Phase = [k \in Jobs |-> PhaseName(job[k].status)]
      /\ Phase' = [k \in Jobs |-> PhaseName(job'[k].status)]
  BY DEF Phase, PhaseName
<1>2. /\ Tries = [k \in Jobs |-> job[k].attempts]
      /\ Tries' = [k \in Jobs |-> job'[k].attempts]
  BY DEF Tries
<1> HIDE DEF PhaseName, Phase, Tries
<1> QED BY <1>1, <1>2

(***************************************************************************)
(* A step that leaves the jobs and the answers alone is no step of the     *)
(* executor.                                                               *)
(***************************************************************************)
LEMMA QuietStep ==
    ASSUME job' = job, fut' = fut
    PROVE  AbsStep
BY DEF AbsStep, Phase, Tries

(***************************************************************************)
(* The requests: accept, withdraw and leave.                               *)
(***************************************************************************)
LEMMA RequestImplements ==
    ASSUME IInv, RInv, NEW j \in Jobs,
           Submit(j) \/ CancelQueued(j) \/ CancelRunning(j) \/ CancelByRow(j) \/ CallerLeaves(j)
    PROVE  AbsStep
<1>1. job \in [Jobs -> JobRec] /\ fut \in [Jobs -> Answers] /\ clock \in Nat
  BY DEF IInv, TypeOK, JobRec
<1>2. CASE Submit(j)
  <2>1. /\ \A k \in Jobs : k # j => job'[k] = job[k]
        /\ job[j].status = "new" /\ job'[j].status = "queued"
        /\ job'[j].attempts = job[j].attempts
    BY <1>1, <1>2 DEF JobRec, MemStatus, Submit
  <2>2. fut' = [fut EXCEPT ![j] = "pending"]
    BY <1>2 DEF Submit
  <2>3. Abs!Accept(j)
    BY <2>1, <2>2, OneJobMoves DEF Abs!Accept, PhaseName
  <2> QED BY <2>3 DEF AbsStep, Abs!AbsNext
<1>3. CASE CancelQueued(j)
  <2>1. /\ \A k \in Jobs : k # j => job'[k] = job[k]
        /\ job'[j].status = "cancelled" /\ job'[j].attempts = job[j].attempts
    <3>1. job' = [job EXCEPT ![j] = [Flagged(job[j], "cancelled") EXCEPT !.finished = clock']]
      BY <1>3 DEF CancelQueued
    <3>2. clock' \in Nat
      BY <1>1, <1>3 DEF CancelQueued
    <3> QED BY <1>1, <3>1, <3>2, StampJob DEF MemStatus
  <2>2. job[j].status = "queued" /\ fut' = [fut EXCEPT ![j] = "cancelled"]
    BY <1>1, <1>3 DEF CancelQueued, CancelFuture, IInv, JobShape, Active
  <2>3. Abs!Withdraw(j)
    BY <2>1, <2>2, OneJobMoves DEF Abs!Withdraw, PhaseName
  <2> QED BY <2>3 DEF AbsStep, Abs!AbsNext
<1>4. CASE CancelRunning(j)
  <2>1. /\ \A k \in Jobs : k # j => job'[k] = job[k]
        /\ job'[j].status = "cancel_requested" /\ job'[j].attempts = job[j].attempts
    <3>1. job' = [job EXCEPT ![j] = Flagged(job[j], "cancel_requested")]
      BY <1>4 DEF CancelRunning
    <3> QED BY <1>1, <3>1, FlagJob DEF MemStatus
  <2>2. job[j].status \in {"running", "cancel_requested"} /\ fut' = fut
    BY <1>4 DEF CancelRunning
  <2>3. PhaseName(job'[j].status) = PhaseName(job[j].status)
    BY <2>1, <2>2 DEF PhaseName
  <2> QED BY <2>1, <2>2, <2>3, OneJobMoves DEF AbsStep
<1>5. CASE CancelByRow(j)
  BY <1>5, QuietStep DEF CancelByRow
<1>6. CASE CallerLeaves(j)
  <2>1. Abs!Leave(j)
    BY <1>6 DEF CallerLeaves, Abs!Leave, Phase, Tries
  <2> QED BY <2>1 DEF AbsStep, Abs!AbsNext
<1> QED BY <1>2, <1>3, <1>4, <1>5, <1>6

(***************************************************************************)
(* The worker takes a job: it begins, or was withdrawn already, or by a    *)
(* caller that left.                                                       *)
(***************************************************************************)
LEMMA TakenImplements ==
    ASSUME ~Replicated, IInv, RInv, NEW j \in Jobs, Skip(j) \/ Start(j)
    PROVE  AbsStep
<1>1. job \in [Jobs -> JobRec] /\ fut \in [Jobs -> Answers] /\ clock \in Nat
  BY DEF IInv, TypeOK, JobRec
<1>2. CASE Start(j)
  <2>1. /\ \A k \in Jobs : k # j => job'[k] = job[k]
        /\ job[j].status = "queued" /\ job'[j].status = "running"
        /\ job'[j].attempts = job[j].attempts + 1
    BY <1>2, StartedJob
  <2>2. fut' = fut /\ job[j].attempts < MaxAttempts
    BY <1>2, <2>1 DEF Start, RInv, TryShape
  <2>3. \A k \in Jobs : job[k].status \notin {"running", "cancel_requested"}
    BY <1>2, JobsAssumption DEF Start, IInv, WorkerShape
  <2>4. \A k \in Jobs : PhaseName(job[k].status) # "running"
    BY <2>3 DEF PhaseName
  <2>5. Abs!Begin(j)
    BY <2>1, <2>2, <2>4, OneJobMoves DEF Abs!Begin, PhaseName
  <2> QED BY <2>5 DEF AbsStep, Abs!AbsNext
<1>3. CASE Skip(j)
  <2>1. /\ \A k \in Jobs : k # j => job'[k] = job[k]
        /\ job'[j].status = "cancelled" /\ job'[j].attempts = job[j].attempts
    <3>1. job' = [job EXCEPT ![j] = [Flagged(job[j], "cancelled") EXCEPT !.finished = clock']]
      BY <1>3 DEF Skip
    <3>2. clock' \in Nat
      BY <1>1, <1>3 DEF Skip
    <3> QED BY <1>1, <3>1, <3>2, StampJob DEF MemStatus
  <2>2. fut' = fut /\ fut'[j] = "cancelled"
    <3>1. RInv'
      BY <1>3, TakenRInv
    <3> QED BY <1>3, <2>1, <3>1 DEF Skip, RInv, AnswerShape
  <2>3. CASE job[j].status = "queued"
    <3>1. fut' = [fut EXCEPT ![j] = "cancelled"]
      BY <1>1, <2>2
    <3>2. Abs!Withdraw(j)
      BY <2>1, <2>3, <3>1, OneJobMoves DEF Abs!Withdraw, PhaseName
    <3> QED BY <3>2 DEF AbsStep, Abs!AbsNext
  <2>4. CASE job[j].status = "cancelled"
    BY <2>1, <2>2, <2>4, OneJobMoves DEF AbsStep
  <2> QED BY <1>3, <2>3, <2>4, TakenJob DEF Skip
<1> QED BY <1>2, <1>3

(***************************************************************************)
(* The exits of the try block: the job ends with an outcome, or waits      *)
(* again.                                                                  *)
(***************************************************************************)
LEMMA EndImplements ==
    ASSUME IInv, NEW j \in Jobs, j = current, pc \in Busy,
           \A k \in Jobs : k # j => job'[k] = job[k],
           job'[j].status \in Terminal, job'[j].attempts = job[j].attempts,
           NEW o \in {"result", "exception", "cancelled"},
           fut' = [fut EXCEPT ![j] = IF fut[j] = "pending" THEN o ELSE fut[j]]
    PROVE  AbsStep
<1>1. PhaseName(job[j].status) = "running" /\ PhaseName(job'[j].status) = "over"
  BY DEF IInv, WorkerShape, Terminal, PhaseName
<1>2. Abs!End(j, o)
  BY <1>1, OneJobMoves DEF Abs!End
<1> QED BY <1>2 DEF AbsStep, Abs!AbsNext

(***************************************************************************)
(* A cancelled job's caller is told so,                                    *)
(***************************************************************************)
LEMMA AbortImplements ==
    ASSUME IInv, NEW j \in Jobs, j = current, pc \in Busy, Abort(j)
    PROVE  AbsStep
<1>1. job \in [Jobs -> JobRec] /\ fut \in [Jobs -> Answers]
  BY DEF IInv, TypeOK, JobRec
<1>2. /\ \A k \in Jobs : k # j => job'[k] = job[k]
      /\ job'[j].status = "cancelled" /\ job'[j].attempts = job[j].attempts
  <2>1. job' = [job EXCEPT ![j] = Flagged(job[j], "cancelled")]
    BY DEF Abort
  <2> QED BY <1>1, <2>1, FlagJob DEF MemStatus
<1>3. fut' = [fut EXCEPT ![j] = IF fut[j] = "pending" THEN "cancelled" ELSE fut[j]]
  BY DEF Abort, CancelFuture
<1> QED BY <1>2, <1>3, EndImplements DEF Terminal

(***************************************************************************)
(* ... a failed one's gets the exception, unless it is queued again,       *)
(***************************************************************************)
LEMMA RaisesImplements ==
    ASSUME IInv, NEW j \in Jobs, j = current, pc \in Busy, Raises(j)
    PROVE  AbsStep
<1>1. job \in [Jobs -> JobRec] /\ fut \in [Jobs -> Answers]
  BY DEF IInv, TypeOK, JobRec
<1>2. CASE Retry(j)
  <2>1. /\ \A k \in Jobs : k # j => job'[k] = job[k]
        /\ job'[j].status = "queued" /\ job'[j].attempts = job[j].attempts
        /\ fut' = fut
    BY <1>1, <1>2 DEF JobRec, MemStatus, Retry
  <2>2. PhaseName(job[j].status) = "running"
    BY DEF IInv, WorkerShape, PhaseName
  <2>3. Abs!Requeue(j)
    BY <2>1, <2>2, OneJobMoves DEF Abs!Requeue, PhaseName
  <2> QED BY <2>3 DEF AbsStep, Abs!AbsNext
<1>3. CASE GiveUp(j)
  <2>1. /\ \A k \in Jobs : k # j => job'[k] = job[k]
        /\ job'[j].status = "failed" /\ job'[j].attempts = job[j].attempts
    <3>1. CASE job' = [job EXCEPT ![j].status = "failed"]
      BY <1>1, <3>1 DEF JobRec, MemStatus
    <3>2. CASE job' = [job EXCEPT ![j] = Flagged(job[j], "failed")]
      BY <1>1, <3>2, FlagJob DEF MemStatus
    <3> QED BY <1>3, <3>1, <3>2 DEF GiveUp
  <2>2. fut' = [fut EXCEPT ![j] = IF fut[j] = "pending" THEN "exception" ELSE fut[j]]
    BY <1>3 DEF GiveUp
  <2> QED BY <2>1, <2>2, EndImplements DEF Terminal
<1> QED BY <1>2, <1>3 DEF Raises

(***************************************************************************)
(* ... and a finished one's the result.                                    *)
(***************************************************************************)
LEMMA CompleteImplements ==
    ASSUME IInv, NEW j \in Jobs, j = current, pc \in Busy, Complete(j)
    PROVE  AbsStep
<1>1. job \in [Jobs -> JobRec] /\ fut \in [Jobs -> Answers]
  BY DEF IInv, TypeOK, JobRec
<1>2. /\ \A k \in Jobs : k # j => job'[k] = job[k]
      /\ job'[j].status = "completed" /\ job'[j].attempts = job[j].attempts
  BY <1>1 DEF JobRec, MemStatus, Complete
<1>3. fut' = [fut EXCEPT ![j] = IF fut[j] = "pending" THEN "result" ELSE fut[j]]
  <2>1. fut[j] \in {"pending", "cancelled"}
    BY DEF IInv, WorkerShape, JobShape, Active
  <2> QED BY <2>1 DEF Complete
<1> QED BY <1>2, <1>3, EndImplements DEF Terminal

(***************************************************************************)
(* Every step of the worker is a step of the executor or none.             *)
(***************************************************************************)
LEMMA WorkerImplements ==
    ASSUME ~Replicated, IInv, RInv, NEW j \in Jobs, Worker(j)
    PROVE  AbsStep
<1>1. CASE Skip(j) \/ Start(j)
  BY <1>1, TakenImplements
<1>2. CASE Unloaded(j) \/ Admitted(j)
  BY <1>2, AbortImplements, QuietStep DEF Unloaded, Admitted, Proceed, Busy
<1>3. CASE Denied(j)
  BY <1>3, RaisesImplements DEF Denied, Busy
<1>4. CASE SelfUnload(j) \/ Requeued(j)
  BY <1>4, QuietStep DEF SelfUnload, Requeued
<1>5. CASE SelfUnloaded(j)
  BY <1>5, RaisesImplements, QuietStep DEF SelfUnloaded, Busy
<1>6. CASE WorkReturns(j)
  BY <1>6, AbortImplements, CompleteImplements DEF WorkReturns, Busy
<1>7. CASE WorkRaises(j)
  BY <1>7, AbortImplements, RaisesImplements DEF WorkRaises, Busy
<1>8. CASE Close(j)
  <2>1. job \in [Jobs -> JobRec]
    BY DEF IInv, TypeOK, JobRec
  <2>2. /\ \A k \in Jobs : k # j => job'[k] = job[k]
        /\ job'[j].status = job[j].status /\ job'[j].attempts = job[j].attempts
        /\ fut' = fut
    BY <1>8, <2>1 DEF Close, JobRec
  <2> QED BY <2>2, OneJobMoves DEF AbsStep
<1> QED BY <1>1, <1>2, <1>3, <1>4, <1>5, <1>6, <1>7, <1>8 DEF Worker

(***************************************************************************)
(* A restart loses every job.                                              *)
(***************************************************************************)
LEMMA CrashImplements ==
    ASSUME Crash
    PROVE  AbsStep
<1>1. Phase' = [j \in Jobs |-> IF Phase[j] = "new" THEN "new" ELSE "over"]
  BY DEF Crash, Phase, FreshJob
<1>2. Tries' = [j \in Jobs |-> 0]
  BY DEF Crash, Tries, FreshJob
<1>3. Abs!LoseAll
  BY <1>1, <1>2 DEF Crash, Abs!LoseAll
<1> QED BY <1>3 DEF AbsStep, Abs!AbsNext

(***************************************************************************)
(* One process implements the serial executor: at most one job has the     *)
(* GPU, none more than MaxAttempts times, and a job that is over has       *)
(* answered its caller.                                                    *)
(***************************************************************************)
THEOREM QueueImplementsSerialExecutor ==
    ASSUME ~Replicated
    PROVE  Spec => AbsSpec
<1>1. Init => Abs!AbsInit
  BY DEF Init, FreshJob, Phase, Tries, Abs!AbsInit
<1>2. IInv /\ RInv /\ [Next]_vars => [Abs!AbsNext]_(Abs!absVars)
  <2> SUFFICES ASSUME IInv, RInv, [Next]_vars PROVE AbsStep
    BY DEF AbsStep, Abs!absVars
  <2>1. ASSUME NEW j \in Jobs,
               \/ Submit(j) \/ CancelQueued(j) \/ CancelRunning(j)
               \/ CancelByRow(j) \/ CallerLeaves(j)
        PROVE  AbsStep
    BY <2>1, RequestImplements
  <2>2. ASSUME NEW j \in Jobs, Worker(j)
        PROVE  AbsStep
    BY <2>2, WorkerImplements
  <2>3. ASSUME NEW j \in Jobs, Heartbeat(j)
        PROVE  AbsStep
    BY <2>3, QuietStep DEF Heartbeat
  <2>4. CASE Crash
    BY <2>4, CrashImplements
  <2>5. CASE Startup
    BY <2>5, QuietStep DEF Startup
  <2>6. CASE UNCHANGED vars
    BY <2>6, QuietStep DEF vars
  <2> QED BY <2>1, <2>2, <2>3, <2>4, <2>5, <2>6 DEF Next
<1> QED BY <1>1, <1>2, IInvHolds, RInvHolds, PTL DEF Spec, AbsSpec, Abs!AbsSpec

-----------------------------------------------------------------------------
(***************************************************************************)
(* The second half is about GpuGuard, for any services and GPUs, any       *)
(* programs that come and go on them and any number of such changes.       *)
(*                                                                         *)
(* Neither AdmittedFits nor DeniedOnlyWhenFull is inductive: both are      *)
(* decided by a measurement some steps earlier.  GuardInv says what of a   *)
(* measurement is still true until somebody else changes the memory.       *)
(***************************************************************************)

(* Sums over finite sets of processes. *)

(***************************************************************************)
(* Numbers have a least one.                                               *)
(***************************************************************************)
LEMMA HasLeast ==
    ASSUME NEW T, T \subseteq Nat, T # {}
    PROVE  \E m \in T : \A o \in T : m <= o
<1>1. PICK m \in T : \A o \in T : ~(<<o, m>> \in OpToRel(<, Nat))
  BY NatLessThanWellFounded, WFMin, Zenon
<1>2. \A o \in T : ~(o < m)
  BY <1>1 DEF OpToRel
<1>3. \A o \in T : m <= o
  BY <1>2
<1> QED BY <1>3

(***************************************************************************)
(* A set of subsets of a finite set has a smallest member: what the        *)
(* following lemmas use in place of an induction.                          *)
(***************************************************************************)
LEMMA Smallest ==
    ASSUME NEW S, IsFiniteSet(S), NEW B, B \subseteq SUBSET S, B # {}
    PROVE  \E T \in B : \A U \in B : U \subseteq T => U = T
<1> DEFINE sizes == {Cardinality(U) : U \in B}
<1>1. \A U \in B : IsFiniteSet(U) /\ Cardinality(U) \in Nat
  BY FS_Subset, FS_CardinalityType
<1>2. sizes \subseteq Nat /\ sizes # {}
  BY <1>1
<1>3. \E m \in sizes : \A o \in sizes : m <= o
  <2> HIDE DEF sizes
  <2> QED BY <1>2, HasLeast
<1>4. PICK T \in B : \A o \in sizes : Cardinality(T) <= o
  BY <1>3
<1>5. ASSUME NEW U \in B, U \subseteq T PROVE U = T
  <2>1. Cardinality(T) <= Cardinality(U)
    BY <1>4
  <2>2. Cardinality(U) <= Cardinality(T) /\ (Cardinality(T) = Cardinality(U) => T = U)
    BY <1>1, <1>5, FS_Subset
  <2>3. Cardinality(T) \in Nat /\ Cardinality(U) \in Nat
    BY <1>1
  <2> QED BY <2>1, <2>2, <2>3
<1> QED BY <1>5

(***************************************************************************)
(* The fold of the library, as a property of a function on the subsets.    *)
(***************************************************************************)
Chosen(s) == CHOOSE x \in s : TRUE
IsTotal(i, S) ==
    i = [s \in SUBSET S |-> IF s = {} THEN 0 ELSE Chosen(s).mem + i[s \ {Chosen(s)}]]

(***************************************************************************)
(* Sum is the value, for the whole set, of the function its definition     *)
(* chooses.                                                                *)
(***************************************************************************)
LEMMA SumIsTotal == ASSUME NEW S PROVE Sum(S) = (CHOOSE i : IsTotal(i, S))[S]
BY DEF Sum, MapThenSumSet, MapThenFoldSet, IsTotal, Chosen

(***************************************************************************)
(* Such a function counts nothing for the empty set, and one member and    *)
(* the rest for any other.                                                 *)
(***************************************************************************)
LEMMA TotalCases ==
    ASSUME NEW S, NEW i, IsTotal(i, S)
    PROVE  /\ i[{}] = 0
           /\ \A s \in SUBSET S : s # {} =>
                 /\ i[s] = Chosen(s).mem + i[s \ {Chosen(s)}]
                 /\ Chosen(s) \in s
BY DEF IsTotal, Chosen

(***************************************************************************)
(* Two of them agree on a finite set both speak of.                        *)
(***************************************************************************)
LEMMA TotalsAgree ==
    ASSUME NEW S, NEW i, IsTotal(i, S), NEW R, NEW j, IsTotal(j, R),
           NEW s, s \subseteq S, s \subseteq R, IsFiniteSet(s)
    PROVE  i[s] = j[s]
<1> DEFINE bad == {t \in SUBSET s : i[t] # j[t]}
<1> SUFFICES ASSUME bad # {} PROVE FALSE
  OBVIOUS
<1>0. bad \subseteq SUBSET s
  OBVIOUS
<1>1. PICK t \in bad : \A u \in bad : u \subseteq t => u = t
  <2> HIDE DEF bad
  <2> QED BY <1>0, Smallest
<1>2. t \in SUBSET S /\ t \in SUBSET R /\ i[t] # j[t]
  BY <1>1
<1>20. i[{}] = 0 /\ j[{}] = 0
  BY TotalCases
<1>21. t # {}
  BY <1>2, <1>20
<1>3. /\ i[t] = Chosen(t).mem + i[t \ {Chosen(t)}]
      /\ j[t] = Chosen(t).mem + j[t \ {Chosen(t)}]
      /\ Chosen(t) \in t
  <2>1. i[t] = Chosen(t).mem + i[t \ {Chosen(t)}] /\ Chosen(t) \in t
    BY <1>2, <1>21, TotalCases
  <2>2. j[t] = Chosen(t).mem + j[t \ {Chosen(t)}]
    BY <1>2, <1>21, TotalCases
  <2> QED BY <2>1, <2>2
<1>4. t \ {Chosen(t)} \notin bad
  BY <1>1, <1>3
<1>5. i[t \ {Chosen(t)}] = j[t \ {Chosen(t)}]
  BY <1>1, <1>4
<1> QED BY <1>2, <1>3, <1>5

(***************************************************************************)
(* Every finite set has one.                                               *)
(***************************************************************************)
LEMMA TotalExists ==
    ASSUME NEW S, IsFiniteSet(S)
    PROVE  \E i : IsTotal(i, S)
<1> DEFINE bad == {T \in SUBSET S : ~\E i : IsTotal(i, T)}
<1> SUFFICES ASSUME bad # {} PROVE FALSE
  OBVIOUS
<1>0. bad \subseteq SUBSET S
  OBVIOUS
<1>1. PICK T \in bad : \A U \in bad : U \subseteq T => U = T
  <2> HIDE DEF bad
  <2> QED BY <1>0, Smallest
<1> DEFINE of(s) == CHOOSE i : IsTotal(i, s)
           below(s) == s \ {Chosen(s)}
           i == [s \in SUBSET T |-> IF s = {} THEN 0 ELSE Chosen(s).mem + of(below(s))[below(s)]]
<1>2. \A s \in SUBSET T : s # T => IsTotal(of(s), s)
  BY <1>1
<1>3. \A s \in SUBSET T : s # {} => Chosen(s) \in s /\ below(s) \in SUBSET T /\ below(s) # T
  BY DEF Chosen
<1>4. ASSUME NEW s \in SUBSET T, s # T
      PROVE  i[s] = of(s)[s]
  <2>1. IsTotal(of(s), s)
    BY <1>2, <1>4
  <2>2. CASE s = {}
    BY <2>1, <2>2, TotalCases
  <2>3. CASE s # {}
    <3>1. IsTotal(of(below(s)), below(s)) /\ below(s) \subseteq s
      BY <1>2, <1>3, <2>3
    <3>2. IsFiniteSet(below(s))
      BY <1>1, <1>4, FS_Subset
    <3> HIDE DEF of, below
    <3>3. of(below(s))[below(s)] = of(s)[below(s)]
      BY <2>1, <3>1, <3>2, TotalsAgree
    <3> USE DEF below
    <3>4. of(s)[s] = Chosen(s).mem + of(s)[below(s)]
      BY <2>1, <2>3, TotalCases
    <3> QED BY <2>3, <3>3, <3>4
  <2> QED BY <2>2, <2>3
<1>5. \A s \in SUBSET T : s # {} => i[s] = Chosen(s).mem + i[below(s)]
  <2>1. \A s \in SUBSET T : s # {} => i[s] = Chosen(s).mem + of(below(s))[below(s)]
    OBVIOUS
  <2> HIDE DEF i, of, below
  <2> QED BY <1>3, <1>4, <2>1
<1>6. IsTotal(i, T)
  <2>1. i = [s \in SUBSET T |-> i[s]] /\ i[{}] = 0
    OBVIOUS
  <2> HIDE DEF i
  <2>2. \A s \in SUBSET T : i[s] = IF s = {} THEN 0 ELSE Chosen(s).mem + i[s \ {Chosen(s)}]
    BY <1>5, <2>1
  <2> QED BY <2>1, <2>2 DEF IsTotal
<1> HIDE DEF i
<1> QED BY <1>1, <1>6

(***************************************************************************)
(* The sum is taken process by process.                                    *)
(***************************************************************************)
LEMMA SumStep ==
    ASSUME NEW S, IsFiniteSet(S)
    PROVE  /\ Sum({}) = 0
           /\ S # {} => Chosen(S) \in S /\ Sum(S) = Chosen(S).mem + Sum(S \ {Chosen(S)})
<1> DEFINE of(s) == CHOOSE i : IsTotal(i, s)
<1>1. ASSUME NEW T, IsFiniteSet(T) PROVE IsTotal(of(T), T) /\ Sum(T) = of(T)[T]
  BY <1>1, TotalExists, SumIsTotal
<1> HIDE DEF of
<1>2. Sum({}) = 0
  BY <1>1, FS_EmptySet, TotalCases
<1>3. ASSUME S # {}
      PROVE  Chosen(S) \in S /\ Sum(S) = Chosen(S).mem + Sum(S \ {Chosen(S)})
  <2> DEFINE below == S \ {Chosen(S)}
  <2>1. IsFiniteSet(below)
    BY FS_Subset
  <2>2. IsTotal(of(S), S) /\ IsTotal(of(below), below)
    BY <1>1, <2>1
  <2>3. of(S)[S] = Chosen(S).mem + of(S)[below] /\ Chosen(S) \in S
    BY <1>3, <2>2, TotalCases
  <2>4. of(S)[below] = of(below)[below]
    <3>1. below \subseteq S
      OBVIOUS
    <3> HIDE DEF below
    <3> QED BY <2>1, <2>2, <3>1, TotalsAgree
  <2>5. Sum(S) = of(S)[S] /\ Sum(below) = of(below)[below]
    BY <1>1, <2>1
  <2> QED BY <2>3, <2>4, <2>5
<1> QED BY <1>2, <1>3

Sizes(S) == \A p \in S : p.mem \in Nat

(***************************************************************************)
(* Sizes add up to a size.                                                 *)
(***************************************************************************)
LEMMA SumType ==
    ASSUME NEW S, IsFiniteSet(S), Sizes(S)
    PROVE  Sum(S) \in Nat
<1> DEFINE bad == {T \in SUBSET S : Sum(T) \notin Nat}
<1> SUFFICES ASSUME bad # {} PROVE FALSE
  OBVIOUS
<1>0. bad \subseteq SUBSET S
  OBVIOUS
<1>1. PICK T \in bad : \A U \in bad : U \subseteq T => U = T
  <2> HIDE DEF bad
  <2> QED BY <1>0, Smallest
<1>2. IsFiniteSet(T)
  BY FS_Subset
<1>3. T # {}
  <2>0. Sum({}) = 0
    BY FS_EmptySet, SumStep
  <2>1. Sum({}) \in Nat
    BY <2>0
  <2>2. Sum(T) \notin Nat
    BY <1>1
  <2>3. T = {} => Sum(T) = Sum({})
    BY Zenon
  <2> QED BY <2>1, <2>2, <2>3
<1>4. Chosen(T) \in T /\ Sum(T) = Chosen(T).mem + Sum(T \ {Chosen(T)})
  BY <1>2, <1>3, SumStep
<1>5. T \ {Chosen(T)} \notin bad
  BY <1>1, <1>4
<1>6. Sum(T \ {Chosen(T)}) \in Nat /\ Chosen(T).mem \in Nat
  BY <1>4, <1>5 DEF Sizes
<1> QED BY <1>1, <1>4, <1>6

(***************************************************************************)
(* Which process is counted first makes no difference.                     *)
(***************************************************************************)
LEMMA SumWithout ==
    ASSUME NEW S, IsFiniteSet(S), Sizes(S), NEW x \in S
    PROVE  Sum(S) = x.mem + Sum(S \ {x})
<1> DEFINE bad == {T \in SUBSET S : \E y \in T : Sum(T) # y.mem + Sum(T \ {y})}
<1> SUFFICES ASSUME bad # {} PROVE FALSE
  OBVIOUS
<1>0. bad \subseteq SUBSET S
  OBVIOUS
<1>1. PICK T \in bad : \A U \in bad : U \subseteq T => U = T
  <2> HIDE DEF bad
  <2> QED BY <1>0, Smallest
<1>2. PICK y \in T : Sum(T) # y.mem + Sum(T \ {y})
  BY <1>1
<1> DEFINE c == Chosen(T)
<1>3. \A U \in SUBSET T : IsFiniteSet(U) /\ Sizes(U)
  BY <1>1, FS_Subset DEF Sizes
<1>4. c \in T /\ Sum(T) = c.mem + Sum(T \ {c})
  BY <1>2, <1>3, SumStep
<1>5. c # y
  BY <1>2, <1>4
<1> HIDE DEF c
<1>6. Sum(T \ {c}) = y.mem + Sum((T \ {c}) \ {y})
  <2>1. T \ {c} \notin bad
    BY <1>1, <1>4
  <2> QED BY <1>1, <1>2, <1>5, <2>1
<1>7. Sum(T \ {y}) = c.mem + Sum((T \ {y}) \ {c})
  <2>1. T \ {y} \notin bad
    BY <1>1, <1>2
  <2> QED BY <1>1, <1>4, <1>5, <2>1
<1>8. (T \ {c}) \ {y} = (T \ {y}) \ {c}
  OBVIOUS
<1>9. /\ c.mem \in Nat /\ y.mem \in Nat /\ Sum((T \ {y}) \ {c}) \in Nat
  BY <1>2, <1>3, <1>4, SumType DEF Sizes
<1> QED BY <1>2, <1>4, <1>6, <1>7, <1>8, <1>9

(***************************************************************************)
(* More processes hold no less.                                            *)
(***************************************************************************)
LEMMA SumOfMore ==
    ASSUME NEW S, IsFiniteSet(S), Sizes(S), NEW R, R \subseteq S
    PROVE  Sum(R) <= Sum(S)
<1> DEFINE bad == {T \in SUBSET S : R \subseteq T /\ ~(Sum(R) <= Sum(T))}
<1> SUFFICES ASSUME bad # {} PROVE FALSE
  OBVIOUS
<1>0. bad \subseteq SUBSET S
  OBVIOUS
<1>1. PICK T \in bad : \A U \in bad : U \subseteq T => U = T
  <2> HIDE DEF bad
  <2> QED BY <1>0, Smallest
<1>2. \A U \in SUBSET S : IsFiniteSet(U) /\ Sizes(U) /\ Sum(U) \in Nat
  BY FS_Subset, SumType DEF Sizes
<1>3. R # T
  BY <1>1, <1>2
<1>4. PICK x \in T : x \notin R
  BY <1>1, <1>3
<1>5. Sum(T) = x.mem + Sum(T \ {x})
  BY <1>1, <1>2, <1>4, SumWithout
<1>6. T \ {x} \notin bad
  BY <1>1, <1>4
<1>7. Sum(R) <= Sum(T \ {x})
  BY <1>1, <1>4, <1>6
<1>8. x.mem \in Nat /\ Sum(R) \in Nat /\ Sum(T \ {x}) \in Nat
  BY <1>1, <1>2, <1>4 DEF Sizes
<1> QED BY <1>1, <1>5, <1>7, <1>8

-----------------------------------------------------------------------------
(* The invariant. *)

Placed(s) == GpuOf[s] # NoGpu

\* The model of s is loaded or has room.
Fits(s) == s \in resident \/ Footprint[s] <= Free(GpuOf[s])

\* What the guard may refuse a job for.
Full(s) ==
    \/ Free(GpuOf[s]) + Tolerance[s] < Estimate[s]
    \/ Reserved(GpuOf[s], {})

\* What a measurement that still holds says of the job's service.
Measured(s) ==
    fresh /\ step.for = s /\ Placed(s) =>
        /\ step.at = "admitted" => Fits(s)
        /\ step.at \in {"selfUnloading", "denied"} /\ s \notin resident /\ s \in Unloaders
              => Full(s)

GuardInv ==
    /\ GuardType
    /\ IsFiniteSet(Processes)
    /\ step.at = "unloading" => ~fresh
    /\ step.at \in {"measuring", "measuringAgain", "selfUnloading"} => Estimate[step.for] > 0
    /\ AdmittedFits
    /\ \A s \in Services : Measured(s)

-----------------------------------------------------------------------------
(* What the memory adds up to. *)

(***************************************************************************)
(* Every process on a GPU, of a program or of a model, has a size.         *)
(***************************************************************************)
LEMMA ProcessesHaveSizes ==
    ASSUME GuardType
    PROVE  Sizes(Processes)
BY GuardAssumption, ProcessAssumption DEF Sizes, Processes, ProcessOf, GuardType

(***************************************************************************)
(* Whatever part of the processes is looked at, its memory is a number,    *)
(* and so is what is free of a GPU.                                        *)
(***************************************************************************)
LEMMA MemoryType ==
    ASSUME GuardType, IsFiniteSet(Processes)
    PROVE  /\ \A P \in SUBSET Processes : IsFiniteSet(P) /\ Sizes(P) /\ Sum(P) \in Nat
           /\ \A g \in Gpus : Free(g) \in Int
<1>1. \A P \in SUBSET Processes : IsFiniteSet(P) /\ Sizes(P)
  BY ProcessesHaveSizes, FS_Subset DEF Sizes
<1>2. \A P \in SUBSET Processes : Sum(P) \in Nat
  BY <1>1, SumType
<1>3. ASSUME NEW g \in Gpus PROVE Free(g) \in Int
  <2> DEFINE P == {p \in Processes : p.gpu = g}
  <2>1. P \in SUBSET Processes
    OBVIOUS
  <2>2. Sum(P) \in Nat /\ Capacity[g] \in Nat
    <3> HIDE DEF P
    <3> QED BY <1>2, <2>1, GuardAssumption
  <2>3. Free(g) = Capacity[g] - Sum(P)
    BY Zenon DEF Free
  <2> HIDE DEF P
  <2> QED BY <2>2, <2>3
<1> QED BY <1>1, <1>2, <1>3

(***************************************************************************)
(* What a service holds is a number, and nothing once its model is gone:   *)
(* nobody else's process has its container's name.                         *)
(***************************************************************************)
LEMMA ReclaimableType ==
    ASSUME GuardType, IsFiniteSet(Processes), NEW s \in Services, NEW hidden
    PROVE  /\ Reclaimable(s, hidden) \in Nat
           /\ s \notin resident => Reclaimable(s, hidden) = 0
<1> DEFINE own == {p \in Listed(GpuOf[s], hidden) : p.name = s}
<1>1. own \in SUBSET Processes
  BY DEF Listed
<1>2. Reclaimable(s, hidden) = Sum(own)
  BY Zenon DEF Reclaimable
<1>3. ASSUME s \notin resident PROVE own = {}
  <2> SUFFICES ASSUME NEW p \in own PROVE FALSE
    OBVIOUS
  <2>1. p \in Processes /\ p.name = s
    BY DEF Listed
  <2>2. p \notin running
    BY <2>1, ProcessAssumption DEF GuardType
  <2>3. p \notin {ProcessOf(r) : r \in resident}
    BY <2>1, <1>3 DEF ProcessOf
  <2> QED BY <2>1, <2>2, <2>3 DEF Processes
<1> HIDE DEF own
<1>4. Sum({}) = 0
  BY FS_EmptySet, SumStep
<1> QED BY <1>1, <1>2, <1>3, <1>4, MemoryType

(***************************************************************************)
(* A GPU that is reserved by what is listed is reserved by what is there:  *)
(* a process that is hidden can only hold more.                            *)
(***************************************************************************)
LEMMA ReservedAlways ==
    ASSUME GuardType, IsFiniteSet(Processes), NEW g, NEW hidden, Reserved(g, hidden)
    PROVE  Reserved(g, {})
<1> DEFINE strange(h) == {p \in Listed(g, h) : p.name \notin Known \cup Services}
<1>1. strange(hidden) \subseteq strange({}) /\ strange({}) \in SUBSET Processes
  BY DEF Listed
<1>2. /\ g \in Protected
      /\ \/ \E p \in Listed(g, hidden) : p.name = Comfy
         \/ Sum(strange(hidden)) > UnknownLimit
  BY DEF Reserved
<1>3. Listed(g, hidden) \subseteq Listed(g, {})
  BY DEF Listed
<1>4. ASSUME Sum(strange(hidden)) > UnknownLimit PROVE Sum(strange({})) > UnknownLimit
  <2> HIDE DEF strange
  <2>1. strange(hidden) \in SUBSET Processes
    BY <1>1
  <2>2. IsFiniteSet(strange({})) /\ Sizes(strange({}))
    BY <1>1, MemoryType
  <2>3. Sum(strange({})) \in Nat /\ Sum(strange(hidden)) \in Nat
    BY <1>1, <2>1, MemoryType
  <2>4. Sum(strange(hidden)) <= Sum(strange({}))
    BY <1>1, <2>2, SumOfMore
  <2> QED BY <1>4, <2>3, <2>4, GuardAssumption
<1>5. \/ \E p \in Listed(g, {}) : p.name = Comfy
      \/ Sum(strange({})) > UnknownLimit
  <2> HIDE DEF strange
  <2> QED BY <1>2, <1>3, <1>4
<1> QED BY <1>2, <1>5 DEF Reserved

(***************************************************************************)
(* A job that is allowed, by a list with any process missing, has room for *)
(* its model.                                                              *)
(***************************************************************************)
LEMMA AllowedFits ==
    ASSUME GuardType, IsFiniteSet(Processes), NEW s \in Services, NEW hidden,
           Placed(s), Estimate[s] > 0, Allowed(s, hidden)
    PROVE  Fits(s)
<1> SUFFICES ASSUME s \notin resident PROVE Footprint[s] <= Free(GpuOf[s])
  BY DEF Fits
<1>1. GpuOf[s] \in Gpus
  BY GuardAssumption DEF Placed
<1>2. Free(GpuOf[s]) \in Int /\ Reclaimable(s, hidden) = 0
  BY <1>1, MemoryType, ReclaimableType
<1>3. Free(GpuOf[s]) + Reclaimable(s, hidden) + Tolerance[s] >= Estimate[s]
  BY DEF Allowed
<1>4. /\ Footprint[s] \in Nat /\ Tolerance[s] \in Nat /\ Estimate[s] \in Nat
      /\ Footprint[s] + Tolerance[s] <= Estimate[s]
  BY GuardAssumption
<1> QED BY <1>2, <1>3, <1>4

(***************************************************************************)
(* A job that is refused, by a list with any process missing, is refused   *)
(* for what is there.                                                      *)
(***************************************************************************)
LEMMA RefusedIsFull ==
    ASSUME GuardType, IsFiniteSet(Processes), NEW s \in Services, NEW hidden,
           Placed(s), ~Allowed(s, hidden)
    PROVE  Full(s)
<1>1. GpuOf[s] \in Gpus
  BY GuardAssumption DEF Placed
<1>2. Free(GpuOf[s]) \in Int /\ Reclaimable(s, hidden) \in Nat
  BY <1>1, MemoryType, ReclaimableType
<1>3. Tolerance[s] \in Nat /\ Estimate[s] \in Nat
  BY GuardAssumption
<1>4. CASE Reserved(GpuOf[s], hidden)
  BY <1>4, ReservedAlways DEF Full
<1>5. CASE ~(Free(GpuOf[s]) + Reclaimable(s, hidden) + Tolerance[s] >= Estimate[s])
  BY <1>2, <1>3, <1>5 DEF Full
<1> QED BY <1>4, <1>5 DEF Allowed

-----------------------------------------------------------------------------
(* The steps. *)

(***************************************************************************)
(* At moves the worker and nothing else of its step.                       *)
(***************************************************************************)
LEMMA AtFacts ==
    ASSUME GuardType, NEW place \in Places, At(place)
    PROVE  /\ step' \in [at : Places, for : Services, calls : SUBSET Services]
           /\ step'.at = place /\ step'.for = step.for /\ step'.calls = step.calls
BY DEF At, GuardType

(***************************************************************************)
(* Processes that end leave finitely many.                                 *)
(***************************************************************************)
LEMMA NoMoreProcesses ==
    ASSUME IsFiniteSet(Processes), resident' \subseteq resident, running' \subseteq running
    PROVE  IsFiniteSet(Processes')
<1>1. Processes' \subseteq Processes
  BY DEF Processes, ProcessOf
<1> QED BY <1>1, FS_Subset

(***************************************************************************)
(* A program or a model more leaves finitely many.                         *)
(***************************************************************************)
LEMMA OneMoreProcess ==
    ASSUME IsFiniteSet(Processes), NEW p,
           \/ UNCHANGED resident /\ running' = running \cup {p}
           \/ UNCHANGED running /\ \E s : p = ProcessOf(s) /\ resident' = resident \cup {s}
    PROVE  IsFiniteSet(Processes')
<1>1. Processes' = Processes \cup {p}
  BY DEF Processes, ProcessOf
<1> QED BY <1>1, FS_AddElement

\* While the memory is as it was measured, what was measured of it stays.
LEMMA MemoryStays ==
    ASSUME UNCHANGED <<resident, running>>
    PROVE  /\ Processes' = Processes
           /\ \A s : (Fits(s)' <=> Fits(s)) /\ (Full(s)' <=> Full(s))
<1>1. Processes' = Processes
  BY DEF Processes, ProcessOf
<1>2. \A g : Free(g)' = Free(g)
  BY <1>1 DEF Free
<1>3. \A g, hidden : Listed(g, hidden)' = Listed(g, hidden)
  BY <1>1 DEF Listed
<1>4. \A g, hidden : Reserved(g, hidden)' <=> Reserved(g, hidden)
  BY <1>3 DEF Reserved
<1>5. \A s : Fits(s)' <=> Fits(s)
  BY <1>2 DEF Fits
<1>6. \A s : Full(s)' <=> Full(s)
  BY <1>2, <1>4 DEF Full
<1> QED BY <1>1, <1>5, <1>6

\* What happened elsewhere leaves no measurement that holds.
LEMMA NothingMeasured ==
    ASSUME fresh' = FALSE
    PROVE  /\ AdmittedFits'
           /\ \A s \in Services : Measured(s)'
           /\ step'.at = "unloading" => ~fresh'
BY DEF AdmittedFits, Measured

(***************************************************************************)
(* GuardInv holds at the start: nothing is loaded and nothing was          *)
(* measured.                                                               *)
(***************************************************************************)
LEMMA GuardInvInit ==
    ASSUME GuardInit
    PROVE  GuardInv
<1>1. Processes = {}
  BY DEF GuardInit, Processes, ProcessOf
<1>2. IsFiniteSet(Processes)
  BY <1>1, FS_EmptySet
<1> DEFINE first == CHOOSE s \in Services : TRUE
<1>3. step = [at |-> "idle", for |-> first, calls |-> {}]
  BY DEF GuardInit
<1>4. first \in Services
  BY ProcessAssumption
<1> HIDE DEF first
<1>5. step \in [at : Places, for : Services, calls : SUBSET Services]
  BY <1>3, <1>4 DEF Places
<1>6. resident = {} /\ running = {} /\ fresh = FALSE /\ changes \in 0..MaxChanges
  BY GuardAssumption DEF GuardInit
<1>7. GuardType
  BY <1>5, <1>6 DEF GuardType
<1> QED BY <1>2, <1>3, <1>6, <1>7 DEF GuardInv, AdmittedFits, Measured

(***************************************************************************)
(* A job that is taken has not been measured.                              *)
(***************************************************************************)
LEMMA TakeKeeps ==
    ASSUME GuardInv, NEW s \in Services, Take(s)
    PROVE  GuardInv'
<1> DEFINE calls == Unloaders \ Keep(s)
<1>1. step' = [at |-> "unloading", for |-> s, calls |-> calls] /\ fresh' = FALSE
  BY DEF Take
<1>2. calls \in SUBSET Services
  BY GuardAssumption
<1> HIDE DEF calls
<1>3. step' \in [at : Places, for : Services, calls : SUBSET Services]
  BY <1>1, <1>2 DEF Places
<1>4. GuardType'
  BY <1>1, <1>3 DEF GuardInv, GuardType, Take
<1>5. IsFiniteSet(Processes')
  BY MemoryStays DEF GuardInv, Take
<1>6. step'.at = "unloading"
  BY <1>1
<1> QED BY <1>1, <1>4, <1>5, <1>6, NothingMeasured DEF GuardInv

(***************************************************************************)
(* While the callbacks are waited for nothing has been measured.           *)
(***************************************************************************)
LEMMA UnloadConflictKeeps ==
    ASSUME GuardInv, NEW s \in Services, UnloadConflict(s)
    PROVE  GuardInv'
<1>1. GuardType'
  BY DEF GuardInv, GuardType, UnloadConflict, Unload
<1>2. IsFiniteSet(Processes')
  BY NoMoreProcesses DEF GuardInv, UnloadConflict, Unload
<1>3. step'.at = "unloading" /\ fresh' = FALSE
  BY DEF GuardInv, GuardType, UnloadConflict
<1> QED BY <1>1, <1>2, <1>3, NothingMeasured DEF GuardInv

(***************************************************************************)
(* A service without an estimate is admitted without a measurement.        *)
(***************************************************************************)
LEMMA UnguardedKeeps ==
    ASSUME GuardInv, Unguarded
    PROVE  GuardInv'
<1>1. /\ step' \in [at : Places, for : Services, calls : SUBSET Services]
      /\ step'.at = "admitted" /\ step'.for = step.for
  BY AtFacts DEF GuardInv, Unguarded, Places
<1>2. GuardType'
  BY <1>1 DEF GuardInv, GuardType, Unguarded
<1>3. IsFiniteSet(Processes')
  BY MemoryStays DEF GuardInv, Unguarded
<1>4. fresh' = FALSE
  BY DEF GuardInv, GuardType, Unguarded
<1> QED BY <1>1, <1>2, <1>3, <1>4, NothingMeasured DEF GuardInv

(***************************************************************************)
(* Only a service with an estimate is measured.                            *)
(***************************************************************************)
LEMMA GuardKeeps ==
    ASSUME GuardInv, Guard
    PROVE  GuardInv'
<1>1. /\ step' \in [at : Places, for : Services, calls : SUBSET Services]
      /\ step'.at = "measuring" /\ step'.for = step.for
  BY AtFacts DEF GuardInv, Guard, Places
<1>2. GuardType'
  BY <1>1 DEF GuardInv, GuardType, Guard
<1>3. IsFiniteSet(Processes')
  BY MemoryStays DEF GuardInv, Guard
<1>4. fresh' = FALSE
  BY DEF GuardInv, GuardType, Guard
<1>5. Estimate[step'.for] > 0
  BY <1>1 DEF Guard
<1> QED BY <1>1, <1>2, <1>3, <1>4, <1>5, NothingMeasured DEF GuardInv

(***************************************************************************)
(* A measurement that admits the job finds room for its model, whatever is *)
(* hidden from the list; one that refuses it finds the GPU full for it.    *)
(***************************************************************************)
LEMMA MeasureKeeps ==
    ASSUME GuardInv, Measure
    PROVE  GuardInv'
<1> DEFINE s == step.for
<1>0. GuardType /\ IsFiniteSet(Processes) /\ s \in Services /\ Placed(s) /\ Estimate[s] > 0
  BY DEF GuardInv, GuardType, Measure, Placed
<1>1. PICK hidden : At(IF Allowed(s, hidden) THEN "admitted" ELSE Refused)
  BY DEF Measure
<1> HIDE DEF s
<1>2. Refused \in {"selfUnloading", "denied"} /\ Refused \in Places
  BY DEF Refused, Places
<1> DEFINE place == IF Allowed(s, hidden) THEN "admitted" ELSE Refused
<1>3. place \in Places /\ At(place)
  BY <1>1, <1>2 DEF Places
<1>4. place \in {"admitted", "selfUnloading", "denied"}
  BY <1>2
<1>5. /\ place = "admitted" => Allowed(s, hidden)
      /\ place # "admitted" => ~Allowed(s, hidden)
  BY <1>2
<1> HIDE DEF place
<1>6. /\ step' \in [at : Places, for : Services, calls : SUBSET Services]
      /\ step'.at = place /\ step'.for = s
  BY <1>0, <1>3, AtFacts DEF s
<1>7. GuardType'
  BY <1>0, <1>6 DEF GuardType, Measure
<1>8. UNCHANGED <<resident, running>>
  BY DEF Measure
<1>9. IsFiniteSet(Processes')
  BY <1>0, <1>8, MemoryStays
<1>10. AdmittedFits' /\ step'.at \notin {"unloading", "measuring", "measuringAgain"}
  BY <1>4, <1>6 DEF AdmittedFits
<1>11. ASSUME NEW r \in Services PROVE Measured(r)'
  <2>1. SUFFICES ASSUME r = s
                 PROVE  /\ place = "admitted" => Fits(r)'
                        /\ place # "admitted" => Full(r)'
    BY <1>4, <1>6 DEF Measured
  <2>2. CASE place = "admitted"
    BY <1>0, <1>5, <1>8, <2>1, <2>2, AllowedFits, MemoryStays
  <2>3. CASE place # "admitted"
    BY <1>0, <1>5, <1>8, <2>1, <2>3, RefusedIsFull, MemoryStays
  <2> QED BY <2>2, <2>3
<1>12. step'.at = "selfUnloading" => Estimate[step'.for] > 0
  BY <1>0, <1>6
<1> QED BY <1>7, <1>9, <1>10, <1>11, <1>12 DEF GuardInv

\* An answer without the job's GPU, or none at all, says nothing of the memory.
LEMMA NoMeasurementKeeps ==
    ASSUME GuardInv, NotReported \/ MeasurementFails
    PROVE  GuardInv'
<1>1. PICK place \in {"admitted", "selfUnloading", "denied"} : At(place)
  BY DEF NotReported, MeasurementFails, Refused
<1>2. place \in Places /\ GuardType
  BY <1>1 DEF Places, GuardInv
<1>3. /\ step' \in [at : Places, for : Services, calls : SUBSET Services]
      /\ step'.at = place /\ step'.for = step.for
  BY <1>1, <1>2, AtFacts
<1>4. fresh' = FALSE /\ UNCHANGED <<resident, running, changes>>
  BY DEF NotReported, MeasurementFails
<1>5. GuardType'
  BY <1>2, <1>3, <1>4 DEF GuardType
<1>6. IsFiniteSet(Processes')
  BY <1>4, MemoryStays DEF GuardInv
<1>7. Estimate[step'.for] > 0
  BY <1>3 DEF GuardInv, NotReported, MeasurementFails
<1>8. step'.at \notin {"unloading", "measuring", "measuringAgain"}
  BY <1>1, <1>3
<1> QED BY <1>4, <1>5, <1>6, <1>7, <1>8, NothingMeasured DEF GuardInv

(***************************************************************************)
(* A service that unloads itself is measured again; one whose callback     *)
(* fails is refused for the reason that was measured.                      *)
(***************************************************************************)
LEMMA UnloadItselfKeeps ==
    ASSUME GuardInv, UnloadItself
    PROVE  GuardInv'
<1>0. GuardType /\ IsFiniteSet(Processes) /\ Estimate[step.for] > 0
  BY DEF GuardInv, UnloadItself
<1>1. CASE Unload(step.for) /\ At("measuringAgain")
  <2>1. /\ step' \in [at : Places, for : Services, calls : SUBSET Services]
        /\ step'.at = "measuringAgain" /\ step'.for = step.for
    BY <1>0, <1>1, AtFacts DEF Places
  <2>2. resident' \subseteq resident /\ UNCHANGED <<running, fresh, changes>>
    BY <1>1 DEF UnloadItself, Unload
  <2>3. GuardType'
    BY <1>0, <2>1, <2>2 DEF GuardType
  <2>4. IsFiniteSet(Processes')
    BY <1>0, <2>2, NoMoreProcesses
  <2>5. AdmittedFits' /\ \A s \in Services : Measured(s)'
    BY <2>1 DEF AdmittedFits, Measured
  <2> QED BY <1>0, <2>1, <2>3, <2>4, <2>5 DEF GuardInv
<1>2. CASE UNCHANGED resident /\ At("denied")
  <2>1. /\ step' \in [at : Places, for : Services, calls : SUBSET Services]
        /\ step'.at = "denied" /\ step'.for = step.for
    BY <1>0, <1>2, AtFacts DEF Places
  <2>2. UNCHANGED <<resident, running, fresh, changes>>
    BY <1>2 DEF UnloadItself
  <2>3. GuardType'
    BY <1>0, <2>1, <2>2 DEF GuardType
  <2>4. IsFiniteSet(Processes')
    BY <1>0, <2>2, MemoryStays
  <2>5. ASSUME NEW s \in Services PROVE Measured(s)'
    <3>1. Measured(s) /\ (Full(s)' <=> Full(s)) /\ step.at = "selfUnloading"
      BY <2>2, MemoryStays DEF GuardInv, UnloadItself
    <3> QED BY <2>1, <2>2, <3>1 DEF Measured
  <2> QED BY <2>1, <2>3, <2>4, <2>5 DEF GuardInv, AdmittedFits
<1> QED BY <1>1, <1>2 DEF UnloadItself

(***************************************************************************)
(* The model of an admitted job that does not fit had its room taken       *)
(* after the measurement.                                                  *)
(***************************************************************************)
LEMMA StartWorkKeeps ==
    ASSUME GuardInv, StartWork
    PROVE  GuardInv'
<1> DEFINE s == step.for
<1>0. GuardType /\ IsFiniteSet(Processes) /\ s \in Services /\ step.at = "admitted"
  BY DEF GuardInv, GuardType, StartWork
<1>1. PICK place \in {"working", "outOfMemory"} : At(place)
  BY DEF StartWork
<1>2. /\ step' \in [at : Places, for : Services, calls : SUBSET Services]
      /\ step'.at = place /\ step'.for = s
  BY <1>0, <1>1, AtFacts DEF Places
<1>3. UNCHANGED <<running, fresh, changes>>
  BY DEF StartWork
<1>4. resident' = resident \/ resident' = resident \cup {s}
  BY DEF StartWork
<1>5. GuardType'
  BY <1>0, <1>2, <1>3, <1>4 DEF GuardType
<1>6. IsFiniteSet(Processes')
  <2>1. CASE resident' = resident
    BY <1>0, <1>3, <2>1, MemoryStays
  <2>2. CASE resident' = resident \cup {s}
    BY <1>0, <1>3, <2>2, OneMoreProcess
  <2> QED BY <1>4, <2>1, <2>2
<1>7. ASSUME place = "outOfMemory" PROVE ~fresh
  <2>1. At("outOfMemory") /\ step'.at = "outOfMemory"
    BY <1>1, <1>2, <1>7
  <2>2. ~At("working")
    BY <2>1, <1>0 DEF At, GuardType
  <2>3. Placed(s) /\ ~Fits(s)
    BY <2>2 DEF StartWork, Placed, Fits
  <2>4. Measured(s)
    BY <1>0 DEF GuardInv
  <2> QED BY <1>0, <2>3, <2>4 DEF Measured
<1>8. AdmittedFits'
  BY <1>2, <1>3, <1>7 DEF AdmittedFits
<1>9. \A r \in Services : Measured(r)'
  BY <1>1, <1>2 DEF Measured
<1> QED BY <1>1, <1>2, <1>5, <1>6, <1>8, <1>9 DEF GuardInv

(***************************************************************************)
(* After the work nothing is claimed of the worker.                        *)
(***************************************************************************)
LEMMA WorkEndsKeeps ==
    ASSUME GuardInv, WorkEnds
    PROVE  GuardInv'
<1>1. /\ step' \in [at : Places, for : Services, calls : SUBSET Services]
      /\ step'.at = "idle" /\ step'.for = step.for
  BY AtFacts DEF GuardInv, WorkEnds, Places
<1>2. GuardType'
  BY <1>1 DEF GuardInv, GuardType, WorkEnds
<1>3. IsFiniteSet(Processes')
  BY MemoryStays DEF GuardInv, WorkEnds
<1> QED BY <1>1, <1>2, <1>3 DEF GuardInv, AdmittedFits, Measured

(***************************************************************************)
(* Whatever happens elsewhere, finitely many processes are there and no    *)
(* measurement holds any more.                                             *)
(***************************************************************************)
LEMMA ElsewhereKeeps ==
    ASSUME GuardInv, Changes,
           \/ \E s \in Services : LoadsElsewhere(s) \/ FallsIdle(s)
           \/ \E p \in Others : Begins(p) \/ EndsElsewhere(p)
    PROVE  GuardInv'
<1>1. /\ resident' \subseteq Services /\ running' \subseteq Others
  BY DEF GuardInv, GuardType, LoadsElsewhere, FallsIdle, Begins, EndsElsewhere
<1>2. changes' \in 0..MaxChanges /\ fresh' = FALSE /\ step' = step
  BY GuardAssumption DEF GuardInv, GuardType, Changes
<1>3. GuardType'
  BY <1>1, <1>2 DEF GuardInv, GuardType
<1>4. IsFiniteSet(Processes')
  <2>1. CASE \E s \in Services : LoadsElsewhere(s)
    BY <2>1, OneMoreProcess DEF GuardInv, LoadsElsewhere
  <2>2. CASE \E p \in Others : Begins(p)
    BY <2>2, OneMoreProcess DEF GuardInv, Begins
  <2>3. CASE (\E s \in Services : FallsIdle(s)) \/ \E p \in Others : EndsElsewhere(p)
    BY <2>3, NoMoreProcesses DEF GuardInv, FallsIdle, EndsElsewhere
  <2> QED BY <2>1, <2>2, <2>3
<1> QED BY <1>2, <1>3, <1>4, NothingMeasured DEF GuardInv

(***************************************************************************)
(* A step that changes nothing.                                            *)
(***************************************************************************)
LEMMA GuardStands ==
    ASSUME GuardInv, UNCHANGED gvars
    PROVE  GuardInv'
<1>1. GuardType' /\ AdmittedFits'
  BY DEF GuardInv, GuardType, AdmittedFits, gvars
<1>2. IsFiniteSet(Processes')
  BY MemoryStays DEF GuardInv, gvars
<1>3. ASSUME NEW s \in Services PROVE Measured(s)'
  BY MemoryStays DEF GuardInv, gvars, Measured
<1> QED BY <1>1, <1>2, <1>3 DEF GuardInv, gvars

(***************************************************************************)
(* GuardInv holds always, for any services and GPUs: the two theorems      *)
(* below follow from it.                                                   *)
(***************************************************************************)
THEOREM GuardInvariant == GuardSpec => []GuardInv
<1>1. GuardInit => GuardInv
  BY GuardInvInit
<1>2. GuardInv /\ [GuardNext]_gvars => GuardInv'
  <2> SUFFICES ASSUME GuardInv, [GuardNext]_gvars PROVE GuardInv'
    OBVIOUS
  <2>1. CASE Unguarded
    BY <2>1, UnguardedKeeps
  <2>2. CASE Guard
    BY <2>2, GuardKeeps
  <2>3. CASE Measure
    BY <2>3, MeasureKeeps
  <2>4. CASE NotReported \/ MeasurementFails
    BY <2>4, NoMeasurementKeeps
  <2>5. CASE UnloadItself
    BY <2>5, UnloadItselfKeeps
  <2>6. CASE StartWork
    BY <2>6, StartWorkKeeps
  <2>7. CASE WorkEnds
    BY <2>7, WorkEndsKeeps
  <2>8. ASSUME NEW s \in Services, Take(s) PROVE GuardInv'
    BY <2>8, TakeKeeps
  <2>9. ASSUME NEW s \in Services, UnloadConflict(s) PROVE GuardInv'
    BY <2>9, UnloadConflictKeeps
  <2>10. ASSUME NEW s \in Services, LoadsElsewhere(s) \/ FallsIdle(s) PROVE GuardInv'
    <3>1. Changes
      BY <2>10 DEF LoadsElsewhere, FallsIdle
    <3> QED BY <2>10, <3>1, ElsewhereKeeps
  <2>11. ASSUME NEW p \in Others, Begins(p) \/ EndsElsewhere(p) PROVE GuardInv'
    <3>1. Changes
      BY <2>11 DEF Begins, EndsElsewhere
    <3> QED BY <2>11, <3>1, ElsewhereKeeps
  <2>12. CASE UNCHANGED gvars
    BY <2>12, GuardStands
  <2> QED BY <2>1, <2>2, <2>3, <2>4, <2>5, <2>6, <2>7, <2>8, <2>9, <2>10, <2>11, <2>12
          DEF GuardNext
<1> QED BY <1>1, <1>2, PTL DEF GuardSpec

(***************************************************************************)
(* Everywhere, AdmittedFits: a job the guard admitted finds the memory its *)
(* model needs, unless somebody took some after the measurement            *)
(* (require_gpu_resources, _decision_for_service).                         *)
(***************************************************************************)
THEOREM AdmittedJobsFit == GuardSpec => []AdmittedFits
<1>1. GuardInv => AdmittedFits
  BY DEF GuardInv
<1> QED BY <1>1, GuardInvariant, PTL

(***************************************************************************)
(* Everywhere, DeniedOnlyWhenFull: a job whose own model is gone is        *)
(* refused only for too little memory or a reserved GPU                    *)
(* (_require_resources_with_self_unload).                                  *)
(***************************************************************************)
THEOREM RefusalsAreRight == GuardSpec => []DeniedOnlyWhenFull
<1>1. GuardInv => DeniedOnlyWhenFull
  <2> SUFFICES ASSUME GuardInv PROVE DeniedOnlyWhenFull
    OBVIOUS
  <2>1. step.for \in Services /\ Measured(step.for)
    BY DEF GuardInv, GuardType
  <2> QED BY <2>1 DEF DeniedOnlyWhenFull, Measured, Full, Placed
<1> QED BY <1>1, GuardInvariant, PTL
================================================================================
