------------------------------- MODULE GpuRows -------------------------------
(***************************************************************************)
(* The gpu_queue_jobs table of vocarium-api (database.py): what each of    *)
(* the statements that touch it does to a row.  A row is reduced to its    *)
(* status and its cancel flag; worker, texts, positions and timestamps do  *)
(* not decide anything the queue does.  These are operators on rows, used  *)
(* by GpuQueue, whose actions say when each statement runs.                *)
(***************************************************************************)
EXTENDS Naturals, FiniteSets

RowStatus == {"absent", "queued", "running", "cancel_requested",
              "completed", "failed", "cancelled", "interrupted"}

Rows == [status : RowStatus, cancel : BOOLEAN]

NoRow == [status |-> "absent", cancel |-> FALSE]

Waiting == {"queued", "running"}

Terminal == {"completed", "failed", "cancelled"}

\* The statuses gpu_queue_quota_decision counts.
Counted == {"queued", "running", "cancel_requested"}

(***************************************************************************)
(* upsert_gpu_queue_job: the cancel flag is sticky, and a flagged row      *)
(* turns an incoming queued or running into cancel_requested.              *)
(***************************************************************************)
Upsert(r, status, cancel) ==
    [status |-> IF r.cancel /\ status \in Waiting THEN "cancel_requested" ELSE status,
     cancel |-> r.cancel \/ cancel]

(***************************************************************************)
(* mark_interrupted_gpu_jobs, run once when the API process starts.        *)
(***************************************************************************)
Interrupt(r) ==
    IF r.status \in Waiting THEN [r EXCEPT !.status = "interrupted"] ELSE r

(***************************************************************************)
(* request_cancel_gpu_queue_job, the cancel of a job this process does not *)
(* hold in memory.                                                         *)
(***************************************************************************)
RequestCancel(r) ==
    IF r.status \in Terminal \cup {"absent"}
    THEN r
    ELSE [status |-> "cancel_requested", cancel |-> TRUE]

(***************************************************************************)
(* is_gpu_queue_cancel_requested.                                          *)
(***************************************************************************)
CancelFlag(r) == r.cancel \/ r.status = "cancel_requested"

(***************************************************************************)
(* gpu_queue_quota_decision over the rows `own` of one user; a limit of 0  *)
(* is no limit.                                                            *)
(***************************************************************************)
QuotaAllows(row, own, maxActive, maxQueued) ==
    LET active == Cardinality({j \in own : row[j].status \in Counted})
        queued == Cardinality({j \in own : row[j].status = "queued"})
    IN  /\ maxActive > 0 => active < maxActive
        /\ maxQueued > 0 => queued < maxQueued
=============================================================================
