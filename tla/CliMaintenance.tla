----------------------------- MODULE CliMaintenance -----------------------------
(***************************************************************************)
(* vocarium-agent/maintenance.py: the jobs that check, refresh and update  *)
(* the provider CLIs of the agent.                                         *)
(*                                                                         *)
(* One job runs at a time, on a thread of its own, under the lock the runs *)
(* of the models take too (RUN_LOCK).  An update installs a release beside *)
(* the others and moves the symlink the CLI is found by.  The job, and the *)
(* models a provider offered so far, are kept in status.json.  One CLI and *)
(* one provider are modelled: the jobs treat each of them alike.           *)
(***************************************************************************)
EXTENDS Integers, FiniteSets

CONSTANTS
    Models,       \* the models a provider may offer
    MaxUpdates    \* bound on the updates, each with a release of its own

ASSUME MaintenanceAssumption == Models # {} /\ MaxUpdates \in Nat

VARIABLES
    locked,     \* RUN_LOCK
    told,       \* Maintenance.state: the last job and the catalog
    saved,      \* status.json
    worker,     \* start() and the thread of work(): where it is and its release
    release,    \* the directories under releases/
    active,     \* what bin/<cli> points to; 0 is the CLI of the image
    updates     \* how many updates were begun

mvars == <<locked, told, saved, worker, release, active, updates>>

Kinds == {"check", "models", "update"}
Release == 1..MaxUpdates
Catalog == [models : SUBSET Models, retained : SUBSET Models]
Told == [job : {"none", "running", "completed", "failed"}, catalog : Catalog]
Place == {"idle", "start", "check", "fetch", "install", "verify", "swap", "record",
          "refresh", "finish"}
Disk == {"none", "partial", "whole", "wrong"}

MaintenanceType ==
    /\ locked \in BOOLEAN
    /\ told \in Told /\ saved \in Told
    /\ worker \in [at : Place, kind : Kinds, id : 0..MaxUpdates]
    /\ release \in [Release -> Disk]
    /\ active \in 0..MaxUpdates
    /\ updates \in 0..MaxUpdates

NoWorker == [at |-> "idle", kind |-> "check", id |-> 0]

MaintenanceInit ==
    /\ locked = FALSE
    /\ told = [job |-> "none", catalog |-> [models |-> {}, retained |-> {}]]
    /\ saved = told
    /\ worker = NoWorker
    /\ release = [r \in Release |-> "none"]
    /\ active = 0
    /\ updates = 0

\* Every model a run may ask for, beside the built-in ones.
KnownModels == told.catalog.models \cup told.catalog.retained

At(place) == worker' = [worker EXCEPT !.at = place]
JobIs(status) == told' = [told EXCEPT !.job = status]

\* save(): written beside the file and moved over it, so it is whole or old.
\* The disk may be full.
Save == saved' = told' \/ saved' = saved
Saves == saved' = told'
SaveFails == saved' = saved

(***************************************************************************)
(* start(): the lock is taken first, then a login that is under way is     *)
(* looked for.  The job is announced and saved before its thread starts; a *)
(* save that fails gives the lock back and leaves the job announced.       *)
(***************************************************************************)
\* Mutant of Acquire: the lock taken inside the try whose handler gives it back.
AcquireInside(kind) ==
    /\ worker.at = "idle"
    /\ IF locked THEN locked' = FALSE /\ UNCHANGED worker
                 ELSE locked' = TRUE /\ worker' = [at |-> "start", kind |-> kind, id |-> 0]
    /\ UNCHANGED <<told, saved, release, active, updates>>

Acquire(kind) ==
    /\ worker.at = "idle"
    /\ ~locked
    /\ locked' = TRUE
    /\ worker' = [at |-> "start", kind |-> kind, id |-> 0]
    /\ UNCHANGED <<told, saved, release, active, updates>>

Refuse(loginBusy) ==
    /\ worker.at = "start" /\ loginBusy
    /\ locked' = FALSE
    /\ worker' = NoWorker
    /\ UNCHANGED <<told, saved, release, active, updates>>

FirstPlace == CASE worker.kind = "check" -> "check"
                [] worker.kind = "models" -> "refresh"
                [] worker.kind = "update" -> "fetch"

Announce(loginBusy) ==
    /\ worker.at = "start" /\ ~loginBusy
    /\ JobIs("running")
    /\ \/ Saves /\ At(FirstPlace) /\ UNCHANGED locked
       \/ SaveFails /\ locked' = FALSE /\ worker' = NoWorker
    /\ UNCHANGED <<release, active, updates>>

\* check_versions(): reads both versions; what it cannot read it leaves alone.
Check ==
    /\ worker.at = "check"
    /\ JobIs("completed") /\ At("finish")
    /\ UNCHANGED <<locked, saved, release, active, updates>>

(***************************************************************************)
(* install(): npm fills a directory that nobody uses yet, the CLI in it    *)
(* has to report the version that was asked for, and one rename of the     *)
(* symlink puts it into use.  What was not activated is removed.           *)
(***************************************************************************)
Fetch ==
    /\ worker.at = "fetch" /\ updates < MaxUpdates
    /\ updates' = updates + 1
    /\ worker' = [worker EXCEPT !.at = "install", !.id = updates']
    /\ release' = [release EXCEPT ![updates'] = "partial"]
    /\ UNCHANGED <<locked, told, saved, active>>

Removed(r) == [release EXCEPT ![r] = "none"]

\* An exception: the stage is removed unless it is active, the job has failed.
Fails ==
    /\ JobIs("failed") /\ At("finish")
    /\ UNCHANGED <<locked, saved, active, updates>>

FetchFails == worker.at = "fetch" /\ Fails /\ UNCHANGED release

Install ==
    /\ worker.at = "install"
    /\ \/ /\ \E found \in {"whole", "wrong"} : release' = [release EXCEPT ![worker.id] = found]
          /\ At("verify")
          /\ UNCHANGED <<locked, told, saved, active, updates>>
       \/ Fails /\ release' = Removed(worker.id)

Verify ==
    /\ worker.at = "verify"
    /\ \/ /\ release[worker.id] = "whole"
          /\ At("swap")
          /\ UNCHANGED <<locked, told, saved, release, active, updates>>
       \/ /\ release[worker.id] # "whole"
          /\ Fails /\ release' = Removed(worker.id)

Swap ==
    /\ worker.at = "swap"
    /\ \/ /\ active' = worker.id /\ At("record")
          /\ UNCHANGED <<locked, told, saved, release, updates>>
       \/ Fails /\ release' = Removed(worker.id)

\* Mutant of Record: activated is set when the new version is recorded.
RecordThenActivated ==
    /\ worker.at = "record"
    /\ \/ UNCHANGED told /\ Saves /\ At("refresh")
          /\ UNCHANGED <<locked, release, active, updates>>
       \/ Fails /\ release' = Removed(worker.id)

Record ==
    /\ worker.at = "record"
    /\ \/ UNCHANGED told /\ Saves /\ At("refresh")
          /\ UNCHANGED <<locked, release, active, updates>>
       \/ Fails /\ UNCHANGED release

(***************************************************************************)
(* refresh(): a catalog that cannot be read leaves the old one; models     *)
(* that are no longer offered are retained, because projects may ask for   *)
(* them.                                                                   *)
(***************************************************************************)
Refreshed(catalog, found) ==
    [models |-> found, retained |-> (catalog.models \cup catalog.retained) \ found]

Refresh ==
    /\ worker.at = "refresh"
    /\ \E catalog \in {told.catalog} \cup
                      {Refreshed(told.catalog, found) : found \in SUBSET Models \ {{}}} :
          \/ /\ saved' = [told EXCEPT !.catalog = catalog]
             /\ told' = [told EXCEPT !.catalog = catalog, !.job = "completed"]
          \/ /\ told' = [told EXCEPT !.catalog = catalog, !.job = "failed"]
             /\ UNCHANGED saved
    /\ At("finish")
    /\ UNCHANGED <<locked, release, active, updates>>

\* work()'s finally: a save that fails does not keep the lock.
\* Mutant of Finish: it does.
FinishIfSaved ==
    /\ worker.at = "finish"
    /\ UNCHANGED told /\ Save
    /\ worker' = NoWorker
    /\ locked' = (saved' # told)
    /\ UNCHANGED <<release, active, updates>>

Finish ==
    /\ worker.at = "finish"
    /\ UNCHANGED told /\ Save
    /\ locked' = FALSE
    /\ worker' = NoWorker
    /\ UNCHANGED <<release, active, updates>>

\* A new process: status.json is read, and a job it calls running has failed.
MaintenanceRestarts ==
    /\ told' = [saved EXCEPT !.job = IF saved.job = "running" THEN "failed" ELSE saved.job]
    /\ locked' = FALSE
    /\ worker' = NoWorker
    /\ UNCHANGED <<saved, release, active, updates>>

Work == Check \/ Fetch \/ FetchFails \/ Install \/ Verify \/ Swap \/ Record
        \/ Refresh \/ Finish
================================================================================
