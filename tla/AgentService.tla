------------------------------ MODULE AgentService ------------------------------
(***************************************************************************)
(* The agent as a service: the requests of the audio-drama engine for runs *)
(* of the models (agent_post in engine.py, Handler in runner.py), the jobs *)
(* of CliMaintenance and the logins of CliLogins beside them, and restarts *)
(* of the agent's container.                                               *)
(*                                                                         *)
(* A run and a maintenance job exclude each other by RUN_LOCK, which is    *)
(* never waited for: who finds it taken is told 409, and the engine asks   *)
(* again until it has waited AGENT_BUSY_WAIT_SECONDS.  A run goes on when  *)
(* nobody waits for its answer any more.  Time is counted in the pauses    *)
(* the engine makes between two requests.                                  *)
(***************************************************************************)
EXTENDS CliMaintenance, CliLogins, ModelRun

CONSTANTS
    Callers,       \* threads of the engine that need a run
    NoOne,
    BuiltIn,       \* the models every request may name (SUPPORTED_MODELS)
    BusyWait,      \* AGENT_BUSY_WAIT_SECONDS, in pauses
    ConnectWait,   \* AGENT_CONNECT_WAIT_SECONDS, in pauses
    MaxRestarts    \* bound on the restarts of the agent

ASSUME ServiceAssumption ==
    /\ IsFiniteSet(Callers) /\ NoOne \notin Callers /\ BuiltIn \notin Models
    /\ BusyWait \in Nat /\ ConnectWait \in Nat /\ MaxRestarts \in Nat

VARIABLES
    up,         \* the agent accepts connections
    run,        \* the run under way: who waits for it and the CLI it was begun with
    caller,     \* agent_post of each caller
    restarts

svars == <<up, run, caller, restarts>>
vars == <<mvars, lvars, work, svars>>

NoRun == [on |-> FALSE, for |-> NoOne, cli |-> 0]
\* since: 0 until a connection fails, then how long ago the first one did
NoCall == [at |-> "idle", waited |-> 0, since |-> 0]
Outcomes == {"answered", "busy", "unreachable", "timed_out"}

TypeOK ==
    /\ MaintenanceType /\ LoginsType /\ ModelRunType
    /\ up \in BOOLEAN
    /\ run \in [on : BOOLEAN, for : Callers \cup {NoOne}, cli : 0..MaxUpdates]
    /\ caller \in [Callers -> [at : {"idle", "sent", "waiting"} \cup Outcomes,
                               waited : 0..(BusyWait + 1), since : 0..(ConnectWait + 2)]]
    /\ restarts \in 0..MaxRestarts

Init ==
    /\ MaintenanceInit /\ LoginsInit
    /\ up = TRUE
    /\ run = NoRun /\ work = NoWork
    /\ caller = [c \in Callers |-> NoCall]
    /\ restarts = 0

Calling(c) == caller[c].at \in {"sent", "waiting"}
Ends(c, how) == caller' = [caller EXCEPT ![c] = [NoCall EXCEPT !.at = how]]

(***************************************************************************)
(* agent_post(): one request after the other, a pause in between.  The     *)
(* deadline for a busy agent runs from the call, the one for an agent that *)
(* cannot be reached from the first failed connection of the call.         *)
(***************************************************************************)
Call(c) ==
    /\ ~Calling(c)
    /\ caller' = [caller EXCEPT ![c] = [NoCall EXCEPT !.at = "sent"]]
    /\ UNCHANGED <<mvars, lvars, work, up, run, restarts>>

Longer(n, bound) == IF n = bound THEN n ELSE n + 1

Again(c) ==
    /\ caller[c].at = "waiting"
    /\ caller' = [caller EXCEPT ![c] = [@ EXCEPT
                     !.at = "sent",
                     !.waited = Longer(@, BusyWait + 1),
                     !.since = IF @ = 0 THEN 0 ELSE Longer(@, ConnectWait + 2)]]
    /\ UNCHANGED <<mvars, lvars, work, up, run, restarts>>

Unreached(c) ==
    IF caller[c].since > ConnectWait + 1
    THEN Ends(c, "unreachable")
    ELSE caller' = [caller EXCEPT ![c] = [@ EXCEPT !.at = "waiting", !.since = IF @ = 0 THEN 1 ELSE @]]

\* The run, if the caller's is the one under way, has nobody to answer to.
Abandoned(c) == IF run.for = c THEN [run EXCEPT !.for = NoOne] ELSE run

ConnectionFails(c) ==
    /\ caller[c].at = "sent"
    /\ Unreached(c)
    /\ run' = Abandoned(c)
    /\ UNCHANGED <<mvars, lvars, work, up, restarts>>

\* The engine reads for so long and then gives up: httpx.ReadTimeout is none of
\* the errors that are bridged.
ReadTimesOut(c) ==
    /\ run.on /\ run.for = c /\ work.spent > ReadLimit
    /\ Ends(c, "timed_out")
    /\ run' = Abandoned(c)
    /\ UNCHANGED <<mvars, lvars, work, up, restarts>>

(***************************************************************************)
(* Handler.do_POST: a research request takes the lock or is told 409.  A   *)
(* model it names must be built in or known.  The run ends with an answer  *)
(* whatever happens in it, and gives the lock back after it.               *)
(***************************************************************************)
Waits(c) == caller[c].at = "sent" /\ run.for # c

\* validated_execution_settings
ModelAccepted(model) == model \in KnownModels \cup {BuiltIn}

Run(c) ==
    /\ up /\ Waits(c)
    /\ ~locked
    /\ locked' = TRUE
    /\ run' = [on |-> TRUE, for |-> c, cli |-> active]
    /\ \E model \in Models \cup {BuiltIn} :
          work' = IF ModelAccepted(model) THEN FirstAsk ELSE Over(NoWork, "failed")
    /\ UNCHANGED <<told, saved, worker, release, active, updates, lvars, up, caller, restarts>>

\* Mutant of Busy: 409 is waited out for as long as it takes.
BusyForever(c) ==
    /\ up /\ Waits(c)
    /\ locked
    /\ caller' = [caller EXCEPT ![c].at = "waiting"]
    /\ UNCHANGED <<mvars, lvars, work, up, run, restarts>>

Busy(c) ==
    /\ up /\ Waits(c)
    /\ locked
    /\ IF caller[c].waited > BusyWait
       THEN Ends(c, "busy")
       ELSE caller' = [caller EXCEPT ![c].at = "waiting"]
    /\ UNCHANGED <<mvars, lvars, work, up, run, restarts>>

RunGoesOn ==
    /\ run.on /\ Provide
    /\ UNCHANGED <<mvars, lvars, svars>>

RunEnds ==
    /\ run.on /\ ~Working
    /\ locked' = FALSE
    /\ run' = NoRun /\ work' = NoWork
    /\ IF run.for = NoOne THEN UNCHANGED caller ELSE Ends(run.for, "answered")
    /\ UNCHANGED <<told, saved, worker, release, active, updates, lvars, up, restarts>>

(***************************************************************************)
(* The container is replaced: threads, table and lock are gone, the volume *)
(* stays.                                                                  *)
(***************************************************************************)
GoesDown ==
    /\ up /\ restarts < MaxRestarts
    /\ up' = FALSE
    /\ restarts' = restarts + 1
    /\ MaintenanceRestarts /\ LoginsRestart
    /\ run' = NoRun /\ work' = NoWork
    /\ UNCHANGED caller

ComesUp ==
    /\ ~up /\ up' = TRUE
    /\ UNCHANGED <<mvars, lvars, work, run, caller, restarts>>

Maintain ==
    /\ up
    /\ \/ \E kind \in Kinds : Acquire(kind)
       \/ Refuse(LoginBusy)
       \/ Announce(LoginBusy)
       \/ Work
    /\ UNCHANGED <<lvars, work, svars>>

LogsIn == up /\ (\E l \in Logins : LoginStep(l)) /\ UNCHANGED <<mvars, work, svars>>

Next ==
    \/ \E c \in Callers :
          \/ Call(c) \/ Again(c) \/ ConnectionFails(c) \/ ReadTimesOut(c)
          \/ Run(c) \/ Busy(c)
    \/ RunGoesOn \/ RunEnds \/ GoesDown \/ ComesUp \/ Maintain \/ LogsIn

(***************************************************************************)
(* A caller sends its next request, a request reaches the agent or fails,  *)
(* and every child process of a run or a job has a time limit; a CLI that  *)
(* is told to stop does.  Nobody need start a job, log in or cancel.       *)
(***************************************************************************)
Fairness ==
    /\ \A c \in Callers : WF_vars(Again(c)) /\ WF_vars(Run(c) \/ Busy(c) \/ (~up /\ ConnectionFails(c)))
    /\ WF_vars(RunGoesOn) /\ WF_vars(RunEnds) /\ WF_vars(ComesUp)
    /\ WF_vars(Maintain /\ worker.at # "idle")
    /\ \A l \in Logins :
          /\ WF_vars(up /\ (AlreadyIn(l) \/ Spawn(l) \/ AnswerLogin(l)) /\ UNCHANGED <<mvars, work, svars>>)
          /\ WF_vars(up /\ login[l].cli = "signalled" /\ Exit(l) /\ UNCHANGED <<mvars, work, svars>>)

Spec == Init /\ [][Next]_vars /\ Fairness

--------------------------------------------------------------------------------
\* The CLI in use was installed completely and reported the version asked for,
\* whatever failed or was cut off: npm, the disk, the process (install).
ActiveIsWhole == active # 0 => release[active] = "whole"

\* The lock is taken exactly while a run or a job is under way: whoever takes it
\* gives it back, also when the disk is full as the job is announced or ends,
\* nobody gives back a lock somebody else took (start, work, do_POST), and so a
\* run, which starts its CLI anew for every question, keeps the release it began
\* with: no update replaces it beneath the run.
LockHasOneHolder ==
    /\ locked <=> (run.on \/ worker.at # "idle")
    /\ ~(run.on /\ worker.at # "idle")
    /\ run.on => active = run.cli

\* Every request for a run ends: with an answer, or with one of the two
\* deadlines of agent_post.
CallsEnd == \A c \in Callers : Calling(c) ~> ~Calling(c)

\* A login CLI that nobody told to stop has a session in the table that holds
\* it: whoever removes a session, by cancelling it or because it is old, can
\* stop its CLI (cleanup_login_sessions, cancel_login_session).
EveryCliHasItsSession ==
    \A l \in Logins : login[l].cli = "alive" => login[l].listed /\ login[l].known
================================================================================
