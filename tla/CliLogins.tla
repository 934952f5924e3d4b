-------------------------------- MODULE CliLogins --------------------------------
(***************************************************************************)
(* vocarium-agent/runner.py: the logins to the provider CLIs that the web  *)
(* client starts, watches and cancels (LOGIN_SESSIONS, under LOGIN_LOCK).  *)
(*                                                                         *)
(* A login is a CLI on a pseudo terminal, the thread that reads what it    *)
(* writes, and the requests about it.  All logins are for one provider.    *)
(***************************************************************************)
EXTENDS Integers, FiniteSets

CONSTANTS
    Logins,       \* the sessions that may be started
    MaxLogins     \* MAX_LOGIN_SESSIONS

ASSUME LoginsAssumption == IsFiniteSet(Logins) /\ MaxLogins \in Nat \ {0}

VARIABLES
    login,           \* the sessions, with the request that starts each and its CLI
    authenticated    \* what provider_auth_status reports

lvars == <<login, authenticated>>

Ended == {"completed", "error"}

Login ==
    [request : {"none", "checked", "spawned", "over"},
     listed : BOOLEAN,        \* it is in LOGIN_SESSIONS
     status : {"starting", "awaiting_code"} \cup Ended,
     known : BOOLEAN,         \* the session holds its process
     cli : {"none", "alive", "signalled", "gone"},
     old : BOOLEAN]           \* older than LOGIN_TTL_SECONDS

LoginsType == login \in [Logins -> Login] /\ authenticated \in BOOLEAN

NoLogin == [request |-> "none", listed |-> FALSE, status |-> "starting",
            known |-> FALSE, cli |-> "none", old |-> FALSE]

LoginsInit == login = [l \in Logins |-> NoLogin] /\ authenticated = FALSE

\* What maintenance asks before it begins.
LoginBusy == \E l \in Logins : login[l].listed /\ login[l].status \notin Ended /\ ~login[l].old

\* A session leaves the table, and is forgotten; the CLI it holds is told to stop.
Popped(s) ==
    [NoLogin EXCEPT !.request = s.request,
                    !.cli = IF s.known /\ s.cli = "alive" THEN "signalled" ELSE s.cli]

\* cleanup_login_sessions(): old sessions go, whatever their status.
Cleaned == [l \in Logins |-> IF login[l].listed /\ login[l].old THEN Popped(login[l])
                                                               ELSE login[l]]

\* serialized_login_session(): a look at a session may find it completed.
Seen(s) == IF s.status \notin Ended /\ authenticated THEN [s EXCEPT !.status = "completed"] ELSE s

Active(f) == {l \in Logins : f[l].listed /\ f[l].status \notin Ended}

(***************************************************************************)
(* start_cli_login(): the limit is looked at in one section of the lock    *)
(* and the session entered in a later one, so two requests may pass it.    *)
(***************************************************************************)
StartLogin(l) ==
    /\ login[l].request = "none"
    /\ login' = [Cleaned EXCEPT ![l].request =
                    IF Cardinality(Active(Cleaned)) < MaxLogins THEN "checked" ELSE "over"]
    /\ UNCHANGED authenticated

AlreadyIn(l) ==
    /\ login[l].request = "checked" /\ authenticated
    /\ login' = [login EXCEPT ![l].request = "over", ![l].listed = TRUE, ![l].status = "completed"]
    /\ UNCHANGED authenticated

\* Mutant of Spawn: the session is entered without the process it will have.
SpawnUnknown(l) ==
    /\ login[l].request = "checked" /\ ~authenticated
    /\ login' = [login EXCEPT ![l].request = "spawned", ![l].listed = TRUE, ![l].cli = "alive"]
    /\ UNCHANGED authenticated

Spawn(l) ==
    /\ login[l].request = "checked" /\ ~authenticated
    /\ login' = [login EXCEPT ![l].request = "spawned", ![l].listed = TRUE,
                              ![l].known = TRUE, ![l].cli = "alive"]
    /\ UNCHANGED authenticated

\* The request ends with a look at its session; one cancelled meanwhile is an error.
AnswerLogin(l) ==
    /\ login[l].request = "spawned"
    /\ login' = [login EXCEPT ![l] =
                    [(IF login[l].listed THEN Seen(login[l]) ELSE login[l]) EXCEPT !.request = "over"]]
    /\ UNCHANGED authenticated

Listed(l, status) ==
    login' = [login EXCEPT ![l].status = IF login[l].listed THEN status ELSE @]

\* update_login_session_output(): the CLI shows its page, or reports success.
Prompt(l) ==
    /\ login[l].cli = "alive" /\ login[l].listed /\ login[l].status = "starting"
    /\ Listed(l, "awaiting_code")
    /\ UNCHANGED authenticated

Succeed(l) ==
    /\ login[l].cli = "alive" /\ ~authenticated
    /\ authenticated' = TRUE
    /\ Listed(l, "completed")

\* login_reader() after the last output: the exit code decides what is not completed.
Exit(l) ==
    /\ login[l].cli \in {"alive", "signalled"}
    /\ \E ok \in IF login[l].cli = "alive" THEN BOOLEAN ELSE {FALSE} :
          login' = [login EXCEPT ![l] =
             [login[l] EXCEPT
                !.cli = "gone",
                !.known = IF login[l].listed THEN FALSE ELSE login[l].known,
                !.status = IF ~login[l].listed \/ login[l].status = "completed" THEN login[l].status
                           ELSE IF ok THEN "completed" ELSE "error"]]
    /\ UNCHANGED authenticated

\* get_login_session(), also at the end of submit_login_code().
Poll(l) ==
    /\ login[l].listed
    /\ login' = [Cleaned EXCEPT ![l] = IF Cleaned[l].listed THEN Seen(Cleaned[l]) ELSE Cleaned[l]]
    /\ UNCHANGED authenticated

\* cancel_login_session()
CancelLogin(l) ==
    /\ login[l].listed
    /\ login' = [login EXCEPT ![l] = Popped(login[l])]
    /\ UNCHANGED authenticated

GrowOld(l) ==
    /\ login[l].listed /\ ~login[l].old
    /\ login' = [login EXCEPT ![l].old = TRUE]
    /\ UNCHANGED authenticated

\* A new process: the table is empty and the CLIs went with the container.
LoginsRestart ==
    /\ login' = [l \in Logins |-> [NoLogin EXCEPT
                    !.request = IF login[l].request = "none" THEN "none" ELSE "over",
                    !.cli = IF login[l].cli = "none" THEN "none" ELSE "gone"]]
    /\ UNCHANGED authenticated

LoginStep(l) ==
    \/ StartLogin(l) \/ AlreadyIn(l) \/ Spawn(l) \/ AnswerLogin(l) \/ Prompt(l)
    \/ Succeed(l) \/ Exit(l) \/ Poll(l) \/ CancelLogin(l) \/ GrowOld(l)
================================================================================
