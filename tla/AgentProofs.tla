------------------------------ MODULE AgentProofs ------------------------------
(***************************************************************************)
(* What holds of AgentService for every number of callers, logins, models, *)
(* updates and restarts: the lock is given back by whoever holds it, the   *)
(* CLI in use is whole, and no login CLI is out of reach.                  *)
(*                                                                         *)
(* And, in the second part, of ContextResearch, which asks the agent: what *)
(* scripts are written with, for any series, figures and packages and any  *)
(* number of changes of the mapping.                                       *)
(*                                                                         *)
(* The third part is about AgentRepair, for any package the engine may     *)
(* send, any answers of any number of providers and any number of          *)
(* attempts.                                                               *)
(***************************************************************************)
EXTENDS AgentService, ContextResearch, AgentRepair, FiniteSetTheorems, WellFoundedInduction, TLAPS

Worker == [at : Place, kind : Kinds, id : 0..MaxUpdates]
Installing == {"install", "verify", "swap"}

\* The release a job installs is a new one, and whole once it may be activated.
ReleaseShape ==
    /\ worker \in Worker
    /\ release \in [Release -> Disk]
    /\ updates \in 0..MaxUpdates /\ active \in 0..updates
    /\ worker.at \in Installing => worker.id \in 1..updates /\ worker.id # active
    /\ worker.at = "swap" => release[worker.id] = "whole"
    /\ ActiveIsWhole

SessionShape == login \in [Logins -> Login] /\ EveryCliHasItsSession

\* run has the fields LockHasOneHolder speaks of, and the lock is a truth value.
RunShape ==
    /\ run \in [on : BOOLEAN, for : Callers \cup {NoOne}, cli : 0..MaxUpdates]
    /\ locked \in BOOLEAN

IInv == ReleaseShape /\ SessionShape /\ RunShape /\ LockHasOneHolder

-----------------------------------------------------------------------------
(* Maintenance. *)

LEMMA AtFacts ==
    ASSUME worker \in Worker, NEW place \in Place, At(place)
    PROVE  worker' \in Worker /\ worker'.at = place /\ worker'.id = worker.id
BY DEF At, Worker

\* Removing the release of the job leaves every other as it was.
LEMMA RemovedFacts ==
    ASSUME release \in [Release -> Disk], NEW r \in Release
    PROVE  /\ Removed(r) \in [Release -> Disk]
           /\ \A q \in Release \ {r} : Removed(r)[q] = release[q]
BY DEF Removed, Disk

Quiet == {"idle", "start", "check", "fetch", "finish", "record", "refresh"}

LEMMA PlaceFacts ==
    /\ \A place \in Quiet : place \in Place \ Installing
    /\ Installing \subseteq Place
BY DEF Installing, Place, Quiet

LEMMA FirstPlaceFacts == ASSUME worker \in Worker PROVE FirstPlace \in Place \ Installing
<1>1. worker.kind \in Kinds
  BY DEF Worker
<1> QED BY <1>1 DEF FirstPlace, Kinds, Place, Installing

\* A step that leaves releases and links alone and does not go on installing.
LEMMA QuietKeepsReleases ==
    ASSUME ReleaseShape, worker' \in Worker, worker'.at \notin Installing,
           UNCHANGED <<release, active, updates>>
    PROVE  ReleaseShape'
BY DEF ReleaseShape, ActiveIsWhole, Installing

\* A job that fails and removes what it installed.
LEMMA FailingKeepsReleases ==
    ASSUME ReleaseShape, worker.at \in Installing, worker' \in Worker, worker'.at = "finish",
           release' = Removed(worker.id), UNCHANGED <<active, updates>>
    PROVE  ReleaseShape'
<1>1. worker.id \in Release /\ worker.id # active
  BY MaintenanceAssumption DEF ReleaseShape, Release
<1>2. active # 0 => active \in Release \ {worker.id}
  BY <1>1, MaintenanceAssumption DEF ReleaseShape, Release
<1>3. active # 0 => release'[active] = release[active]
  BY <1>1, <1>2, RemovedFacts DEF ReleaseShape
<1> QED
  BY <1>1, <1>3, RemovedFacts DEF ReleaseShape, ActiveIsWhole, Installing

LEMMA WorkKeepsReleases == ASSUME ReleaseShape, Work PROVE ReleaseShape'
<1> worker \in Worker
  BY DEF ReleaseShape
<1>1. CASE Check
  BY <1>1, AtFacts, PlaceFacts, QuietKeepsReleases DEF Quiet, Check
<1>2. CASE Fetch
  <2>1. updates' = updates + 1 /\ updates' \in Release /\ active' = active
    BY <1>2, MaintenanceAssumption DEF Fetch, ReleaseShape, Release
  <2>2. worker' \in Worker /\ worker'.at = "install" /\ worker'.id = updates'
    <3>1. worker' = [at |-> "install", kind |-> worker.kind, id |-> updates']
      BY <1>2, <2>1 DEF Fetch, Worker
    <3>2. worker.kind \in Kinds /\ "install" \in Place /\ updates' \in 0..MaxUpdates
      BY <2>1, MaintenanceAssumption DEF Worker, Place, Release
    <3> QED BY <3>1, <3>2 DEF Worker
  <2>3. release' \in [Release -> Disk] /\ \A q \in Release \ {updates'} : release'[q] = release[q]
    BY <1>2, <2>1 DEF Fetch, ReleaseShape, Disk
  <2>4. active' # updates' /\ (active # 0 => active \in Release \ {updates'})
    BY <2>1, MaintenanceAssumption DEF ReleaseShape, Release
  <2> QED
    BY <2>1, <2>2, <2>3, <2>4, MaintenanceAssumption DEF ReleaseShape, ActiveIsWhole, Installing, Release
<1>3. CASE FetchFails
  BY <1>3, AtFacts, PlaceFacts, QuietKeepsReleases DEF Quiet, FetchFails, Fails
<1>4. CASE Install
  <2>1. CASE Fails /\ release' = Removed(worker.id)
    BY <1>4, <2>1, AtFacts, PlaceFacts, FailingKeepsReleases DEF Quiet, Install, Fails, Installing
  <2>2. CASE ~(Fails /\ release' = Removed(worker.id))
    <3>1. PICK found \in {"whole", "wrong"} : release' = [release EXCEPT ![worker.id] = found]
      BY <1>4, <2>2 DEF Install
    <3>2. worker' \in Worker /\ worker'.at = "verify" /\ worker'.id = worker.id
      BY <1>4, <2>2, AtFacts, PlaceFacts DEF Install, Installing
    <3>3. worker.id \in Release /\ worker.id # active /\ UNCHANGED <<active, updates>>
      BY <1>4, <2>2, MaintenanceAssumption DEF Install, ReleaseShape, Installing, Release
    <3>4. release' \in [Release -> Disk] /\ \A q \in Release \ {worker.id} : release'[q] = release[q]
      BY <3>1, <3>3 DEF ReleaseShape, Disk
    <3>5. active # 0 => active \in Release \ {worker.id}
      BY <3>3, MaintenanceAssumption DEF ReleaseShape, Release
    <3>6. worker'.id \in 1..updates' /\ worker'.id # active'
      BY <1>4, <3>2, <3>3 DEF ReleaseShape, Install, Installing
    <3> QED
      BY <3>2, <3>3, <3>4, <3>5, <3>6 DEF ReleaseShape, ActiveIsWhole
  <2> QED BY <2>1, <2>2
<1>5. CASE Verify
  <2>1. CASE release[worker.id] = "whole"
    <3>1. worker' \in Worker /\ worker'.at = "swap" /\ worker'.id = worker.id
      BY <1>5, <2>1, AtFacts, PlaceFacts DEF Verify, Installing
    <3>2. UNCHANGED <<release, active, updates>>
      BY <1>5, <2>1 DEF Verify
    <3> QED
      BY <1>5, <2>1, <3>1, <3>2 DEF Verify, ReleaseShape, ActiveIsWhole, Installing
  <2>2. CASE release[worker.id] # "whole"
    BY <1>5, <2>2, AtFacts, PlaceFacts, FailingKeepsReleases DEF Quiet, Verify, Fails, Installing
  <2> QED BY <2>1, <2>2
<1>6. CASE Swap
  <2>1. CASE Fails /\ release' = Removed(worker.id)
    BY <1>6, <2>1, AtFacts, PlaceFacts, FailingKeepsReleases DEF Quiet, Swap, Fails, Installing
  <2>2. CASE ~(Fails /\ release' = Removed(worker.id))
    <3>1. active' = worker.id /\ UNCHANGED <<release, updates>> /\ At("record")
      BY <1>6, <2>2 DEF Swap
    <3>2. worker' \in Worker /\ worker'.at = "record" /\ worker'.id = worker.id
      BY <3>1, AtFacts, PlaceFacts DEF Quiet
    <3>3. worker.id \in 0..updates /\ release[worker.id] = "whole"
      BY <1>6 DEF Swap, ReleaseShape, Installing
    <3> QED
      BY <3>1, <3>2, <3>3 DEF ReleaseShape, ActiveIsWhole, Installing
  <2> QED BY <2>1, <2>2
<1>7. CASE Record
  BY <1>7, AtFacts, PlaceFacts, QuietKeepsReleases DEF Quiet, Record, Fails
<1>8. CASE Refresh
  BY <1>8, AtFacts, PlaceFacts, QuietKeepsReleases DEF Quiet, Refresh
<1>9. CASE Finish
  <2>1. NoWorker \in Worker /\ NoWorker.at \notin Installing
    BY MaintenanceAssumption DEF NoWorker, Worker, Place, Kinds, Installing
  <2> QED BY <1>9, <2>1, QuietKeepsReleases DEF Finish
<1> QED BY <1>1, <1>2, <1>3, <1>4, <1>5, <1>6, <1>7, <1>8, <1>9 DEF Work

-----------------------------------------------------------------------------
(* The lock. *)

\* A step of the job that is under way: it goes on, or ends and gives the lock back.
JobStep ==
    /\ worker.at # "idle"
    /\ \/ locked' = locked /\ worker'.at # "idle"
       \/ locked' = FALSE /\ worker'.at = "idle"
    /\ active' = active \/ worker.at = "swap"

LEMMA WorkIsAJobStep == ASSUME worker \in Worker, Work PROVE JobStep
<1>1. \A place \in Place \ {"idle"} : At(place) => worker'.at # "idle"
  BY AtFacts
<1>2. NoWorker.at = "idle"
  BY DEF NoWorker
<1>3. \A place \in (Quiet \cup Installing) \ {"idle"} : At(place) => worker'.at # "idle"
  BY <1>1, PlaceFacts
<1>4. CASE Check
  BY <1>4, <1>3 DEF Check, JobStep, Quiet
<1>5. CASE Fetch
  BY <1>5 DEF Fetch, JobStep, Worker
<1>6. CASE FetchFails
  BY <1>6, <1>3 DEF FetchFails, Fails, JobStep, Quiet
<1>7. CASE Install
  BY <1>7, <1>3 DEF Install, Fails, JobStep, Quiet, Installing
<1>8. CASE Verify
  BY <1>8, <1>3 DEF Verify, Fails, JobStep, Quiet, Installing
<1>9. CASE Swap
  BY <1>9, <1>3 DEF Swap, Fails, JobStep, Quiet
<1>10. CASE Record
  BY <1>10, <1>3 DEF Record, Fails, JobStep, Quiet
<1>11. CASE Refresh
  BY <1>11, <1>3 DEF Refresh, JobStep, Quiet
<1>12. CASE Finish
  BY <1>12, <1>2 DEF Finish, JobStep
<1> QED BY <1>4, <1>5, <1>6, <1>7, <1>8, <1>9, <1>10, <1>11, <1>12 DEF Work

\* A job that is under way excludes a run, so what it does cannot disturb one.
LEMMA JobStepKeepsTheLock ==
    ASSUME RunShape, LockHasOneHolder, JobStep, run' = run
    PROVE  RunShape' /\ LockHasOneHolder'
<1>1. locked = TRUE /\ run.on = FALSE
  BY DEF RunShape, LockHasOneHolder, JobStep
<1>2. \/ locked' = TRUE /\ worker'.at # "idle"
      \/ locked' = FALSE /\ worker'.at = "idle"
  BY <1>1, Zenon DEF JobStep
<1>3. RunShape' /\ run'.on = FALSE
  BY <1>1, <1>2 DEF RunShape
<1> QED BY <1>2, <1>3 DEF LockHasOneHolder

LEMMA MaintainKeeps ==
    ASSUME ReleaseShape, RunShape, LockHasOneHolder, Maintain
    PROVE  ReleaseShape' /\ RunShape' /\ LockHasOneHolder'
<1> worker \in Worker
  BY DEF ReleaseShape
<1>0. run' = run
  BY DEF Maintain, svars
<1>1. NoWorker \in Worker /\ NoWorker.at = "idle"
  BY MaintenanceAssumption DEF NoWorker, Worker, Place, Kinds
<1>2. CASE \E kind \in Kinds : Acquire(kind)
  <2>1. PICK kind \in Kinds : Acquire(kind)
    BY <1>2
  <2>2. worker' \in Worker /\ worker'.at = "start"
    BY <2>1, MaintenanceAssumption DEF Acquire, Worker, Place
  <2>3. ReleaseShape'
    BY <2>1, <2>2, QuietKeepsReleases DEF Acquire, Installing
  <2>4. ~run.on
    BY <2>1 DEF Acquire, LockHasOneHolder
  <2>5. locked' = TRUE
    BY <2>1 DEF Acquire
  <2>6. RunShape' /\ LockHasOneHolder'
    BY <1>0, <2>2, <2>4, <2>5 DEF RunShape, LockHasOneHolder
  <2> QED BY <2>3, <2>6
<1>3. CASE Refuse(LoginBusy)
  <2>1. ReleaseShape'
    BY <1>1, <1>3, QuietKeepsReleases DEF Refuse, Installing
  <2>2. JobStep
    BY <1>1, <1>3 DEF Refuse, JobStep
  <2> QED BY <1>0, <2>1, <2>2, JobStepKeepsTheLock
<1>4. CASE Announce(LoginBusy)
  <2>1. \/ worker' = NoWorker /\ locked' = FALSE
        \/ At(FirstPlace) /\ UNCHANGED locked
    BY <1>4 DEF Announce
  <2>2. worker.at = "start" /\ UNCHANGED <<release, active, updates>>
    BY <1>4 DEF Announce
  <2>3. At(FirstPlace) => worker' \in Worker /\ worker'.at = FirstPlace
    BY AtFacts, FirstPlaceFacts
  <2>4. FirstPlace # "idle"
    BY DEF FirstPlace, Worker, Kinds
  <2>5. worker' \in Worker /\ worker'.at \notin Installing
    BY <1>1, <2>1, <2>3, FirstPlaceFacts DEF Installing
  <2>6. ReleaseShape'
    BY <2>2, <2>5, QuietKeepsReleases
  <2>7. JobStep
    BY <1>1, <2>1, <2>2, <2>3, <2>4 DEF JobStep
  <2> QED BY <1>0, <2>6, <2>7, JobStepKeepsTheLock
<1>5. CASE Work
  BY <1>0, <1>5, WorkKeepsReleases, WorkIsAJobStep, JobStepKeepsTheLock
<1> QED BY <1>2, <1>3, <1>4, <1>5 DEF Maintain

-----------------------------------------------------------------------------
(* Logins. *)

LEMMA LoginRecord ==
    ASSUME SessionShape, NEW l \in Logins
    PROVE  login[l] \in Login
BY DEF SessionShape

\* What is popped holds no CLI that runs on.
LEMMA PoppedFacts ==
    ASSUME NEW s \in Login, s.cli = "alive" => s.known
    PROVE  Popped(s) \in Login /\ Popped(s).cli # "alive"
<1> DEFINE cli == IF s.known /\ s.cli = "alive" THEN "signalled" ELSE s.cli
           t == [NoLogin EXCEPT !.request = s.request, !.cli = cli]
<1>1. cli \in {"none", "alive", "signalled", "gone"} /\ cli # "alive"
  BY DEF Login
<1>2. NoLogin \in Login
  BY DEF NoLogin, Login, Ended
<1>3. s.request \in {"none", "checked", "spawned", "over"}
  BY DEF Login
<1>4. t \in Login /\ t.cli = cli
  BY <1>1, <1>2, <1>3 DEF Login
<1>5. Popped(s) = t
  BY DEF Popped
<1> QED BY <1>1, <1>4, <1>5

LEMMA CleanedFacts ==
    ASSUME SessionShape
    PROVE  /\ Cleaned \in [Logins -> Login]
           /\ \A l \in Logins : Cleaned[l].cli = "alive" => Cleaned[l].listed /\ Cleaned[l].known
<1> SUFFICES ASSUME NEW l \in Logins
             PROVE  /\ Cleaned[l] \in Login
                    /\ Cleaned[l].cli = "alive" => Cleaned[l].listed /\ Cleaned[l].known
  BY DEF Cleaned
<1>1. Cleaned[l] = Popped(login[l]) \/ Cleaned[l] = login[l]
  BY DEF Cleaned
<1> QED BY <1>1, LoginRecord, PoppedFacts DEF SessionShape, EveryCliHasItsSession

LEMMA SeenFacts ==
    ASSUME NEW s \in Login
    PROVE  /\ Seen(s) \in Login /\ Seen(s).cli = s.cli
           /\ Seen(s).listed = s.listed /\ Seen(s).known = s.known
BY DEF Seen, Login, Ended

\* One session changes, and the others as a cleaning leaves them or not at all.
LEMMA OneSession ==
    ASSUME NEW f \in [Logins -> Login], NEW l \in Logins, NEW s \in Login,
           \A m \in Logins : f[m].cli = "alive" => f[m].listed /\ f[m].known,
           s.cli = "alive" => s.listed /\ s.known,
           login' = [f EXCEPT ![l] = s]
    PROVE  SessionShape'
BY DEF SessionShape, EveryCliHasItsSession

LEMMA LoginStepKeeps ==
    ASSUME SessionShape, NEW l \in Logins, LoginStep(l)
    PROVE  SessionShape'
<1> DEFINE s == login[l]
<1>0. s \in Login /\ (s.cli = "alive" => s.listed /\ s.known)
  BY LoginRecord DEF SessionShape, EveryCliHasItsSession
<1>1. /\ login \in [Logins -> Login]
      /\ \A m \in Logins : login[m].cli = "alive" => login[m].listed /\ login[m].known
  BY DEF SessionShape, EveryCliHasItsSession
<1>2. CASE StartLogin(l)
  <2>1. PICK r \in {"checked", "over"} : login' = [Cleaned EXCEPT ![l].request = r]
    BY <1>2 DEF StartLogin
  <2>2. [Cleaned[l] EXCEPT !.request = r] \in Login
    BY CleanedFacts DEF Login
  <2>3. login' = [Cleaned EXCEPT ![l] = [Cleaned[l] EXCEPT !.request = r]]
    BY <2>1
  <2>4. /\ [Cleaned[l] EXCEPT !.request = r].cli = Cleaned[l].cli
        /\ [Cleaned[l] EXCEPT !.request = r].listed = Cleaned[l].listed
        /\ [Cleaned[l] EXCEPT !.request = r].known = Cleaned[l].known
    BY CleanedFacts DEF Login
  <2> QED BY <2>2, <2>3, <2>4, CleanedFacts, OneSession
<1>3. CASE AlreadyIn(l)
  <2> DEFINE t == [s EXCEPT !.request = "over", !.listed = TRUE, !.status = "completed"]
  <2>1. login' = [login EXCEPT ![l] = t]
    BY <1>1, <1>3 DEF AlreadyIn
  <2>2. t \in Login /\ t.cli = s.cli /\ t.listed = TRUE /\ t.known = s.known
    BY <1>0 DEF Login, Ended
  <2> QED BY <1>0, <1>1, <2>1, <2>2, OneSession
<1>4. CASE Spawn(l)
  <2> DEFINE t == [s EXCEPT !.request = "spawned", !.listed = TRUE, !.known = TRUE, !.cli = "alive"]
  <2>1. login' = [login EXCEPT ![l] = t]
    BY <1>1, <1>4 DEF Spawn
  <2>2. t \in Login /\ t.listed = TRUE /\ t.known = TRUE
    BY <1>0 DEF Login
  <2> QED BY <1>1, <2>1, <2>2, OneSession
<1>5. CASE AnswerLogin(l)
  <2>1. PICK u \in {s, Seen(s)} : login' = [login EXCEPT ![l] = [u EXCEPT !.request = "over"]]
    BY <1>5 DEF AnswerLogin
  <2>2. u \in Login /\ u.cli = s.cli /\ u.listed = s.listed /\ u.known = s.known
    BY <1>0, SeenFacts
  <2> DEFINE t == [u EXCEPT !.request = "over"]
  <2>3. t \in Login /\ t.cli = s.cli /\ t.listed = s.listed /\ t.known = s.known
    BY <2>2 DEF Login
  <2> QED BY <1>0, <1>1, <2>1, <2>3, OneSession
<1>6. CASE Prompt(l)
  <2> DEFINE t == [s EXCEPT !.status = "awaiting_code"]
  <2>1. login' = [login EXCEPT ![l] = t]
    BY <1>1, <1>6 DEF Prompt, Listed
  <2>2. t \in Login /\ t.cli = s.cli /\ t.listed = s.listed /\ t.known = s.known
    BY <1>0 DEF Login
  <2> QED BY <1>0, <1>1, <2>1, <2>2, OneSession
<1>7. CASE Succeed(l)
  <2> DEFINE t == [s EXCEPT !.status = IF s.listed THEN "completed" ELSE s.status]
  <2>1. login' = [login EXCEPT ![l] = t]
    BY <1>1, <1>7 DEF Succeed, Listed
  <2>2. t \in Login /\ t.cli = s.cli /\ t.listed = s.listed /\ t.known = s.known
    BY <1>0 DEF Login, Ended
  <2> QED BY <1>0, <1>1, <2>1, <2>2, OneSession
<1>8. CASE Exit(l)
  <2>1. PICK ok \in BOOLEAN : login' = [login EXCEPT ![l] =
             [login[l] EXCEPT
                !.cli = "gone",
                !.known = IF login[l].listed THEN FALSE ELSE login[l].known,
                !.status = IF ~login[l].listed \/ login[l].status = "completed" THEN login[l].status
                           ELSE IF ok THEN "completed" ELSE "error"]]
    BY <1>8 DEF Exit
  <2> DEFINE known == IF s.listed THEN FALSE ELSE s.known
             status == IF ~s.listed \/ s.status = "completed" THEN s.status
                       ELSE IF ok THEN "completed" ELSE "error"
             t == [s EXCEPT !.cli = "gone", !.known = known, !.status = status]
  <2>2. login' = [login EXCEPT ![l] = t]
    BY <2>1
  <2>3. known \in BOOLEAN /\ status \in {"starting", "awaiting_code"} \cup Ended
    BY <1>0 DEF Login, Ended
  <2>4. t \in Login /\ t.cli = "gone"
    BY <1>0, <2>3 DEF Login
  <2> QED BY <1>1, <2>2, <2>4, OneSession
<1>9. CASE Poll(l)
  <2>1. PICK u \in {Cleaned[l], Seen(Cleaned[l])} : login' = [Cleaned EXCEPT ![l] = u]
    BY <1>9 DEF Poll
  <2>2. /\ u \in Login /\ u.cli = Cleaned[l].cli
        /\ u.listed = Cleaned[l].listed /\ u.known = Cleaned[l].known
    BY CleanedFacts, SeenFacts
  <2> QED BY <2>1, <2>2, CleanedFacts, OneSession
<1>10. CASE CancelLogin(l)
  BY <1>0, <1>1, <1>10, PoppedFacts, OneSession DEF CancelLogin
<1>11. CASE GrowOld(l)
  <2> DEFINE t == [s EXCEPT !.old = TRUE]
  <2>1. login' = [login EXCEPT ![l] = t]
    BY <1>1, <1>11 DEF GrowOld
  <2>2. t \in Login /\ t.cli = s.cli /\ t.listed = s.listed /\ t.known = s.known
    BY <1>0 DEF Login
  <2> QED BY <1>0, <1>1, <2>1, <2>2, OneSession
<1> QED
  BY <1>2, <1>3, <1>4, <1>5, <1>6, <1>7, <1>8, <1>9, <1>10, <1>11 DEF LoginStep

LEMMA LoginsRestartKeeps == ASSUME SessionShape, LoginsRestart PROVE SessionShape'
<1> DEFINE asked(l) == IF login[l].request = "none" THEN "none" ELSE "over"
           cli(l) == IF login[l].cli = "none" THEN "none" ELSE "gone"
           t(l) == [NoLogin EXCEPT !.request = asked(l), !.cli = cli(l)]
<1>1. login' = [l \in Logins |-> t(l)]
  BY DEF LoginsRestart
<1>2. NoLogin \in Login
  BY DEF NoLogin, Login, Ended
<1>3. \A l \in Logins : t(l) \in Login /\ t(l).cli # "alive"
  BY <1>2 DEF Login
<1> QED BY <1>1, <1>3 DEF SessionShape, EveryCliHasItsSession

-----------------------------------------------------------------------------
(* The service. *)

LEMMA NoRunShape ==
    /\ NoRun \in [on : BOOLEAN, for : Callers \cup {NoOne}, cli : 0..MaxUpdates]
    /\ NoRun.on = FALSE
<1>1. 0 \in 0..MaxUpdates
  BY MaintenanceAssumption
<1> QED BY <1>1 DEF NoRun

LEMMA InitShape == ASSUME Init PROVE IInv
<1>1. ReleaseShape
  BY MaintenanceAssumption
     DEF Init, MaintenanceInit, NoWorker, ReleaseShape, Worker, Place, Kinds, Disk, Installing,
         ActiveIsWhole
<1>2. SessionShape
  BY DEF Init, LoginsInit, NoLogin, Login, Ended, SessionShape, EveryCliHasItsSession
<1>3. RunShape /\ LockHasOneHolder
  BY NoRunShape DEF Init, MaintenanceInit, NoWorker, RunShape, LockHasOneHolder
<1> QED BY <1>1, <1>2, <1>3 DEF IInv

\* Nothing of the maintenance but the lock changes.
LEMMA ReleasesStay ==
    ASSUME ReleaseShape, UNCHANGED <<worker, release, active, updates>>
    PROVE  ReleaseShape'
BY DEF ReleaseShape, ActiveIsWhole

LEMMA SessionsStay == ASSUME SessionShape, UNCHANGED lvars PROVE SessionShape'
BY DEF SessionShape, EveryCliHasItsSession, lvars

\* A run nobody waits for any more goes on with the lock it has.
LEMMA AbandonedKeeps ==
    ASSUME IInv, NEW c \in Callers, run' = Abandoned(c), UNCHANGED <<mvars, lvars>>
    PROVE  IInv'
<1>1. run' \in [on : BOOLEAN, for : Callers \cup {NoOne}, cli : 0..MaxUpdates]
      /\ run'.on = run.on /\ run'.cli = run.cli
  BY DEF Abandoned, IInv, RunShape
<1> QED
  BY <1>1, ReleasesStay, SessionsStay DEF IInv, RunShape, LockHasOneHolder, mvars

LEMMA NextKeeps == ASSUME IInv, [Next]_vars PROVE IInv'
<1>1. ASSUME UNCHANGED <<mvars, lvars, run>> PROVE IInv'
  BY <1>1, ReleasesStay, SessionsStay DEF IInv, RunShape, LockHasOneHolder, mvars
<1>2. ASSUME NEW c \in Callers, Call(c) \/ Again(c) \/ Busy(c) PROVE IInv'
  BY <1>1, <1>2 DEF Call, Again, Busy
<1>3. ASSUME NEW c \in Callers, ConnectionFails(c) \/ ReadTimesOut(c) PROVE IInv'
  BY <1>3, AbandonedKeeps DEF ConnectionFails, ReadTimesOut
<1>4. ASSUME NEW c \in Callers, Run(c) PROVE IInv'
  <2>1. /\ ~locked /\ locked' = TRUE /\ run' = [on |-> TRUE, for |-> c, cli |-> active]
        /\ UNCHANGED <<worker, release, active, updates, lvars>>
    BY <1>4 DEF Run
  <2>2. worker.at = "idle" /\ active \in 0..MaxUpdates
    BY <2>1, MaintenanceAssumption DEF IInv, LockHasOneHolder, ReleaseShape
  <2>3. RunShape' /\ LockHasOneHolder'
    BY <2>1, <2>2 DEF RunShape, LockHasOneHolder
  <2> QED BY <2>1, <2>3, ReleasesStay, SessionsStay DEF IInv
<1>5. CASE RunGoesOn
  BY <1>1, <1>5 DEF RunGoesOn, svars
<1>6. CASE RunEnds
  <2>1. /\ run.on /\ locked' = FALSE /\ run' = NoRun
        /\ UNCHANGED <<worker, release, active, updates, lvars>>
    BY <1>6 DEF RunEnds
  <2>2. worker.at = "idle"
    BY <2>1 DEF IInv, LockHasOneHolder
  <2>3. RunShape' /\ LockHasOneHolder'
    BY <2>1, <2>2, NoRunShape DEF RunShape, LockHasOneHolder
  <2> QED BY <2>1, <2>3, ReleasesStay, SessionsStay DEF IInv
<1>7. CASE GoesDown
  <2>1. /\ locked' = FALSE /\ worker' = NoWorker /\ run' = NoRun
        /\ UNCHANGED <<release, active, updates>>
    BY <1>7 DEF GoesDown, MaintenanceRestarts
  <2>2. NoWorker \in Worker /\ NoWorker.at = "idle"
    BY MaintenanceAssumption DEF NoWorker, Worker, Place, Kinds
  <2>3. RunShape' /\ LockHasOneHolder'
    BY <2>1, <2>2, NoRunShape DEF RunShape, LockHasOneHolder
  <2>4. ReleaseShape'
    BY <2>1, <2>2, QuietKeepsReleases DEF IInv, Installing
  <2>5. SessionShape'
    BY <1>7, LoginsRestartKeeps DEF GoesDown, IInv
  <2> QED BY <2>3, <2>4, <2>5 DEF IInv
<1>8. CASE ComesUp
  BY <1>1, <1>8 DEF ComesUp
<1>9. CASE Maintain
  BY <1>9, MaintainKeeps, SessionsStay DEF IInv, Maintain
<1>10. CASE LogsIn
  <2>1. SessionShape'
    BY <1>10, LoginStepKeeps DEF IInv, LogsIn
  <2>2. UNCHANGED <<mvars, run>>
    BY <1>10 DEF LogsIn, svars
  <2> QED
    BY <2>1, <2>2, ReleasesStay DEF IInv, RunShape, LockHasOneHolder, mvars
<1>11. CASE UNCHANGED vars
  BY <1>1, <1>11 DEF vars, svars
<1> QED
  BY <1>2, <1>3, <1>4, <1>5, <1>6, <1>7, <1>8, <1>9, <1>10, <1>11 DEF Next

\* Everything below is a part of this invariant.
THEOREM ShapeOfTheService == Spec => []IInv
<1> QED BY InitShape, NextKeeps, PTL DEF Spec

\* The lock is held by the run or by the job under way, and by nobody else; so
\* no update replaces the CLI a run was begun with.
THEOREM LockIsHeldByOne == Spec => []LockHasOneHolder
<1>1. IInv => LockHasOneHolder
  BY DEF IInv
<1> QED BY <1>1, ShapeOfTheService, PTL

\* The CLI in use was installed completely, wherever an update failed or was cut off.
THEOREM CliInUseIsWhole == Spec => []ActiveIsWhole
<1>1. IInv => ActiveIsWhole
  BY DEF IInv, ReleaseShape
<1> QED BY <1>1, ShapeOfTheService, PTL

\* Every login CLI that nobody told to stop can be told so.
THEOREM LoginsStayInReach == Spec => []EveryCliHasItsSession
<1>1. IInv => EveryCliHasItsSession
  BY DEF IInv, SessionShape
<1> QED BY <1>1, ShapeOfTheService, PTL

-----------------------------------------------------------------------------
(***************************************************************************)
(* The research.  ResearchInv is inductive.  IntroducedAtFirst alone is    *)
(* not: it speaks of the contexts a script is written with, and these were *)
(* researched in earlier packages and runs, by what was stored then.       *)
(***************************************************************************)

\* The figures whose first episode it is.
Firsts(e) == {f \in Figures : e \in FirstOf(f)}
IsSound(contexts) ==
    \A e \in Episodes : contexts[e] # None => e \in Mapped /\ contexts[e].required = Firsts(e)

\* No figure is required twice.
NoneTwice(contexts) ==
    \A b, e \in Episodes :
        contexts[b] # None /\ contexts[e] # None /\ Before(b, e) =>
            contexts[b].required \cap contexts[e].required = {}

(***************************************************************************)
(* Under one mapping a context requires exactly the figures whose first    *)
(* episode it is, wherever it is kept; and a script is written with one    *)
(* for each episode, which require no figure twice.                        *)
(***************************************************************************)
ResearchInv ==
    /\ ResearchType
    /\ research.at = "idle" => research = Idle
    /\ ~remappedSince => /\ IsSound(stored)
                         /\ IsSound(research.found) /\ IsSound(research.before)
    /\ Writes => Mapped \subseteq Of(research.found) /\ NoneTwice(research.found)

-----------------------------------------------------------------------------
(* The order of the mapped episodes. *)

(***************************************************************************)
(* Numbers have a least one.                                               *)
(***************************************************************************)
LEMMA HasLeast ==
    ASSUME NEW T, T \subseteq Nat, T # {}
    PROVE  \E m \in T : \A o \in T : m <= o
<1>1. PICK m \in T : \A o \in T : ~(<<o, m>> \in OpToRel(<, Nat))
  BY NatLessThanWellFounded, WFMin, Zenon
<1>2. \A o \in T : ~(o < m)
  BY <1>1 DEF OpToRel
<1>3. \A o \in T : m <= o
  BY <1>2
<1> QED BY <1>3

(***************************************************************************)
(* An accepted mapping puts some episodes in an order, each of them once.  *)
(***************************************************************************)
LEMMA OrderedOnce ==
    ASSUME NEW answer \in MappingAnswers, NEW s \in InOrder(answer)
    PROVE  s \in Seq(Episodes) /\ \A i, j \in DOMAIN s : s[i] = s[j] => i = j
<1> DEFINE named == UNION Range(answer)
<1>1. answer \in [1..Chapters -> SUBSET Episodes]
  BY DEF MappingAnswers
<1>2. named \subseteq Episodes /\ named \subseteq Nat
  BY <1>1, ResearchAssumption DEF Range
<1>3. /\ s \in [1..Cardinality(named) -> named]
      /\ \A i, j \in DOMAIN s : i < j => Earlier(answer, s[i], s[j])
  BY DEF InOrder
<1>4. IsFiniteSet(named) /\ Cardinality(named) \in Nat
  BY <1>2, ResearchAssumption, FS_Subset, FS_CardinalityType
<1>5. s \in Seq(Episodes)
  <2> HIDE DEF named
  <2>1. s \in [1..Cardinality(named) -> Episodes]
    BY <1>2, <1>3
  <2> QED BY <2>1, <1>4
<1>6. ASSUME NEW e \in named
      PROVE  NamedIn(answer, e) \in Nat
  <2> DEFINE cs == {c \in 1..Chapters : e \in answer[c]}
  <2>1. cs \subseteq Nat /\ cs # {}
    BY <1>1, ResearchAssumption DEF Range
  <2>2. PICK m \in cs : \A o \in cs : m <= o
    BY <2>1, HasLeast
  <2>3. Min(cs) \in cs
    <3> HIDE DEF cs
    <3> QED BY <2>2, Zenon DEF Min
  <2> QED BY <2>1, <2>3 DEF NamedIn
<1>7. ASSUME NEW e \in named
      PROVE  ~Earlier(answer, e, e)
  BY <1>2, <1>6, <1>7 DEF Earlier
<1>8. ASSUME NEW i \in DOMAIN s, NEW j \in DOMAIN s, s[i] = s[j]
      PROVE  i = j
  <2>1. i \in Nat /\ j \in Nat /\ s[i] \in named
    <3> HIDE DEF named
    <3> QED BY <1>3, <1>4
  <2>2. ~(i < j) /\ ~(j < i)
    BY <1>3, <1>7, <1>8, <2>1
  <2> QED BY <2>1, <2>2
<1> QED BY <1>5, <1>8

(***************************************************************************)
(* The order of the mapped episodes is total.                              *)
(***************************************************************************)
LEMMA MappedOrder ==
    ASSUME ResearchType
    PROVE  /\ Mapped \subseteq Episodes /\ IsFiniteSet(Mapped)
           /\ \A b, e : Before(b, e) => b \in Mapped /\ e \in Mapped
           /\ \A b, e \in Mapped : b = e \/ Before(b, e) \/ Before(e, b)
           /\ \A e : ~Before(e, e)
           /\ \A b, e, x : Before(b, e) /\ Before(e, x) => Before(b, x)
<1>1. /\ mapped \in Seq(Episodes) /\ DOMAIN mapped \subseteq Nat
      /\ \A i, j \in DOMAIN mapped : mapped[i] = mapped[j] => i = j
  BY DEF ResearchType
<1>2. Mapped \subseteq Episodes
  BY <1>1 DEF Mapped, Range
<1>3. IsFiniteSet(Mapped)
  BY <1>2, ResearchAssumption, FS_Subset
<1>4. \A b, e : Before(b, e) => b \in Mapped /\ e \in Mapped
  BY DEF Before, Mapped, Range
<1>5. ASSUME NEW b \in Mapped, NEW e \in Mapped
      PROVE  b = e \/ Before(b, e) \/ Before(e, b)
  <2>1. PICK i \in DOMAIN mapped, j \in DOMAIN mapped : mapped[i] = b /\ mapped[j] = e
    BY DEF Mapped, Range
  <2>2. i < j \/ j < i \/ i = j
    BY <2>1, <1>1
  <2> QED BY <2>1, <2>2 DEF Before
<1>6. ASSUME NEW e, Before(e, e) PROVE FALSE
  <2>1. PICK i \in DOMAIN mapped, j \in DOMAIN mapped :
          i < j /\ mapped[i] = e /\ mapped[j] = e
    BY <1>6 DEF Before
  <2> QED BY <1>1, <2>1
<1>7. ASSUME NEW b, NEW e, NEW x, Before(b, e), Before(e, x) PROVE Before(b, x)
  <2>1. PICK i \in DOMAIN mapped, j \in DOMAIN mapped :
          i < j /\ mapped[i] = b /\ mapped[j] = e
    BY <1>7 DEF Before
  <2>2. PICK k \in DOMAIN mapped, l \in DOMAIN mapped :
          k < l /\ mapped[k] = e /\ mapped[l] = x
    BY <1>7 DEF Before
  <2>3. j = k
    BY <1>1, <2>1, <2>2
  <2>4. i < l
    BY <1>1, <2>1, <2>2, <2>3
  <2> QED BY <2>1, <2>2, <2>4 DEF Before
<1> QED BY <1>2, <1>3, <1>4, <1>5, <1>6, <1>7

(***************************************************************************)
(* A figure that appears in a mapped episode has a first one, which is     *)
(* that episode or one before it.                                          *)
(***************************************************************************)
LEMMA FirstEpisode ==
    ASSUME ResearchType, NEW f \in Figures, NEW e \in Mapped, e \in Appears[f]
    PROVE  \E b \in FirstOf(f) : b = e \/ Before(b, e)
<1>1. /\ DOMAIN mapped \subseteq Nat
      /\ \A i, j \in DOMAIN mapped : mapped[i] = mapped[j] => i = j
  BY DEF ResearchType
<1> DEFINE T == {i \in DOMAIN mapped : mapped[i] \in Appears[f]}
<1>2. PICK n \in T : mapped[n] = e
  BY DEF Mapped, Range
<1>3. PICK m \in T : \A o \in T : m <= o
  BY <1>1, <1>2, HasLeast
<1>4. mapped[m] \in Mapped \cap Appears[f]
  BY <1>3 DEF Mapped, Range
<1>5. ASSUME NEW b \in Appears[f], Before(b, mapped[m]) PROVE FALSE
  <2>1. PICK i \in DOMAIN mapped, j \in DOMAIN mapped :
          i < j /\ mapped[i] = b /\ mapped[j] = mapped[m]
    BY <1>5 DEF Before
  <2>2. j = m /\ i \in T
    BY <1>1, <1>3, <1>5, <2>1
  <2>3. m <= i
    BY <1>3, <2>2
  <2>4. i \in Nat /\ j \in Nat
    BY <1>1, <2>1
  <2> QED BY <2>1, <2>2, <2>3, <2>4
<1>6. mapped[m] \in FirstOf(f)
  BY <1>4, <1>5 DEF FirstOf
<1>7. mapped[m] = e \/ Before(mapped[m], e)
  <2>1. m <= n /\ m \in Nat /\ n \in Nat
    BY <1>1, <1>2, <1>3
  <2>2. CASE m = n
    BY <2>2, <1>2
  <2>3. CASE m < n
    BY <2>3, <1>2, <1>3 DEF Before
  <2> QED BY <2>1, <2>2, <2>3
<1> QED BY <1>6, <1>7

-----------------------------------------------------------------------------
(* What the agent requires, and what becomes of it. *)

(***************************************************************************)
(* A context that is there has its two fields.                             *)
(***************************************************************************)
LEMMA ContextParts ==
    ASSUME NEW C \in Contexts, NEW e \in Episodes, C[e] # None
    PROVE  /\ C[e] \in Context /\ C[e].required \in SUBSET Figures /\ C[e].synopsis \in BOOLEAN
           /\ \A r : [C[e] EXCEPT !.required = r] = [synopsis |-> C[e].synopsis, required |-> r]
<1>1. C[e] \in Context
  BY DEF Contexts
<1> QED BY <1>1 DEF Context

(***************************************************************************)
(* Where nothing is researched nothing is unsound.                         *)
(***************************************************************************)
LEMMA NothingSound == Nothing \in Contexts /\ IsSound(Nothing)
BY DEF Nothing, Contexts, IsSound

(***************************************************************************)
(* Normalizing takes nothing from contexts that are sound.                 *)
(***************************************************************************)
LEMMA NormalizedSound ==
    ASSUME ResearchType, NEW C \in Contexts
    PROVE  /\ Normalized(C) \in Contexts /\ Of(Normalized(C)) = Of(C)
           /\ IsSound(C) => IsSound(Normalized(C))
<1> DEFINE taken(e) == UNION {C[b].required : b \in {b \in Of(C) : Before(b, e)}}
           kept(e) == C[e].required \ taken(e)
           N == Normalized(C)
<1>1. \A e \in Episodes : C[e] = None => N[e] = None
  BY DEF Normalized
<1>2. ASSUME NEW e \in Episodes, C[e] # None
      PROVE  /\ N[e] = [synopsis |-> C[e].synopsis, required |-> kept(e)]
             /\ N[e] \in Context /\ N[e] # None /\ N[e].required = kept(e)
  <2>1. N[e] = [C[e] EXCEPT !.required = kept(e)]
    BY <1>2 DEF Normalized
  <2>2. N[e] = [synopsis |-> C[e].synopsis, required |-> kept(e)]
    <3> HIDE DEF kept, N
    <3> QED BY <1>2, <2>1, ContextParts
  <2>3. kept(e) \in SUBSET Figures /\ C[e].synopsis \in BOOLEAN
    BY <1>2, ContextParts
  <2> HIDE DEF kept, N
  <2>4. N[e] \in Context
    BY <2>2, <2>3 DEF Context
  <2> QED BY <2>2, <2>4, NoContext
<1>3. N \in Contexts
  <2>1. DOMAIN N = Episodes /\ N = [e \in Episodes |-> N[e]]
    BY DEF Normalized
  <2>2. \A e \in Episodes : N[e] \in Context \cup {None}
    BY <1>1, <1>2
  <2> HIDE DEF N
  <2> QED BY <2>1, <2>2 DEF Contexts
<1>4. Of(N) = Of(C)
  <2> HIDE DEF N
  <2> QED BY <1>1, <1>2 DEF Of
<1>5. ASSUME IsSound(C), NEW e \in Episodes, C[e] # None
      PROVE  N[e].required = Firsts(e)
  <2>1. C[e].required = Firsts(e)
    BY <1>5 DEF IsSound
  <2>2. ASSUME NEW f \in Firsts(e), f \in taken(e) PROVE FALSE
    <3>1. PICK b \in Of(C) : Before(b, e) /\ f \in C[b].required
      BY <2>2
    <3>2. f \in Firsts(b)
      BY <1>5, <3>1 DEF IsSound, Of
    <3>3. b \in Appears[f]
      BY <3>2 DEF Firsts, FirstOf
    <3> QED BY <2>2, <3>1, <3>3 DEF Firsts, FirstOf
  <2>3. kept(e) = Firsts(e)
    BY <2>1, <2>2
  <2> HIDE DEF N, kept
  <2> QED BY <1>2, <1>5, <2>3
<1>6. IsSound(C) => IsSound(N)
  <2> HIDE DEF N
  <2> QED BY <1>1, <1>2, <1>5 DEF IsSound
<1> QED BY <1>3, <1>4, <1>6

(***************************************************************************)
(* Normalizing leaves no figure required twice, sound or not               *)
(* (normalize_character_introduction_contexts).                            *)
(***************************************************************************)
LEMMA NormalizedOnce ==
    ASSUME NEW C \in Contexts, NEW b \in Episodes, NEW e \in Episodes,
           Normalized(C)[b] # None, Normalized(C)[e] # None, Before(b, e)
    PROVE  Normalized(C)[b].required \cap Normalized(C)[e].required = {}
<1> DEFINE taken(x) == UNION {C[y].required : y \in {y \in Of(C) : Before(y, x)}}
           kept(x) == C[x].required \ taken(x)
<1>1. ASSUME NEW x \in Episodes, Normalized(C)[x] # None
      PROVE  C[x] # None /\ Normalized(C)[x].required = C[x].required \ taken(x)
  <2>1. C[x] # None
    BY <1>1 DEF Normalized
  <2>2. Normalized(C)[x] = [C[x] EXCEPT !.required = kept(x)]
    BY <2>1 DEF Normalized
  <2>3. Normalized(C)[x] = [synopsis |-> C[x].synopsis, required |-> kept(x)]
    <3> HIDE DEF kept
    <3> QED BY <2>1, <2>2, ContextParts
  <2> QED BY <2>1, <2>3
<1>2. C[b].required \subseteq taken(e)
  BY <1>1 DEF Of
<1> HIDE DEF taken
<1>3. /\ Normalized(C)[b].required = C[b].required \ taken(b)
      /\ Normalized(C)[e].required = C[e].required \ taken(e)
  BY <1>1
<1> QED BY <1>2, <1>3

(***************************************************************************)
(* Of two pending episodes the earlier one is in the package of the later. *)
(***************************************************************************)
LEMMA PackagesInOrder ==
    ASSUME ResearchType, NEW e \in NextPackage, NEW b \in Pending, Before(b, e)
    PROVE  b \in NextPackage
<1> DEFINE ahead(x) == {y \in Pending : Before(y, x)}
<1>1. ahead(b) \subseteq ahead(e)
  BY MappedOrder
<1>2. IsFiniteSet(ahead(e))
  <2>1. ahead(e) \subseteq Mapped
    BY DEF Pending
  <2> HIDE DEF ahead
  <2> QED BY <2>1, MappedOrder, FS_Subset
<1>3. Cardinality(ahead(b)) <= Cardinality(ahead(e))
      /\ Cardinality(ahead(b)) \in Nat /\ Cardinality(ahead(e)) \in Nat
  <2> HIDE DEF ahead
  <2> QED BY <1>1, <1>2, FS_Subset, FS_CardinalityType
<1>4. Cardinality(ahead(e)) < Package
  BY DEF NextPackage
<1>5. Cardinality(ahead(b)) < Package
  <2> HIDE DEF ahead
  <2> QED BY <1>3, <1>4, ResearchAssumption
<1> QED BY <1>5 DEF NextPackage

(***************************************************************************)
(* The agent requires in an episode of its package exactly the figures     *)
(* whose first episode it is, as every earlier episode is in the package   *)
(* or researched before.                                                   *)
(***************************************************************************)
LEMMA RequiredFirst ==
    ASSUME ResearchType, IsSound(research.found), NEW e \in NextPackage
    PROVE  Required(Request, e) = Firsts(e)
<1> DEFINE found == research.found
<1>1. Request.episodes = NextPackage /\ Request.introduced = Introduced(found)
  BY DEF Request
<1>2. e \in Mapped /\ e \in Episodes /\ e \notin Of(found)
  BY MappedOrder DEF NextPackage, Pending
<1>3. ASSUME NEW f \in Firsts(e)
      PROVE  f \in Required(Request, e)
  <2>1. f \in Figures /\ e \in Appears[f] /\ \A b \in Appears[f] : ~Before(b, e)
    BY <1>3 DEF Firsts, FirstOf
  <2>2. ASSUME f \in Introduced(found) PROVE FALSE
    <3>1. PICK b \in Of(found) : f \in found[b].required
      BY <2>2 DEF Introduced
    <3>2. f \in Firsts(b) /\ b \in Mapped
      BY <3>1 DEF IsSound, Of
    <3>3. b \in Appears[f] /\ \A x \in Appears[f] : ~Before(x, b)
      BY <3>2 DEF Firsts, FirstOf
    <3>4. b = e
      BY <1>2, <2>1, <3>2, <3>3, MappedOrder
    <3> QED BY <1>2, <3>1, <3>4
  <2> QED BY <1>1, <2>1, <2>2 DEF Required
<1>4. ASSUME NEW f \in Required(Request, e)
      PROVE  f \in Firsts(e)
  <2>1. /\ f \in Figures /\ f \notin Introduced(found) /\ e \in Appears[f]
        /\ \A b \in NextPackage : Before(b, e) => b \notin Appears[f]
    BY <1>1, <1>4 DEF Required
  <2>2. PICK b \in FirstOf(f) : b = e \/ Before(b, e)
    BY <1>2, <2>1, FirstEpisode
  <2>3. b \in Mapped /\ b \in Appears[f] /\ f \in Firsts(b)
    BY <2>1, <2>2 DEF FirstOf, Firsts
  <2>4. CASE b = e
    BY <2>3, <2>4
  <2>5. CASE Before(b, e) /\ b \in Of(found)
    <3>1. b \in Episodes /\ found[b] # None
      BY <2>5 DEF Of
    <3>2. f \in found[b].required
      BY <2>3, <3>1 DEF IsSound
    <3>3. f \in Introduced(found)
      BY <2>5, <3>2 DEF Introduced
    <3> QED BY <2>1, <3>3
  <2>6. CASE Before(b, e) /\ b \notin Of(found)
    <3>1. b \in Pending
      BY <2>3, <2>6 DEF Pending
    <3>2. b \in NextPackage
      BY <2>6, <3>1, PackagesInOrder
    <3> QED BY <2>1, <2>3, <2>6, <3>2
  <2> QED BY <2>2, <2>4, <2>5, <2>6
<1> QED BY <1>3, <1>4

-----------------------------------------------------------------------------
(* The invariant is inductive. *)

Researches == [at : {"idle", "packages", "writing"}, found : Contexts, before : Contexts]

(***************************************************************************)
(* Under an unchanged mapping the order and the first episodes stay.       *)
(***************************************************************************)
LEMMA SameMapping ==
    ASSUME mapped' = mapped
    PROVE  Mapped' = Mapped /\ \A e : Firsts(e)' = Firsts(e)
<1>1. Mapped' = Mapped
  BY DEF Mapped
<1>2. \A b, e : Before(b, e)' = Before(b, e)
  BY DEF Before
<1>3. \A f : FirstOf(f)' = FirstOf(f)
  BY <1>1, <1>2 DEF FirstOf
<1>4. \A e : Firsts(e)' = Firsts(e)
  BY <1>3 DEF Firsts
<1> QED BY <1>1, <1>4

(***************************************************************************)
(* A step that keeps the mapping keeps the invariant if what it stores and *)
(* works with is sound, and complete when the script is written.           *)
(***************************************************************************)
LEMMA StepKeeps ==
    ASSUME ResearchInv, UNCHANGED <<mapped, remaps, remappedSince>>,
           stored' \in Contexts, research' \in Researches,
           research'.at = "idle" => research' = Idle,
           ~remappedSince => \A e \in Episodes :
             /\ stored'[e] # None => e \in Mapped /\ stored'[e].required = Firsts(e)
             /\ research'.found[e] # None =>
                  e \in Mapped /\ research'.found[e].required = Firsts(e)
             /\ research'.before[e] # None =>
                  e \in Mapped /\ research'.before[e].required = Firsts(e),
           research'.at = "writing" =>
             /\ \A e \in Mapped : research'.found[e] # None
             /\ \A b, e \in Episodes :
                  research'.found[b] # None /\ research'.found[e] # None /\ Before(b, e) =>
                    research'.found[b].required \cap research'.found[e].required = {}
    PROVE  ResearchInv'
<1>1. Mapped' = Mapped /\ \A e : Firsts(e)' = Firsts(e)
  BY SameMapping
<1>2. ResearchType'
  BY DEF ResearchInv, ResearchType, Researches
<1>3. ~remappedSince' => IsSound(stored)' /\ IsSound(research.found)' /\ IsSound(research.before)'
  BY <1>1 DEF IsSound
<1>4. Mapped \subseteq Episodes
  BY MappedOrder DEF ResearchInv
<1>5. Writes' => Mapped' \subseteq Of(research.found)' /\ NoneTwice(research.found)'
  <2>1. \A b, e : Before(b, e)' = Before(b, e)
    BY DEF Before
  <2> QED BY <1>1, <1>4, <2>1 DEF Writes, Of, NoneTwice
<1>6. (research.at = "idle" => research = Idle)'
  BY DEF Idle, Nothing
<1> QED BY <1>2, <1>3, <1>5, <1>6 DEF ResearchInv

(***************************************************************************)
(* Without a thread there is nothing at work.                              *)
(***************************************************************************)
LEMMA IdleResearch ==
    /\ Idle \in Researches /\ Idle.at = "idle"
    /\ \A e \in Episodes : Idle.found[e] = None /\ Idle.before[e] = None
BY NothingSound DEF Idle, Researches, Nothing

(***************************************************************************)
(* The invariant holds of a new project.                                   *)
(***************************************************************************)
LEMMA ResearchStart == ResearchInit => ResearchInv
<1> SUFFICES ASSUME ResearchInit PROVE ResearchInv
  OBVIOUS
<1>1. ResearchType
  <2>1. mapped \in Seq(Episodes) /\ DOMAIN mapped = {}
    BY DEF ResearchInit
  <2>2. remaps \in 0..MaxRemaps
    BY ResearchAssumption DEF ResearchInit
  <2>3. remappedSince \in BOOLEAN
    BY Zenon DEF ResearchInit
  <2>4. stored \in Contexts /\ research \in Researches
    BY NothingSound, IdleResearch DEF ResearchInit
  <2> QED BY <2>1, <2>2, <2>3, <2>4 DEF ResearchType, Researches
<1>2. IsSound(stored) /\ IsSound(research.found) /\ IsSound(research.before)
  BY IdleResearch DEF ResearchInit, IsSound, Nothing
<1>3. ~Writes
  BY IdleResearch DEF ResearchInit, Writes
<1> QED BY <1>1, <1>2, <1>3 DEF ResearchInv, ResearchInit

(***************************************************************************)
(* The mapping changes while nothing is researched, and what is stored of  *)
(* another mapping is known to be.                                         *)
(***************************************************************************)
LEMMA NothingStored ==
    ASSUME ResearchInv, mapped = << >>, ~remappedSince
    PROVE  \A e \in Episodes : stored[e] = None /\ research.found[e] = None
                               /\ research.before[e] = None
<1>1. Mapped = {}
  BY DEF Mapped, Range
<1> QED BY <1>1 DEF ResearchInv, IsSound

(***************************************************************************)
(* A new mapping meets no contexts of another one.                         *)
(***************************************************************************)
LEMMA MapChaptersInv == ASSUME ResearchInv, MapChapters PROVE ResearchInv'
<1>1. /\ mapped = << >> /\ research.at = "idle"
      /\ UNCHANGED <<stored, research, remaps, remappedSince>>
  BY DEF MapChapters
<1>2. PICK answer \in MappingAnswers : mapped' \in InOrder(answer)
  BY DEF MapChapters
<1>3. mapped' \in Seq(Episodes) /\ \A i, j \in DOMAIN mapped' : mapped'[i] = mapped'[j] => i = j
  BY <1>2, OrderedOnce
<1>4. ResearchType'
  BY <1>1, <1>3 DEF ResearchInv, ResearchType
<1>5. ~remappedSince' => IsSound(stored)' /\ IsSound(research.found)' /\ IsSound(research.before)'
  BY <1>1, NothingStored DEF IsSound
<1>6. ~Writes' /\ (research.at = "idle" => research = Idle)'
  BY <1>1 DEF Writes, ResearchInv, Idle, Nothing
<1> QED BY <1>4, <1>5, <1>6 DEF ResearchInv

(***************************************************************************)
(* A mapping that is dropped is remembered if contexts of it are stored.   *)
(***************************************************************************)
LEMMA ResetMappingInv == ASSUME ResearchInv, ResetMapping PROVE ResearchInv'
<1>1. /\ mapped' = << >> /\ research.at = "idle" /\ remaps < MaxRemaps /\ remaps' = remaps + 1
      /\ remappedSince' = (remappedSince \/ stored # Nothing)
      /\ UNCHANGED <<stored, research>>
  BY DEF ResetMapping
<1>2. remappedSince' \in BOOLEAN
  BY <1>1, Zenon DEF ResearchInv, ResearchType
<1>3. ResearchType'
  <2>1. remaps' \in 0..MaxRemaps
    BY <1>1, ResearchAssumption DEF ResearchInv, ResearchType
  <2>2. mapped' \in Seq(Episodes) /\ \A i, j \in DOMAIN mapped' : mapped'[i] = mapped'[j] => i = j
    BY <1>1
  <2> QED BY <1>1, <1>2, <2>1, <2>2 DEF ResearchInv, ResearchType
<1>4. ASSUME ~remappedSince'
      PROVE  IsSound(stored)' /\ IsSound(research.found)' /\ IsSound(research.before)'
  <2>1. ~remappedSince /\ stored = Nothing
    BY <1>1, <1>4, Zenon
  <2>2. \A e \in Episodes : stored'[e] = None
    BY <1>1, <2>1 DEF Nothing
  <2>3. \A e \in Episodes : research'.found[e] = None /\ research'.before[e] = None
    BY <1>1, IdleResearch DEF ResearchInv
  <2> QED BY <2>2, <2>3 DEF IsSound
<1>5. ~Writes' /\ (research.at = "idle" => research = Idle)'
  BY <1>1 DEF Writes, ResearchInv, Idle, Nothing
<1> QED BY <1>3, <1>4, <1>5 DEF ResearchInv

-----------------------------------------------------------------------------
(* The steps of a research. *)

(***************************************************************************)
(* The fields of a research at work.                                       *)
(***************************************************************************)
LEMMA ResearchParts ==
    ASSUME ResearchInv
    PROVE  /\ research \in Researches /\ stored \in Contexts
           /\ research.found \in Contexts /\ research.before \in Contexts
           /\ research = [at |-> research.at, found |-> research.found,
                          before |-> research.before]
BY DEF ResearchInv, ResearchType, Researches

(***************************************************************************)
(* The fields of a research, as its steps write it.                        *)
(***************************************************************************)
LEMMA NewResearch ==
    ASSUME NEW a \in {"packages", "writing"}, NEW f \in Contexts, NEW b \in Contexts
    PROVE  LET r == [at |-> a, found |-> f, before |-> b] IN
           r \in Researches /\ r.at = a /\ r.found = f /\ r.before = b /\ r.at # "idle"
BY DEF Researches

(***************************************************************************)
(* A run begins with what is stored and may be used again.                 *)
(***************************************************************************)
LEMMA BeginInv == ASSUME ResearchInv, Begin PROVE ResearchInv'
<1>1. /\ stored \in Contexts /\ ResearchType
      /\ ~remappedSince => IsSound(stored)
      /\ UNCHANGED <<mapped, stored, remaps, remappedSince>>
  BY DEF ResearchInv, ResearchType, Begin
<1>2. CASE /\ Current(stored)
           /\ research' = [at |-> "writing", found |-> Normalized(stored), before |-> stored]
  <2>1. /\ Normalized(stored) \in Contexts /\ Of(Normalized(stored)) = Of(stored)
        /\ ~remappedSince => IsSound(Normalized(stored))
    BY <1>1, NormalizedSound
  <2>2. /\ research' \in Researches /\ research'.at = "writing"
        /\ research'.found = Normalized(stored) /\ research'.before = stored
    BY <1>1, <1>2, <2>1, NewResearch
  <2>3. \A e \in Mapped : Normalized(stored)[e] # None
    BY <1>2, <2>1 DEF Current, Of
  <2>4. \A b, e \in Episodes :
          Normalized(stored)[b] # None /\ Normalized(stored)[e] # None /\ Before(b, e) =>
            Normalized(stored)[b].required \cap Normalized(stored)[e].required = {}
    BY <1>1, NormalizedOnce
  <2> QED BY <1>1, <2>1, <2>2, <2>3, <2>4, StepKeeps DEF IsSound
<1>3. CASE research' = [at |-> "packages", found |-> Reusable(stored), before |-> stored]
  <2>1. \A e \in Episodes : Reusable(stored)[e] = None \/ Reusable(stored)[e] = stored[e]
    BY DEF Reusable
  <2>2. Reusable(stored) \in Contexts
    <3>1. Reusable(stored) = [e \in Episodes |-> Reusable(stored)[e]]
      BY DEF Reusable
    <3>2. \A e \in Episodes : Reusable(stored)[e] \in Context \cup {None}
      BY <1>1, <2>1 DEF Contexts
    <3> QED BY <3>1, <3>2 DEF Contexts
  <2>3. /\ research' \in Researches /\ research'.at = "packages"
        /\ research'.found = Reusable(stored) /\ research'.before = stored
    BY <1>1, <1>3, <2>2, NewResearch
  <2> QED BY <1>1, <2>1, <2>3, StepKeeps DEF IsSound
<1> QED BY <1>2, <1>3 DEF Begin

(***************************************************************************)
(* A package brings sound contexts and is stored.                          *)
(***************************************************************************)
LEMMA AskPackageInv == ASSUME ResearchInv, AskPackage PROVE ResearchInv'
<1> DEFINE found(a) == [e \in Episodes |-> IF e \in DOMAIN a THEN a[e] ELSE research.found[e]]
<1>1. PICK a \in Answers(Request) :
        /\ research' = [research EXCEPT !.found = found(a)]
        /\ stored' = found(a)
  BY DEF AskPackage
<1>2. PICK synopses \in SUBSET Request.episodes :
        a = [e \in Request.episodes |->
                [synopsis |-> e \in synopses, required |-> Required(Request, e)]]
  BY <1>1 DEF Answers
<1>3. /\ research \in Researches /\ research.found \in Contexts /\ research.before \in Contexts
      /\ research.at = "packages"
      /\ UNCHANGED <<mapped, remaps, remappedSince>> /\ ResearchType
      /\ ~remappedSince => IsSound(research.found) /\ IsSound(research.before)
  BY ResearchParts DEF AskPackage, ResearchInv
<1>4. Request.episodes = NextPackage /\ NextPackage \subseteq Mapped /\ Mapped \subseteq Episodes
  BY <1>3, MappedOrder DEF Request, NextPackage, Pending
<1>5. \A e \in NextPackage : a[e] \in Context /\ a[e].required = Required(Request, e)
  <2>1. \A e \in NextPackage : Required(Request, e) \in SUBSET Figures
    BY DEF Required
  <2>2. \A e \in NextPackage :
          a[e] = [synopsis |-> e \in synopses, required |-> Required(Request, e)]
    BY <1>2, <1>4
  <2>3. ASSUME NEW e \in NextPackage PROVE a[e] \in Context /\ a[e].required = Required(Request, e)
    <3>1. CASE e \in synopses
      <4>1. (e \in synopses) = TRUE
        BY <3>1, Zenon
      <4>2. a[e] = [synopsis |-> TRUE, required |-> Required(Request, e)]
        BY <2>2, <4>1, Zenon
      <4> QED BY <2>1, <4>2 DEF Context
    <3>2. CASE e \notin synopses
      <4>1. (e \in synopses) = FALSE
        BY <3>2
      <4>2. a[e] = [synopsis |-> FALSE, required |-> Required(Request, e)]
        BY <2>2, <4>1, Zenon
      <4> QED BY <2>1, <4>2 DEF Context
    <3> QED BY <3>1, <3>2
  <2> QED BY <2>3
<1>6. DOMAIN a = NextPackage
  BY <1>2, <1>4
<1>7. /\ \A e \in NextPackage : found(a)[e] = a[e]
      /\ \A e \in Episodes \ NextPackage : found(a)[e] = research.found[e]
      /\ found(a) = [e \in Episodes |-> found(a)[e]]
  BY <1>4, <1>6
<1> HIDE DEF found
<1>8. found(a) \in Contexts
  <2>1. \A e \in Episodes : found(a)[e] \in Context \cup {None}
    BY <1>3, <1>5, <1>7 DEF Contexts
  <2> QED BY <1>7, <2>1 DEF Contexts
<1>9. /\ research' = [at |-> "packages", found |-> found(a), before |-> research.before]
      /\ research' \in Researches /\ research'.at = "packages"
      /\ research'.found = found(a) /\ research'.before = research.before
  <2>1. research' = [at |-> "packages", found |-> found(a), before |-> research.before]
    BY <1>1, <1>3, ResearchParts
  <2> QED BY <2>1, <1>3, <1>8, NewResearch
<1>10. ASSUME ~remappedSince, NEW e \in Episodes, found(a)[e] # None
       PROVE  e \in Mapped /\ found(a)[e].required = Firsts(e)
  <2>1. CASE e \in NextPackage
    BY <1>3, <1>4, <1>5, <1>7, <1>10, <2>1, RequiredFirst
  <2>2. CASE e \notin NextPackage
    BY <1>3, <1>7, <1>10, <2>2 DEF IsSound
  <2> QED BY <2>1, <2>2
<1> QED BY <1>1, <1>3, <1>8, <1>9, <1>10, StepKeeps DEF IsSound

(***************************************************************************)
(* After the last package there is a context for every episode.            *)
(***************************************************************************)
LEMMA ConcludeInv == ASSUME ResearchInv, Conclude PROVE ResearchInv'
<1> DEFINE N == Normalized(research.found)
<1>1. /\ research \in Researches /\ research.found \in Contexts /\ research.before \in Contexts
      /\ stored' = research.found /\ Pending = {}
      /\ research' = [research EXCEPT !.at = "writing", !.found = N]
      /\ UNCHANGED <<mapped, remaps, remappedSince>> /\ ResearchType
      /\ ~remappedSince => IsSound(research.found) /\ IsSound(research.before)
  BY ResearchParts DEF Conclude, ResearchInv
<1>2. N \in Contexts /\ Of(N) = Of(research.found) /\ (~remappedSince => IsSound(N))
  BY <1>1, NormalizedSound
<1>5. \A b, e \in Episodes :
        N[b] # None /\ N[e] # None /\ Before(b, e) => N[b].required \cap N[e].required = {}
  BY <1>1, NormalizedOnce
<1> HIDE DEF N
<1>3. /\ research' \in Researches /\ research'.at = "writing"
      /\ research'.found = N /\ research'.before = research.before
  <2>1. research' = [at |-> "writing", found |-> N, before |-> research.before]
    BY <1>1, ResearchParts
  <2> QED BY <2>1, <1>1, <1>2, NewResearch
<1>4. \A e \in Mapped : N[e] # None
  BY <1>1, <1>2 DEF Pending, Of
<1> QED BY <1>1, <1>2, <1>3, <1>4, <1>5, StepKeeps DEF IsSound

(***************************************************************************)
(* However a research ends, what is stored was sound before.               *)
(***************************************************************************)
LEMMA EndInv ==
    ASSUME ResearchInv, research' = Idle, UNCHANGED <<mapped, remaps, remappedSince>>,
           stored' \in {stored, research.found, research.before}
    PROVE  ResearchInv'
<1>1. /\ stored \in Contexts /\ research.found \in Contexts /\ research.before \in Contexts
      /\ ~remappedSince => IsSound(stored) /\ IsSound(research.found) /\ IsSound(research.before)
  BY ResearchParts DEF ResearchInv
<1>2. /\ research' \in Researches /\ research'.at = "idle"
      /\ \A e \in Episodes : research'.found[e] = None /\ research'.before[e] = None
  BY IdleResearch
<1>3. stored' \in Contexts
  BY <1>1
<1>4. ~remappedSince => \A e \in Episodes :
        stored'[e] # None => e \in Mapped /\ stored'[e].required = Firsts(e)
  BY <1>1 DEF IsSound
<1> QED BY <1>2, <1>3, <1>4, StepKeeps

(***************************************************************************)
(* Every step keeps the invariant.                                         *)
(***************************************************************************)
LEMMA ResearchStep == ResearchInv /\ [ResearchNext]_rvars => ResearchInv'
<1> SUFFICES ASSUME ResearchInv, [ResearchNext]_rvars PROVE ResearchInv'
  OBVIOUS
<1>1. CASE UNCHANGED rvars
  <2>1. /\ UNCHANGED <<mapped, stored, research, remaps, remappedSince>>
    BY <1>1 DEF rvars
  <2>2. Mapped' = Mapped /\ \A e : Firsts(e)' = Firsts(e)
    BY <2>1, SameMapping
  <2>3. \A b, e : Before(b, e)' = Before(b, e)
    BY <2>1 DEF Before
  <2> QED BY <2>1, <2>2, <2>3
       DEF ResearchInv, ResearchType, IsSound, NoneTwice, Writes, Of, Idle, Nothing
<1>2. CASE MapChapters
  BY <1>2, MapChaptersInv
<1>3. CASE ResetMapping
  BY <1>3, ResetMappingInv
<1>4. CASE Begin
  BY <1>4, BeginInv
<1>5. CASE AskPackage
  BY <1>5, AskPackageInv
<1>6. CASE Conclude
  BY <1>6, ConcludeInv
<1>7. CASE PackageFails
  BY <1>7, EndInv DEF PackageFails
<1>8. CASE ScriptFails
  BY <1>8, EndInv DEF ScriptFails
<1>9. CASE ScriptSucceeds
  BY <1>9, EndInv DEF ScriptSucceeds
<1>10. CASE ProcessEnds
  BY <1>10, EndInv DEF ProcessEnds
<1> QED BY <1>1, <1>2, <1>3, <1>4, <1>5, <1>6, <1>7, <1>8, <1>9, <1>10 DEF ResearchNext

(***************************************************************************)
(* The invariant holds throughout the life of a project.                   *)
(***************************************************************************)
LEMMA ResearchInvariant == ResearchSpec => []ResearchInv
BY ResearchStart, ResearchStep, PTL DEF ResearchSpec

-----------------------------------------------------------------------------
(* The results. *)

(***************************************************************************)
(* The types of the mapping, the stored contexts and the research, and no  *)
(* episode is mapped twice (unique_episode_ids).                           *)
(***************************************************************************)
THEOREM ResearchTypeCorrect == ResearchSpec => []ResearchType
<1>1. ResearchInv => ResearchType
  BY DEF ResearchInv
<1> QED BY <1>1, ResearchInvariant, PTL

(***************************************************************************)
(* Under one mapping a script is written with every figure required in the *)
(* first episode she appears in and in no other, however the episodes came *)
(* into packages and runs (research_episode_context in engine.py); and     *)
(* whatever the mappings were, in no second one                            *)
(* (normalize_character_introduction_contexts).                            *)
(***************************************************************************)
THEOREM FiguresIntroducedAtFirst == ResearchSpec => []IntroducedAtFirst
<1> DEFINE in(f) == {e \in Mapped : f \in research.found[e].required}
<1>1. ASSUME ResearchInv, Writes, NEW e \in Mapped
      PROVE  e \in Episodes /\ research.found[e] # None
  BY <1>1, MappedOrder DEF ResearchInv, Of
<1>2. ASSUME ResearchInv, Writes, ~remappedSince, NEW f \in Figures
      PROVE  in(f) = FirstOf(f)
  <2>1. \A e \in Mapped : research.found[e].required = Firsts(e)
    BY <1>1, <1>2 DEF ResearchInv, IsSound
  <2>2. \A e \in Mapped : f \in Firsts(e) <=> e \in FirstOf(f)
    BY DEF Firsts
  <2>3. FirstOf(f) \subseteq Mapped
    BY DEF FirstOf
  <2> QED BY <2>1, <2>2, <2>3
<1>3. ASSUME ResearchInv, Writes, NEW f \in Figures, NEW b \in in(f), NEW e \in in(f), b # e
      PROVE  FALSE
  <2>1. Before(b, e) \/ Before(e, b)
    <3>1. PICK i, j \in DOMAIN mapped : mapped[i] = b /\ mapped[j] = e
      BY DEF Mapped, Range
    <3>2. i < j \/ j < i
      BY <1>3, <3>1 DEF ResearchInv, ResearchType
    <3> QED BY <3>1, <3>2 DEF Before
  <2>2. /\ b \in Episodes /\ research.found[b] # None
        /\ e \in Episodes /\ research.found[e] # None
    BY <1>1, <1>3
  <2> QED BY <1>3, <2>1, <2>2 DEF ResearchInv, NoneTwice
<1>4. ResearchInv => IntroducedAtFirst
  BY <1>2, <1>3 DEF IntroducedAtFirst
<1> QED BY <1>4, ResearchInvariant, PTL

-----------------------------------------------------------------------------
(* The repair of an answer. *)

(***************************************************************************)
(* RepairInv is inductive: what is asked next and every error that may     *)
(* still be salvaged hold the engine's locked comments, an error at hand   *)
(* holds what is locked besides, and one that may be delivered as it is    *)
(* keeps the rules for cues.  DeliveredIsSound alone is not inductive: it  *)
(* says nothing of the errors that are kept for the end.                   *)
(***************************************************************************)
Placed(cut) == cut \in Placements

\* An alignment of a locked comment may lose its label as an edge's introduction.
KeepsLocks(p, cut, locks) ==
    \A c \in DOMAIN locks :
        /\ c \in DOMAIN cut /\ cut[c].at = locks[c].at
        /\ cut[c].text = locks[c].text \/ (c \in p.edges /\ locks[c].text = "intro")

(***************************************************************************)
(* The rules for the cues one by one and in pairs are kept: what every     *)
(* stage of the salvage still asks for.                                    *)
(***************************************************************************)
Passes(p, a) ==
    /\ p.edges \subseteq Selected(a)
    /\ \A c \in Selected(a) : a.cut[c].at \in Segs
    /\ Drifting(p, a) = {} /\ FormErrors(p, a) = {}
    /\ ContractErrors(p, a).kind = "ok"

\* An error that says only that the comments are too far apart or the figure is missing.
Thin(e) == Partial(e) /\ e.required # {} /\ e.invalid = {}

(***************************************************************************)
(* What a partial result at hand still has: the engine's comments, in an   *)
(* error that may be delivered all the rules for cues, and in one whose    *)
(* introduction may be rewritten no locked cue among the invalid.          *)
(***************************************************************************)
ErrorShape(p, e) ==
    Partial(e) =>
        /\ Placed(e.cut) /\ KeepsLocks(p, e.cut, p.locked)
        /\ Thin(e) => Passes(p, Answer(e.cut, e.formal))
        /\ e.kind \in {"introduction", "form"} /\ p.needed =>
             e.invalid \cap EngineLocked(p) = {}

\* What is asked next keeps the engine's comments.
CandidateShape(p, c) ==
    /\ c = Candidate(c.locked, c.formal, c.asked, c.still, c.told)
    /\ Placed(c.locked) /\ Placed(c.still) /\ KeepsLocks(p, c.locked, p.locked)

MemoryShape ==
    /\ ErrorShape(request, memory.last) /\ ErrorShape(request, memory.best)
    /\ ErrorShape(request, memory.unintroduced) /\ ErrorShape(request, memory.thin)
    /\ memory.thin = NoError \/ Thin(memory.thin)

OutcomeShape ==
    Delivered =>
        /\ Placed(outcome.cut) /\ Passes(request, Result)
        /\ KeepsLocks(request, outcome.cut, request.locked)
        /\ request.asked # {} \/ outcome.how \in {"answered", "rewritten"} =>
             Judge(request, Result) = Accepted(Result)

\* What a request under repair is at every place of its run: what was placed, what is
\* asked next, what is left to salvage and what was delivered fit each other.
RepairInv ==
    /\ request \in Requests
    /\ CandidateShape(request, candidate) /\ CandidateShape(request, onward)
    /\ ErrorShape(request, error)
    /\ Partial(error) => KeepsLocks(request, error.cut, candidate.locked)
    /\ MemoryShape /\ OutcomeShape

-----------------------------------------------------------------------------
(* Placements, and what a request is made of. *)

(***************************************************************************)
(* A placement gives some cues a segment and a text.                       *)
(***************************************************************************)
LEMMA PlacedCues ==
    ASSUME NEW cut, Placed(cut)
    PROVE  /\ DOMAIN cut \subseteq Cues /\ cut \in [DOMAIN cut -> Alignment]
           /\ cut = [c \in DOMAIN cut |-> cut[c]]
           /\ \A c \in DOMAIN cut : cut[c] \in Alignment
BY DEF Placed, Placements

(***************************************************************************)
(* Whatever gives some cues an alignment each is a placement.              *)
(***************************************************************************)
LEMMA MakePlaced ==
    ASSUME NEW cut, DOMAIN cut \subseteq Cues, cut = [c \in DOMAIN cut |-> cut[c]],
           \A c \in DOMAIN cut : cut[c] \in Alignment
    PROVE  Placed(cut)
<1>1. cut \in [DOMAIN cut -> Alignment]
  OBVIOUS
<1> QED BY <1>1 DEF Placed, Placements

(***************************************************************************)
(* The empty placement is one.                                             *)
(***************************************************************************)
LEMMA EmptyPlaced == DOMAIN Unplaced = {} /\ Placed(Unplaced)
<1>1. DOMAIN Unplaced = {}
  BY DEF Unplaced
<1>2. Unplaced = [c \in {} |-> c]
  BY DEF Unplaced
<1>3. Unplaced \in [{} -> Alignment]
  BY <1>2
<1> QED BY <1>1, <1>3 DEF Placed, Placements

(***************************************************************************)
(* What a request brings along.                                            *)
(***************************************************************************)
LEMMA Requested ==
    ASSUME NEW p \in Requests
    PROVE  /\ p \in RequestType /\ ~p.waived
           /\ p.edges \subseteq Cues /\ Placed(p.locked) /\ Placed(p.seed.cut)
           /\ p.seed = Answer(p.seed.cut, p.seed.formal)
           /\ p.offers \in [Cues -> SUBSET Alignment] /\ p.seen \in Segs \cup {0}
           /\ p.asked = {} => EngineLocked(p) = {}
<1>1. p \in RequestType /\ ~p.waived /\ (p.locked # Unplaced => p.asked # {})
  BY ChainAssumption, EngineAssumption
<1>2. /\ p.edges \subseteq Cues /\ p.locked \in Placements
      /\ p.seed \in [cut : Placements, formal : Cues \cup {NoCue}]
      /\ p.offers \in [Cues -> SUBSET Alignment] /\ p.seen \in Segs \cup {0}
  BY <1>1 DEF RequestType
<1>3. p.asked = {} => EngineLocked(p) = {}
  BY <1>1, EmptyPlaced DEF EngineLocked
<1> QED BY <1>1, <1>2, <1>3 DEF Placed, Answer

(***************************************************************************)
(* Of some selected cues one is met first in the order of time.            *)
(***************************************************************************)
LEMMA FirstCue ==
    ASSUME NEW a, Placed(a.cut), NEW cs, cs \subseteq Selected(a), cs # {}
    PROVE  FirstInTime(a, cs) \in cs
<1>1. /\ cs \subseteq Nat
      /\ \A c \in cs : a.cut[c].at \in Nat
  BY PlacedCues, PackageAssumption DEF Selected, Alignment
<1> DEFINE times == {a.cut[c].at : c \in cs}
<1>2. times \subseteq Nat /\ times # {}
  BY <1>1
<1> HIDE DEF times
<1>3. PICK t \in times : \A o \in times : t <= o
  BY <1>2, HasLeast
<1> DEFINE early == {c \in cs : a.cut[c].at = t}
<1>4. early \subseteq Nat /\ early # {}
  BY <1>1, <1>3 DEF times
<1> HIDE DEF early
<1>5. PICK c \in early : \A o \in early : c <= o
  BY <1>4, HasLeast
<1>6. c \in cs /\ a.cut[c].at = t
  BY <1>5 DEF early
<1>7. t \in Nat
  BY <1>2, <1>3
<1>8. ASSUME NEW d \in cs
      PROVE  \/ a.cut[c].at < a.cut[d].at
             \/ a.cut[c].at = a.cut[d].at /\ c <= d
  <2>1. a.cut[d].at \in times /\ a.cut[d].at \in Nat
    BY <1>1, <1>8 DEF times
  <2>2. t <= a.cut[d].at
    BY <1>3, <2>1
  <2>3. a.cut[d].at = t => c <= d
    BY <1>5, <1>8 DEF early
  <2> QED BY <1>6, <1>7, <2>1, <2>2, <2>3
<1> QED BY <1>6, <1>8, Zenon DEF FirstInTime

(***************************************************************************)
(* Keeping the locks of one placement through another.                     *)
(***************************************************************************)
LEMMA KeepsReflexive ==
    ASSUME NEW p, NEW cut, NEW locks, \A c \in DOMAIN locks : c \in DOMAIN cut /\ cut[c] = locks[c]
    PROVE  KeepsLocks(p, cut, locks)
BY DEF KeepsLocks

(***************************************************************************)
(* What keeps a placement that kept the locks keeps the locks.             *)
(***************************************************************************)
LEMMA KeepsTransitive ==
    ASSUME NEW p, NEW a, NEW b, NEW c, KeepsLocks(p, b, a), KeepsLocks(p, c, b)
    PROVE  KeepsLocks(p, c, a)
BY DEF KeepsLocks

-----------------------------------------------------------------------------
(* The validator. *)

(***************************************************************************)
(* The reconciliation leaves the placement alone.                          *)
(***************************************************************************)
LEMMA Reconciled ==
    ASSUME NEW p, NEW cut, NEW f
    PROVE  \E g : Reconcile(p, Answer(cut, f)) = Answer(cut, g)
<1>1. Answer(cut, f).cut = cut
  BY DEF Answer
<1> QED BY <1>1 DEF Reconcile

(***************************************************************************)
(* Relabelling edges changes labels of edges only, and once is enough.     *)
(***************************************************************************)
LEMMA RelabelledEdges ==
    ASSUME NEW p, NEW cut, NEW f, Placed(cut)
    PROVE  \E new : /\ RelabelEdges(p, Answer(cut, f)) = Answer(new, f)
                    /\ Placed(new) /\ DOMAIN new = DOMAIN cut
                    /\ KeepsLocks(p, new, cut)
                    /\ RelabelEdges(p, Answer(new, f)) = Answer(new, f)
<1> DEFINE hit(w, c) == c \in p.edges /\ w[c].text = "intro" /\ ~(c = p.start /\ c = f)
           relabel(w) == [c \in DOMAIN w |-> IF hit(w, c)
                                             THEN [at |-> w[c].at, text |-> "scene"] ELSE w[c]]
           new == relabel(cut)
<1>1. ASSUME NEW w
      PROVE  RelabelEdges(p, Answer(w, f)) = Answer(relabel(w), f)
  <2>1. Answer(w, f) = [cut |-> w, formal |-> f]
    BY DEF Answer
  <2>2. [[cut |-> w, formal |-> f] EXCEPT !.cut = relabel(w)] = [cut |-> relabel(w), formal |-> f]
    OBVIOUS
  <2> QED BY <2>1, <2>2 DEF RelabelEdges, Selected, Answer
<1>2. /\ DOMAIN cut \subseteq Cues /\ \A c \in DOMAIN cut : cut[c] \in Alignment
  BY PlacedCues
<1>3. /\ DOMAIN new = DOMAIN cut
      /\ \A c \in DOMAIN cut : IF hit(cut, c) THEN new[c] = [at |-> cut[c].at, text |-> "scene"]
                                              ELSE new[c] = cut[c]
  OBVIOUS
<1>4. \A c \in DOMAIN cut : [at |-> cut[c].at, text |-> "scene"] \in Alignment
  BY <1>2 DEF Alignment, Texts
<1>5. Placed(new)
  <2>1. \A c \in DOMAIN new : new[c] \in Alignment
    BY <1>2, <1>3, <1>4
  <2>2. new = [c \in DOMAIN new |-> new[c]]
    OBVIOUS
  <2> QED BY <1>2, <1>3, <2>1, <2>2, MakePlaced
<1>6. KeepsLocks(p, new, cut)
  BY <1>3 DEF KeepsLocks
<1>7. \A c \in DOMAIN new : ~hit(new, c)
  BY <1>3
<1>8. relabel(new) = new
  <2>1. relabel(new) = [c \in DOMAIN new |-> new[c]]
    BY <1>7
  <2> QED BY <2>1
<1>9. RelabelEdges(p, Answer(cut, f)) = Answer(new, f)
      /\ RelabelEdges(p, Answer(new, f)) = Answer(new, f)
  <2>1. RelabelEdges(p, Answer(cut, f)) = Answer(new, f)
    BY <1>1
  <2>2. RelabelEdges(p, Answer(new, f)) = Answer(relabel(new), f)
    BY <1>1
  <2> QED BY <1>8, <2>1, <2>2
<1> HIDE DEF new
<1> QED BY <1>3, <1>5, <1>6, <1>9

(***************************************************************************)
(* What the validator answers: the first rule that is broken, told of what *)
(* it has mended itself.                                                   *)
(***************************************************************************)
LEMMA JudgeCases ==
    ASSUME NEW p, NEW answer, NEW a, a = RelabelEdges(p, Reconcile(p, answer))
    PROVE  \/ Judge(p, answer) = Bare("empty")
           \/ Judge(p, answer) = Bare("plain")
           \/ /\ OutsideWindow(p, answer) # {}
              /\ Judge(p, answer) = Complaint("window", answer, OutsideWindow(p, answer),
                                              OutsideWindow(p, answer))
           \/ Judge(p, answer) = Complaint("drift", a, p.edges, {})
           \/ /\ FormErrors(p, a) # {}
              /\ Judge(p, answer) = Complaint("form", a, {FirstInTime(a, FormErrors(p, a))}, {})
           \/ /\ ContractErrors(p, a).kind # "ok"
              /\ Judge(p, answer) = ContractErrors(p, a)
           \/ /\ Passes(p, a) /\ DensityErrors(p, a).kind # "ok"
              /\ Judge(p, answer) = DensityErrors(p, a)
           \/ /\ Selected(answer) # {} /\ OutsideWindow(p, answer) = {}
              /\ Passes(p, a) /\ DensityErrors(p, a).kind = "ok"
              /\ Judge(p, answer) = IntroductionErrors(p, a)
<1>1. CASE Selected(answer) = {} \/ OutsideWindow(p, answer) # {}
           \/ ~(p.edges \subseteq Selected(a)) \/ \E c \in Selected(a) : a.cut[c].at \notin Segs
  BY <1>1, Zenon DEF Judge
<1>2. CASE /\ Selected(answer) # {} /\ OutsideWindow(p, answer) = {}
           /\ p.edges \subseteq Selected(a) /\ \A c \in Selected(a) : a.cut[c].at \in Segs
  <2>1. ~\E c \in Selected(a) : a.cut[c].at \notin Segs
    BY <1>2
  <2>2. CASE Drifting(p, a) # {}
    BY <1>2, <2>1, <2>2, Zenon DEF Judge
  <2>3. CASE Drifting(p, a) = {} /\ FormErrors(p, a) # {}
    BY <1>2, <2>1, <2>3, Zenon DEF Judge
  <2>4. CASE Drifting(p, a) = {} /\ FormErrors(p, a) = {} /\ ContractErrors(p, a).kind # "ok"
    BY <1>2, <2>1, <2>4, Zenon DEF Judge
  <2>5. CASE Drifting(p, a) = {} /\ FormErrors(p, a) = {} /\ ContractErrors(p, a).kind = "ok"
    <3>1. Passes(p, a)
      BY <1>2, <2>5 DEF Passes
    <3>2. CASE DensityErrors(p, a).kind # "ok"
      BY <1>2, <2>1, <2>5, <3>1, <3>2, Zenon DEF Judge
    <3>3. CASE DensityErrors(p, a).kind = "ok"
      BY <1>2, <2>1, <2>5, <3>1, <3>3, Zenon DEF Judge
    <3> QED BY <3>2, <3>3
  <2> QED BY <2>2, <2>3, <2>4, <2>5
<1> QED BY <1>1, <1>2

(***************************************************************************)
(* An answer the validator has nothing to mend in, that keeps the windows, *)
(* the rules for cues and the density, is judged by its introduction.      *)
(***************************************************************************)
LEMMA JudgedLast ==
    ASSUME NEW p, NEW a, a = RelabelEdges(p, Reconcile(p, a)), Selected(a) # {},
           OutsideWindow(p, a) = {}, Passes(p, a), DensityErrors(p, a).kind = "ok"
    PROVE  Judge(p, a) = IntroductionErrors(p, a)
<1>1. /\ p.edges \subseteq Selected(a) /\ ~\E c \in Selected(a) : a.cut[c].at \notin Segs
      /\ Drifting(p, a) = {} /\ FormErrors(p, a) = {}
      /\ ContractErrors(p, a).kind = "ok"
  BY DEF Passes
<1> QED BY <1>1, Zenon DEF Judge

(***************************************************************************)
(* The parts of a complaint.                                               *)
(***************************************************************************)
LEMMA Complaints ==
    ASSUME NEW k, NEW cut, NEW f, NEW i, NEW r
    PROVE  LET e == Complaint(k, Answer(cut, f), i, r) IN
           e.kind = k /\ e.cut = cut /\ e.formal = f /\ e.invalid = i /\ e.required = r
BY DEF Complaint, Answer

(***************************************************************************)
(* An error without a partial result is known by its kind.                 *)
(***************************************************************************)
LEMMA BareKind == ASSUME NEW k PROVE Bare(k).kind = k
BY DEF Bare, Complaint

(***************************************************************************)
(* The rules for the cues one by one and in pairs say of an answer that it *)
(* keeps them only if it keeps every one of them.                          *)
(***************************************************************************)
LEMMA ContractClean ==
    ASSUME NEW p, NEW a
    PROVE  \/ /\ ContractErrors(p, a) = Accepted(a)
              /\ Duplicated(a) = {} /\ Crossing(p, a) = {} /\ BudgetErrors(p, a) = {}
              /\ TextErrors(p, a) = {} /\ RepetitionErrors(p, a) = {}
              /\ Repetitions(p, a) = {} /\ ExtraIntroductions(p, a) = {}
           \/ \E k \in {"duplicate", "chronology", "texts", "mixed"} :
                 \E i : ContractErrors(p, a) = Complaint(k, a, i, {})
<1> DEFINE texts == BudgetErrors(p, a) \cup TextErrors(p, a) \cup RepetitionErrors(p, a)
                      \cup Repetitions(p, a) \cup ExtraIntroductions(p, a)
           all == {<<"duplicate", Duplicated(a)>>, <<"chronology", Crossing(p, a)>>,
                   <<"texts", texts>>}
           rules == {r \in all : r[2] # {}}
           first == CHOOSE r \in rules : TRUE
           invalid == UNION {r[2] : r \in rules} \ EngineLocked(p)
           kind == IF Cardinality(rules) = 1 THEN first[1] ELSE "mixed"
<1>1. ContractErrors(p, a) = IF rules = {} THEN Accepted(a) ELSE Complaint(kind, a, invalid, {})
  BY DEF ContractErrors
<1>2. CASE rules = {}
  <2> HIDE DEF texts
  <2>1. Duplicated(a) = {} /\ Crossing(p, a) = {} /\ texts = {}
    <3>1. \A r \in all : r[2] = {}
      BY <1>2
    <3>2. /\ <<"duplicate", Duplicated(a)>> \in all /\ <<"chronology", Crossing(p, a)>> \in all
          /\ <<"texts", texts>> \in all
      OBVIOUS
    <3> HIDE DEF all
    <3> QED BY <3>1, <3>2
  <2> USE DEF texts
  <2>2. /\ BudgetErrors(p, a) = {} /\ TextErrors(p, a) = {} /\ RepetitionErrors(p, a) = {}
        /\ Repetitions(p, a) = {} /\ ExtraIntroductions(p, a) = {}
    BY <2>1
  <2> QED BY <1>1, <1>2, <2>1, <2>2
<1>3. CASE rules # {}
  <2>1. first \in rules
    BY <1>3
  <2>2. first \in all
    BY <2>1
  <2> HIDE DEF texts, first
  <2>3. first[1] \in {"duplicate", "chronology", "texts"}
    BY <2>2
  <2>4. kind \in {"duplicate", "chronology", "texts", "mixed"}
    BY <2>3
  <2> HIDE DEF kind, invalid, rules
  <2> QED BY <1>1, <1>3, <2>4
<1> QED BY <1>2, <1>3

(***************************************************************************)
(* An answer without any of these errors passes the rules for cues.        *)
(***************************************************************************)
LEMMA CleanContract ==
    ASSUME NEW p, NEW a,
           Duplicated(a) = {}, Crossing(p, a) = {}, BudgetErrors(p, a) = {},
           TextErrors(p, a) = {}, RepetitionErrors(p, a) = {}, Repetitions(p, a) = {},
           ExtraIntroductions(p, a) = {}
    PROVE  ContractErrors(p, a).kind = "ok"
<1> DEFINE texts == BudgetErrors(p, a) \cup TextErrors(p, a) \cup RepetitionErrors(p, a)
                      \cup Repetitions(p, a) \cup ExtraIntroductions(p, a)
           rules == {r \in {<<"duplicate", Duplicated(a)>>, <<"chronology", Crossing(p, a)>>,
                            <<"texts", texts>>} : r[2] # {}}
<1>1. texts = {}
  OBVIOUS
<1> HIDE DEF texts
<1>2. rules = {}
  BY <1>1
<1> USE DEF texts
<1>3. ContractErrors(p, a) = Accepted(a)
  BY <1>2, Zenon DEF ContractErrors
<1> QED BY <1>3 DEF Accepted, Complaint

(***************************************************************************)
(* What the density rule and the rule for the introduction complain about. *)
(***************************************************************************)
LEMMA DensityCases ==
    ASSUME NEW p, NEW a, DensityErrors(p, a).kind # "ok"
    PROVE  \/ DensityErrors(p, a) = Bare("plain")
           \/ \E i : DensityErrors(p, a) = Complaint("count", a, i, {})
           \/ \E r : DensityErrors(p, a) = Complaint("gap", a, {}, r)
<1>1. Accepted(a).kind = "ok"
  BY DEF Accepted, Complaint
<1> QED BY <1>1, Zenon DEF DensityErrors

(***************************************************************************)
(* A missing introduction opens no locked cue for the retry.               *)
(***************************************************************************)
LEMMA MissingCases ==
    ASSUME NEW p, NEW a, Placed(a.cut)
    PROVE  /\ IntroductionMissing(p, a).kind = "introduction"
           /\ IntroductionMissing(p, a).cut = a.cut /\ IntroductionMissing(p, a).formal = a.formal
           /\ IntroductionMissing(p, a).invalid \cap EngineLocked(p) = {}
<1> DEFINE open == Cues \ EngineLocked(p)
           wanted == {p.dedicated} \ {NoCue}
           named == Naming(p, a)
           invalid == CASE a.formal \in open -> {a.formal}
                        [] a.formal \notin open /\ named # {} -> {FirstInTime(a, named)}
                        [] a.formal \notin open /\ named = {} /\ wanted = {} ->
                             open \cap Selected(a)
                        [] OTHER -> {}
           required == IF a.formal \notin open /\ named = {} /\ wanted = {} THEN open \ Selected(a)
                       ELSE wanted
<1>1. IntroductionMissing(p, a)
        = [Complaint("introduction", a, invalid, required) EXCEPT !.failed = TRUE]
  BY Zenon DEF IntroductionMissing
<1>2. named # {} => FirstInTime(a, named) \in named
  BY FirstCue DEF Naming
<1>3. named \cap EngineLocked(p) = {}
  BY DEF Naming
<1> HIDE DEF named, wanted
<1>4. invalid \cap EngineLocked(p) = {}
  <2>1. CASE a.formal \in open
    BY <2>1
  <2>2. CASE a.formal \notin open /\ named # {}
    BY <2>2, <1>2, <1>3
  <2>3. CASE a.formal \notin open /\ named = {} /\ wanted = {}
    BY <2>3
  <2>4. CASE a.formal \notin open /\ named = {} /\ wanted # {}
    BY <2>4
  <2> QED BY <2>1, <2>2, <2>3, <2>4
<1> HIDE DEF invalid, required
<1> QED BY <1>1, <1>4 DEF Complaint

(***************************************************************************)
(* The rule for the introduction: satisfied or waived, one too many, or    *)
(* one that is missing.                                                    *)
(***************************************************************************)
LEMMA IntroductionCases ==
    ASSUME NEW p, NEW a
    PROVE  \/ /\ IntroductionErrors(p, a) = Accepted(a)
              /\ p.needed => p.waived \/ a.formal \in Selected(a)
           \/ \E i : ~p.needed /\ IntroductionErrors(p, a) = Complaint("introduction", a, i, {})
           \/ IntroductionErrors(p, a) = IntroductionMissing(p, a)
<1>1. CASE ~p.needed
  BY <1>1, Zenon DEF IntroductionErrors
<1>2. CASE p.needed /\ (p.waived \/ Introduces(p, a))
  BY <1>2, Zenon DEF IntroductionErrors, Introduces
<1>3. CASE p.needed /\ ~(p.waived \/ Introduces(p, a))
  BY <1>3, Zenon DEF IntroductionErrors
<1> QED BY <1>1, <1>2, <1>3

(***************************************************************************)
(* What the validator may be told, and what it makes of it: the same cues  *)
(* in the same places, and nothing more to mend.                           *)
(***************************************************************************)
LEMMA Mended ==
    ASSUME NEW p, NEW cut, NEW f, Placed(cut)
    PROVE  \E new, g : /\ RelabelEdges(p, Reconcile(p, Answer(cut, f))) = Answer(new, g)
                       /\ Placed(new) /\ DOMAIN new = DOMAIN cut
                       /\ KeepsLocks(p, new, cut)
                       /\ RelabelEdges(p, Answer(new, g)) = Answer(new, g)
<1>1. PICK g : Reconcile(p, Answer(cut, f)) = Answer(cut, g)
  BY Reconciled
<1>2. PICK new : /\ RelabelEdges(p, Answer(cut, g)) = Answer(new, g)
                 /\ Placed(new) /\ DOMAIN new = DOMAIN cut
                 /\ KeepsLocks(p, new, cut)
                 /\ RelabelEdges(p, Answer(new, g)) = Answer(new, g)
  BY RelabelledEdges
<1> QED BY <1>1, <1>2, Zenon

(***************************************************************************)
(* What is complained about are comments in their places, with a gap or a  *)
(* missing introduction all the rules for cues are kept, and an introduc-  *)
(* tion or a form that is to be rewritten is no locked one.                *)
(***************************************************************************)
LEMMA JudgedShape ==
    ASSUME NEW p, NEW cut, NEW f, Placed(cut)
    PROVE  LET e == Judge(p, Answer(cut, f)) IN
           Partial(e) =>
             /\ Placed(e.cut) /\ KeepsLocks(p, e.cut, cut)
             /\ Thin(e) => Passes(p, Answer(e.cut, e.formal))
             /\ e.kind \in {"introduction", "form"} /\ p.needed =>
                  e.invalid \cap EngineLocked(p) = {}
<1> DEFINE e == Judge(p, Answer(cut, f))
<1>1. PICK new, g : /\ RelabelEdges(p, Reconcile(p, Answer(cut, f))) = Answer(new, g)
                    /\ Placed(new) /\ DOMAIN new = DOMAIN cut
                    /\ KeepsLocks(p, new, cut)
                    /\ RelabelEdges(p, Answer(new, g)) = Answer(new, g)
  BY Mended
<1> DEFINE a == Answer(new, g)
<1>2. /\ a.cut = new /\ a.formal = g /\ a = Answer(a.cut, a.formal)
      /\ KeepsLocks(p, cut, cut)
  BY KeepsReflexive DEF Answer
<1>3. \A k : Bare(k).kind = k
  BY BareKind
<1>4. \A k, i, r : LET c == Complaint(k, a, i, r) IN
        c.kind = k /\ c.cut = new /\ c.formal = g /\ c.invalid = i /\ c.required = r
  BY Complaints
<1>5. \A k, i, r : LET c == Complaint(k, Answer(cut, f), i, r) IN
        c.kind = k /\ c.cut = cut /\ c.formal = f /\ c.invalid = i /\ c.required = r
  BY Complaints
<1>6. ASSUME Passes(p, a), e.kind # "ok",
             e = DensityErrors(p, a) \/ e = IntroductionErrors(p, a)
      PROVE  Partial(e) =>
               /\ e.cut = new /\ e.formal = g
               /\ e.kind \in {"introduction", "form"} /\ p.needed =>
                    e.invalid \cap EngineLocked(p) = {}
  <2> HIDE DEF e, a
  <2>1. CASE e = DensityErrors(p, a)
    <3>1. \/ e = Bare("plain")
          \/ \E i : e = Complaint("count", a, i, {})
          \/ \E r : e = Complaint("gap", a, {}, r)
      BY <1>6, <2>1, DensityCases
    <3> QED BY <3>1, <1>3, <1>4 DEF Partial
  <2>2. CASE e = IntroductionErrors(p, a)
    <3>1. \/ e = Accepted(a)
          \/ \E i : ~p.needed /\ e = Complaint("introduction", a, i, {})
          \/ e = IntroductionMissing(p, a)
      BY <2>2, IntroductionCases
    <3>2. Accepted(a).kind = "ok"
      BY <1>4 DEF Accepted
    <3>3. CASE \E i : ~p.needed /\ e = Complaint("introduction", a, i, {})
      BY <3>3, <1>4
    <3>4. CASE e = IntroductionMissing(p, a)
      BY <3>4, <1>1, <1>2, MissingCases
    <3> QED BY <1>6, <3>1, <3>2, <3>3, <3>4
  <2> QED BY <1>6, <2>1, <2>2
<1>7. CASE e = Bare("empty") \/ e = Bare("plain")
  BY <1>7, <1>3 DEF Partial
<1>8. CASE /\ OutsideWindow(p, Answer(cut, f)) # {}
           /\ e = Complaint("window", Answer(cut, f), OutsideWindow(p, Answer(cut, f)),
                            OutsideWindow(p, Answer(cut, f)))
  <2>1. e.kind = "window" /\ e.cut = cut /\ e.invalid # {}
    BY <1>8, <1>5
  <2> QED BY <2>1, <1>2 DEF Thin
<1>9. CASE e = Complaint("drift", a, p.edges, {})
  <2>1. e.kind = "drift" /\ e.cut = new /\ e.required = {}
    BY <1>9, <1>4
  <2> QED BY <2>1, <1>1 DEF Thin
<1>10. CASE /\ FormErrors(p, a) # {}
            /\ e = Complaint("form", a, {FirstInTime(a, FormErrors(p, a))}, {})
  <2>1. /\ e.kind = "form" /\ e.cut = new /\ e.required = {}
        /\ e.invalid = {FirstInTime(a, FormErrors(p, a))}
    BY <1>10, <1>4
  <2>2. FirstInTime(a, FormErrors(p, a)) \in FormErrors(p, a)
    BY <1>1, <1>2, <1>10, FirstCue DEF FormErrors
  <2>3. e.invalid \cap EngineLocked(p) = {}
    BY <2>1, <2>2 DEF FormErrors
  <2> QED BY <2>1, <2>3, <1>1 DEF Thin
<1>11. CASE ContractErrors(p, a).kind # "ok" /\ e = ContractErrors(p, a)
  <2>1. PICK k, i : /\ k \in {"duplicate", "chronology", "texts", "mixed"}
                    /\ e = Complaint(k, a, i, {})
    <3>1. ContractErrors(p, a) # Accepted(a)
      BY <1>11, <1>4 DEF Accepted
    <3> QED BY <1>11, <3>1, ContractClean
  <2>2. e.kind = k /\ e.cut = new /\ e.required = {}
    BY <2>1, <1>4
  <2> QED BY <2>1, <2>2, <1>1 DEF Thin
<1>12. CASE e.kind = "ok"
  BY <1>12 DEF Partial
<1>13. CASE /\ Passes(p, a) /\ e.kind # "ok"
            /\ e = DensityErrors(p, a) \/ e = IntroductionErrors(p, a)
  <2>1. Partial(e) =>
          /\ e.cut = new /\ e.formal = g
          /\ e.kind \in {"introduction", "form"} /\ p.needed =>
               e.invalid \cap EngineLocked(p) = {}
    BY <1>13, <1>6
  <2> QED BY <2>1, <1>13, <1>1
<1> HIDE DEF a
<1>14. \/ e = Bare("empty")
       \/ e = Bare("plain")
       \/ /\ OutsideWindow(p, Answer(cut, f)) # {}
          /\ e = Complaint("window", Answer(cut, f), OutsideWindow(p, Answer(cut, f)),
                           OutsideWindow(p, Answer(cut, f)))
       \/ e = Complaint("drift", a, p.edges, {})
       \/ /\ FormErrors(p, a) # {}
          /\ e = Complaint("form", a, {FirstInTime(a, FormErrors(p, a))}, {})
       \/ ContractErrors(p, a).kind # "ok" /\ e = ContractErrors(p, a)
       \/ Passes(p, a) /\ DensityErrors(p, a).kind # "ok" /\ e = DensityErrors(p, a)
       \/ Passes(p, a) /\ e = IntroductionErrors(p, a)
  <2>1. a = RelabelEdges(p, Reconcile(p, Answer(cut, f)))
    BY <1>1 DEF a
  <2> QED BY <2>1, JudgeCases, Zenon
<1> HIDE DEF e
<1> QED BY <1>7, <1>8, <1>9, <1>10, <1>11, <1>12, <1>13, <1>14, Zenon

(***************************************************************************)
(* An answer that is accepted keeps the rules for cues, and judged again   *)
(* as it is returned it is accepted again.                                 *)
(***************************************************************************)
LEMMA JudgedOk ==
    ASSUME NEW p, NEW cut, NEW f, Placed(cut), Judge(p, Answer(cut, f)).kind = "ok"
    PROVE  LET e == Judge(p, Answer(cut, f))
               a == Answer(e.cut, e.formal) IN
           /\ Placed(e.cut) /\ KeepsLocks(p, e.cut, cut)
           /\ Passes(p, a)
           /\ ~p.waived => Judge(p, a) = Accepted(a)
<1> DEFINE e == Judge(p, Answer(cut, f))
<1>1. PICK new, g : /\ RelabelEdges(p, Reconcile(p, Answer(cut, f))) = Answer(new, g)
                    /\ Placed(new) /\ DOMAIN new = DOMAIN cut
                    /\ KeepsLocks(p, new, cut)
                    /\ RelabelEdges(p, Answer(new, g)) = Answer(new, g)
  BY Mended
<1> DEFINE a == Answer(new, g)
<1>2. /\ a.cut = new /\ a.formal = g
      /\ Answer(cut, f).cut = cut
  BY DEF Answer
<1>3. /\ \A k : Bare(k).kind = k
      /\ \A k, b, i, r : Complaint(k, b, i, r).kind = k
  BY BareKind DEF Complaint
<1>4. /\ Selected(Answer(cut, f)) # {} /\ OutsideWindow(p, Answer(cut, f)) = {}
      /\ Passes(p, a) /\ DensityErrors(p, a).kind = "ok"
      /\ e = IntroductionErrors(p, a)
  <2>1. a = RelabelEdges(p, Reconcile(p, Answer(cut, f)))
    BY <1>1
  <2> HIDE DEF a
  <2>2. \A k \in {"empty", "plain"} : Judge(p, Answer(cut, f)) # Bare(k)
    BY <1>3
  <2>3. \A k \in {"window", "drift", "form"} : \A b, i, r :
          Judge(p, Answer(cut, f)) # Complaint(k, b, i, r)
    BY <1>3
  <2> QED BY <2>1, <2>2, <2>3, JudgeCases
<1>5. e = Accepted(a) /\ (p.needed => p.waived \/ g \in Selected(a))
  <2> HIDE DEF a
  <2>1. \A i : e # Complaint("introduction", a, i, {})
    BY <1>3
  <2>2. IntroductionMissing(p, a).kind # "ok"
    BY <1>1, <1>2, MissingCases
  <2>3. e # IntroductionMissing(p, a)
    BY <2>2
  <2> HIDE DEF e
  <2> QED BY <1>2, <1>4, <2>1, <2>3, IntroductionCases
<1>6. Answer(e.cut, e.formal) = a
  BY <1>5, <1>2 DEF Accepted, Complaint
<1>7. e.cut = new
  BY <1>5, <1>2 DEF Accepted, Complaint
<1>8. ASSUME ~p.waived
      PROVE  Judge(p, a) = Accepted(a)
  <2>1. Reconcile(p, a) = a
    <3>1. p.needed => g \in Cues
      BY <1>1, <1>2, <1>5, <1>8, PlacedCues DEF Selected
    <3>2. p.needed => a.formal # NoCue
      BY <3>1, <1>2, PackageAssumption
    <3> QED BY <3>2 DEF Reconcile
  <2>2. Selected(a) # {}
    BY <1>1, <1>2, <1>4 DEF Selected
  <2>3. OutsideWindow(p, a) = {}
    <3>1. \A c \in DOMAIN cut : new[c].at = cut[c].at
      BY <1>1 DEF KeepsLocks
    <3> QED BY <3>1, <1>1, <1>2, <1>4 DEF OutsideWindow, Selected
  <2>4. Judge(p, a) = IntroductionErrors(p, a)
    <3>1. a = RelabelEdges(p, Reconcile(p, a))
      BY <1>1, <2>1
    <3> HIDE DEF a
    <3> QED BY <3>1, <2>2, <2>3, <1>4, JudgedLast
  <2> QED BY <2>4, <1>4, <1>5
<1> HIDE DEF a
<1>9. Placed(e.cut) /\ KeepsLocks(p, e.cut, cut)
  BY <1>1, <1>7
<1> QED BY <1>4, <1>6, <1>8, <1>9

-----------------------------------------------------------------------------
(* What is judged: answers, older results and what is left of an error. *)

(***************************************************************************)
(* A part of a placement is one.                                           *)
(***************************************************************************)
LEMMA RestrictPlaced ==
    ASSUME NEW cut, Placed(cut), NEW cs, cs \subseteq DOMAIN cut
    PROVE  /\ Placed(Restrict(cut, cs)) /\ DOMAIN Restrict(cut, cs) = cs
           /\ \A c \in cs : Restrict(cut, cs)[c] = cut[c]
<1>1. /\ DOMAIN Restrict(cut, cs) = cs
      /\ \A c \in cs : Restrict(cut, cs)[c] = cut[c]
      /\ Restrict(cut, cs) = [c \in cs |-> Restrict(cut, cs)[c]]
  BY DEF Restrict
<1>2. DOMAIN cut \subseteq Cues /\ \A c \in DOMAIN cut : cut[c] \in Alignment
  BY PlacedCues
<1>3. Placed(Restrict(cut, cs))
  <2> DEFINE part == Restrict(cut, cs)
  <2>1. /\ DOMAIN part \subseteq Cues /\ part = [c \in DOMAIN part |-> part[c]]
        /\ \A c \in DOMAIN part : part[c] \in Alignment
    BY <1>1, <1>2
  <2> HIDE DEF part
  <2>2. Placed(part)
    BY <2>1, MakePlaced
  <2> QED BY <2>2 DEF part
<1> QED BY <1>1, <1>3

(***************************************************************************)
(* A placement stays one when the cues it has get other alignments.        *)
(***************************************************************************)
LEMMA ChangedPlaced ==
    ASSUME NEW cut, Placed(cut), NEW new, DOMAIN new = DOMAIN cut,
           new = [c \in DOMAIN new |-> new[c]],
           \A c \in DOMAIN cut : new[c] \in Alignment
    PROVE  Placed(new)
BY PlacedCues, MakePlaced

(***************************************************************************)
(* A new text for one cue leaves the others alone.                         *)
(***************************************************************************)
LEMMA RelabelledPlaced ==
    ASSUME NEW cut, Placed(cut), NEW f, NEW x, NEW text \in Texts
    PROVE  \E new : /\ Relabelled(Answer(cut, f), x, text) = Answer(new, f)
                    /\ Placed(new) /\ DOMAIN new = DOMAIN cut
                    /\ \A c \in DOMAIN cut \ {x} : new[c] = cut[c]
<1> DEFINE moved == [at |-> cut[x].at, text |-> text]
           new == [cut EXCEPT ![x] = moved]
<1>1. Relabelled(Answer(cut, f), x, text) = Answer(new, f)
  <2>1. Answer(cut, f) = [cut |-> cut, formal |-> f]
    BY DEF Answer
  <2>2. [[cut |-> cut, formal |-> f] EXCEPT !.cut[x] = moved] = [cut |-> new, formal |-> f]
    OBVIOUS
  <2> QED BY <2>1, <2>2 DEF Relabelled, Answer
<1>2. \A c \in DOMAIN cut : cut[c] \in Alignment
  BY PlacedCues
<1>3. /\ DOMAIN new = DOMAIN cut
      /\ \A c \in DOMAIN cut : new[c] = IF c = x THEN moved ELSE cut[c]
      /\ new = [c \in DOMAIN new |-> new[c]]
  OBVIOUS
<1>4. \A c \in DOMAIN cut : new[c] \in Alignment
  <2>1. x \in DOMAIN cut => moved \in Alignment
    BY <1>2 DEF Alignment
  <2> QED BY <1>2, <1>3, <2>1
<1> HIDE DEF new, moved
<1>5. Placed(new)
  BY <1>3, <1>4, ChangedPlaced
<1> QED BY <1>1, <1>3, <1>5

(***************************************************************************)
(* A provider's answer, as any answer may say of a cue.                    *)
(***************************************************************************)
LEMMA AnsweredShape ==
    ASSUME request \in Requests, NEW x \in Replies
    PROVE  \E cut, f : x = Answer(cut, f) /\ Placed(cut)
<1>1. PICK cut, f : cut \in Cuts(request.offers) /\ x = Answer(cut, f)
  BY DEF Replies
<1>2. PICK cs \in SUBSET Cues :
        /\ cut \in [cs -> UNION Range(request.offers)]
        /\ \A c \in cs : cut[c] \in request.offers[c]
  BY <1>1 DEF Cuts
<1>3. \A c \in cs : cut[c] \in Alignment
  <2>1. request.offers \in [Cues -> SUBSET Alignment]
    BY Requested
  <2> QED BY <2>1, <1>2
<1>4. DOMAIN cut = cs /\ cut = [c \in DOMAIN cut |-> cut[c]]
  BY <1>2
<1> QED BY <1>1, <1>3, <1>4, MakePlaced

(***************************************************************************)
(* An answer is completed by what is locked, and nothing in it counts      *)
(* against that.                                                           *)
(***************************************************************************)
LEMMA Merged ==
    ASSUME NEW c, Placed(c.locked), Placed(c.still), NEW cut, Placed(cut), NEW f
    PROVE  \E new, g : /\ Merge(c, Answer(cut, f)) = Answer(new, g)
                       /\ Placed(new)
                       /\ \A x \in DOMAIN c.locked : x \in DOMAIN new /\ new[x] = c.locked[x]
<1> DEFINE kept == [x \in DOMAIN cut |-> IF x \in DOMAIN c.still
                                         THEN [at |-> cut[x].at, text |-> c.still[x].text]
                                         ELSE cut[x]]
           a == RestoreTexts(c.still, Answer(cut, f))
<1>1. a = Answer(kept, f)
  <2>1. Answer(cut, f) = [cut |-> cut, formal |-> f]
    BY DEF Answer
  <2>2. [[cut |-> cut, formal |-> f] EXCEPT !.cut = kept] = [cut |-> kept, formal |-> f]
    OBVIOUS
  <2> QED BY <2>1, <2>2 DEF RestoreTexts, Selected, Answer
<1>2. /\ \A x \in DOMAIN cut : cut[x] \in Alignment
      /\ \A x \in DOMAIN c.still : c.still[x] \in Alignment
  BY PlacedCues
<1>3. Placed(kept)
  <2>1. /\ DOMAIN kept = DOMAIN cut /\ kept = [x \in DOMAIN kept |-> kept[x]]
        /\ \A x \in DOMAIN cut : kept[x] \in Alignment
    BY <1>2 DEF Alignment
  <2> HIDE DEF kept
  <2> QED BY <2>1, ChangedPlaced
<1> DEFINE fresh == Restrict(a.cut, Selected(a) \cap RepairScope(c))
<1> HIDE DEF kept, a
<1>4. a.cut = kept /\ a.formal = f /\ Selected(a) = DOMAIN kept
  BY <1>1 DEF Answer, Selected
<1>5. CASE c.locked = Unplaced
  <2>1. Merge(c, Answer(cut, f)) = Answer(kept, f)
    BY <1>1, <1>5 DEF Merge, a
  <2>2. DOMAIN c.locked = {}
    BY <1>5, EmptyPlaced
  <2> QED BY <1>3, <2>1, <2>2
<1>6. CASE c.locked # Unplaced
  <2> DEFINE both == [x \in DOMAIN fresh \cup DOMAIN c.locked |->
                        IF x \in DOMAIN c.locked THEN c.locked[x] ELSE fresh[x]]
             g == IF a.formal \in RepairScope(c) THEN a.formal ELSE c.formal
  <2>1. Merge(c, Answer(cut, f)) = Answer(both, g)
    BY <1>6 DEF Merge, a
  <2>2. Placed(fresh)
    BY <1>3, <1>4, RestrictPlaced
  <2>3. /\ DOMAIN fresh \subseteq Cues /\ DOMAIN c.locked \subseteq Cues
        /\ \A x \in DOMAIN fresh : fresh[x] \in Alignment
        /\ \A x \in DOMAIN c.locked : c.locked[x] \in Alignment
    <3> HIDE DEF fresh
    <3> QED BY <2>2, PlacedCues
  <2> HIDE DEF fresh
  <2>4. /\ DOMAIN both \subseteq Cues /\ both = [x \in DOMAIN both |-> both[x]]
        /\ \A x \in DOMAIN both : both[x] \in Alignment
        /\ \A x \in DOMAIN c.locked : x \in DOMAIN both /\ both[x] = c.locked[x]
    BY <2>3
  <2> HIDE DEF both, g
  <2>5. Placed(both)
    BY <2>4, MakePlaced
  <2> QED BY <2>1, <2>4, <2>5
<1> QED BY <1>5, <1>6

(***************************************************************************)
(* An older result is brought up to the rules as a placement of cues.      *)
(***************************************************************************)
LEMMA CleanedShape ==
    ASSUME NEW p \in Requests, NEW cleaned
    PROVE  \E cut, f : CleanSeed(p, cleaned) = Answer(cut, f) /\ Placed(cut)
<1>1. /\ Placed(p.seed.cut) /\ p.seed = Answer(p.seed.cut, p.seed.formal)
      /\ p.seen \in Segs \cup {0}
  BY Requested
<1> DEFINE old == p.seed.cut
           a == SeedTexts(p.seed, cleaned)
           c == SeedCarrier(p, a)
           named == Naming(p, a) \ p.edges # {}
           moved == IF ~named /\ p.seen # 0 /\ c \notin p.edges THEN MoveToSeen(p, a, c) ELSE a
           f == p.seed.formal
<1>2. \E cut : a = Answer(cut, f) /\ Placed(cut)
  <2> DEFINE new == [x \in DOMAIN old |->
                       IF x \in cleaned /\ old[x].text \in {"bad", "long", "told"}
                       THEN [at |-> old[x].at, text |-> "scene"] ELSE old[x]]
  <2>1. a = Answer(new, f)
    <3>1. p.seed = [cut |-> old, formal |-> f]
      BY <1>1 DEF Answer
    <3>2. [[cut |-> old, formal |-> f] EXCEPT !.cut = new] = [cut |-> new, formal |-> f]
      OBVIOUS
    <3> QED BY <3>1, <3>2 DEF SeedTexts, Selected, Answer
  <2>2. \A x \in DOMAIN old : old[x] \in Alignment
    BY <1>1, PlacedCues
  <2>3. /\ DOMAIN new = DOMAIN old /\ new = [x \in DOMAIN new |-> new[x]]
        /\ \A x \in DOMAIN old : new[x] \in Alignment
    BY <2>2 DEF Alignment, Texts
  <2> HIDE DEF new, a
  <2>4. Placed(new)
    BY <1>1, <2>3, ChangedPlaced
  <2> QED BY <2>1, <2>4
<1> HIDE DEF a, c, named
<1>3. PICK cut : a = Answer(cut, f) /\ Placed(cut)
  BY <1>2
<1>4. \E new : MoveToSeen(p, a, c) = Answer(new, f) /\ Placed(new)
  <2> DEFINE there == [at |-> p.seen, text |-> cut[c].text]
             new == [cut EXCEPT ![c] = there]
  <2>1. a.cut = cut /\ a = [cut |-> cut, formal |-> f]
    BY <1>3 DEF Answer
  <2>2. [a EXCEPT !.cut[c] = [at |-> p.seen, text |-> a.cut[c].text]] = Answer(new, f)
    <3>1. [[cut |-> cut, formal |-> f] EXCEPT !.cut[c] = there] = [cut |-> new, formal |-> f]
      OBVIOUS
    <3> QED BY <2>1, <3>1 DEF Answer
  <2>3. MoveToSeen(p, a, c) = a \/ MoveToSeen(p, a, c) = Answer(new, f)
    BY <2>2 DEF MoveToSeen
  <2>4. \A x \in DOMAIN cut : cut[x] \in Alignment
    BY <1>3, PlacedCues
  <2>5. /\ DOMAIN new = DOMAIN cut /\ new = [x \in DOMAIN new |-> new[x]]
        /\ \A x \in DOMAIN cut : new[x] \in Alignment
    <3>1. c \in DOMAIN cut => there \in Alignment
      BY <1>1, <2>4 DEF Alignment
    <3>2. \A x \in DOMAIN cut : new[x] = IF x = c THEN there ELSE cut[x]
      OBVIOUS
    <3>3. DOMAIN new = DOMAIN cut /\ new = [x \in DOMAIN new |-> new[x]]
      OBVIOUS
    <3> HIDE DEF new, there
    <3> QED BY <2>4, <3>1, <3>2, <3>3
  <2> HIDE DEF new
  <2>6. Placed(new)
    BY <1>3, <2>5, ChangedPlaced
  <2> QED BY <1>3, <2>3, <2>6
<1>5. PICK mcut : moved = Answer(mcut, f) /\ Placed(mcut)
  BY <1>3, <1>4
<1>6. \A text : SeedText(p, text) \in Texts
  BY DEF SeedText, Texts
<1>7. \E new : Relabelled(moved, c, SeedText(p, a.cut[c].text)) = Answer(new, f) /\ Placed(new)
  BY <1>5, <1>6, RelabelledPlaced
<1> HIDE DEF moved
<1>8. PICK new : Relabelled(moved, c, SeedText(p, a.cut[c].text)) = Answer(new, f) /\ Placed(new)
  BY <1>7
<1>9. a.cut = cut /\ Answer(new, f).cut = new
  BY <1>3 DEF Answer
<1>10. CleanSeed(p, cleaned)
         = IF ~p.needed \/ c = NoCue THEN Answer(a.cut, NoCue)
           ELSE Answer(Relabelled(moved, c, SeedText(p, a.cut[c].text)).cut, c)
  BY DEF CleanSeed, a, c, named, moved
<1>11. CleanSeed(p, cleaned) = Answer(cut, NoCue) \/ CleanSeed(p, cleaned) = Answer(new, c)
  BY <1>8, <1>9, <1>10
<1> HIDE DEF c
<1> QED BY <1>3, <1>8, <1>11

-----------------------------------------------------------------------------
(* What is tried once repairing has failed. *)

(***************************************************************************)
(* A request that spends candidates, asks for fewer comments or accepts a  *)
(* missing introduction has the same rules for cues.                       *)
(***************************************************************************)
Lighter(p, q) ==
    q.edges = p.edges /\ q.home = p.home /\ q.locked = p.locked /\ q.pauses = p.pauses
    /\ q.said = p.said

(***************************************************************************)
(* What passes the rules for cues of a lighter request passes those of the *)
(* request.                                                                *)
(***************************************************************************)
LEMMA LighterPasses ==
    ASSUME NEW p, NEW q, Lighter(p, q), NEW a, Passes(q, a)
    PROVE  Passes(p, a)
<1>1. EngineLocked(q) = EngineLocked(p)
  BY DEF Lighter, EngineLocked
<1>2. /\ Drifting(q, a) = Drifting(p, a) /\ FormErrors(q, a) = FormErrors(p, a)
      /\ Crossing(q, a) = Crossing(p, a) /\ TextErrors(q, a) = TextErrors(p, a)
      /\ ExtraIntroductions(q, a) = ExtraIntroductions(p, a)
  BY <1>1, Zenon DEF Lighter, Drifting, FormErrors, Crossing, TextErrors, ExtraIntroductions
<1>3. BudgetErrors(q, a) = BudgetErrors(p, a)
  BY <1>1, Zenon DEF Lighter, BudgetErrors
<1>4. RepetitionErrors(q, a) = RepetitionErrors(p, a)
  BY <1>1, Zenon DEF Lighter, RepetitionErrors, Audible
<1>5. \A c : Repeated(q, a, c) = Repeated(p, a, c)
  BY <1>1, Zenon DEF Repeated
<1>6. Repetitions(q, a) = {} => Repetitions(p, a) = {}
  BY <1>1, <1>5 DEF Repetitions
<1>7. /\ Duplicated(a) = {} /\ Crossing(q, a) = {} /\ BudgetErrors(q, a) = {}
      /\ TextErrors(q, a) = {} /\ RepetitionErrors(q, a) = {} /\ Repetitions(q, a) = {}
      /\ ExtraIntroductions(q, a) = {}
  <2>1. ContractErrors(q, a).kind = "ok"
    BY DEF Passes
  <2>2. \A k, i : Complaint(k, a, i, {}).kind = k
    BY DEF Complaint
  <2>3. \A k \in {"duplicate", "chronology", "texts", "mixed"} :
          \A i : ContractErrors(q, a) # Complaint(k, a, i, {})
    BY <2>1, <2>2
  <2> QED BY <2>3, ContractClean
<1>8. ContractErrors(p, a).kind = "ok"
  BY <1>2, <1>3, <1>4, <1>6, <1>7, CleanContract
<1> QED BY <1>2, <1>8, Zenon DEF Passes, Lighter

(***************************************************************************)
(* The requests the salvage stages judge by are lighter ones.              *)
(***************************************************************************)
LEMMA LighterRequests ==
    ASSUME NEW p \in RequestType
    PROVE  \A spent, min, gap :
             /\ Lighter(p, [p EXCEPT !.waived = TRUE])
             /\ Lighter(p, [p EXCEPT !.spent = spent, !.min = min])
             /\ Lighter(p, [p EXCEPT !.waived = TRUE, !.spent = spent, !.gap = gap, !.min = min])
BY Zenon DEF RequestType, Lighter

(***************************************************************************)
(* What is delivered keeps the rules for cues and the engine's locks.      *)
(***************************************************************************)
Deliverable(p, e) ==
    e.kind = "ok" => /\ Placed(e.cut) /\ Passes(p, Answer(e.cut, e.formal))
                     /\ KeepsLocks(p, e.cut, p.locked)

(***************************************************************************)
(* Where the engine locks nothing every placement keeps its locks.         *)
(***************************************************************************)
LEMMA NoLocks ==
    ASSUME NEW p, EngineLocked(p) = {}, NEW cut
    PROVE  KeepsLocks(p, cut, p.locked)
BY DEF KeepsLocks, EngineLocked

(***************************************************************************)
(* A stage that refuses delivers nothing, and no error is no partial       *)
(* result.                                                                 *)
(***************************************************************************)
LEMMA RefusedKind == Refused.kind = "none" /\ NoError.kind = "none" /\ ~Partial(NoError)
BY BareKind DEF Refused, NoError, Partial

(***************************************************************************)
(* What is left of an error is judged by a lighter request, and only where *)
(* the engine locks nothing.                                               *)
(***************************************************************************)
LEMMA LighterDeliverable ==
    ASSUME NEW p, NEW q, Lighter(p, q), EngineLocked(p) = {}, NEW cut, Placed(cut), NEW f
    PROVE  Deliverable(p, Judge(q, Answer(cut, f)))
<1> SUFFICES ASSUME Judge(q, Answer(cut, f)).kind = "ok"
             PROVE  Deliverable(p, Judge(q, Answer(cut, f)))
  BY DEF Deliverable
<1>1. LET e == Judge(q, Answer(cut, f)) IN Placed(e.cut) /\ Passes(q, Answer(e.cut, e.formal))
  BY JudgedOk
<1> QED BY <1>1, LighterPasses, NoLocks DEF Deliverable

(***************************************************************************)
(* What is left of an error is a placement.                                *)
(***************************************************************************)
LEMMA RestPlaced ==
    ASSUME NEW e, Placed(e.cut)
    PROVE  Placed(Rest(e))
BY RestrictPlaced DEF Rest, Survivors

(***************************************************************************)
(* What the salvage stages deliver when the engine locks nothing.          *)
(***************************************************************************)
LEMMA Salvages ==
    ASSUME NEW p \in RequestType, EngineLocked(p) = {}, NEW e, Partial(e) => Placed(e.cut)
    PROVE  /\ Deliverable(p, DropOptional(p, e)) /\ Deliverable(p, WaiveIntroduction(p, e))
           /\ Deliverable(p, DropInvalid(p, e))
<1>1. Deliverable(p, Refused)
  BY RefusedKind DEF Deliverable
<1>2. CASE ~Partial(e)
  BY <1>1, <1>2 DEF DropOptional, Optional, WaiveIntroduction, DropInvalid
<1>3. CASE Partial(e)
  <2>1. Placed(Rest(e))
    BY <1>3, RestPlaced
  <2>2. \A q, f : Lighter(p, q) => Deliverable(p, Judge(q, Answer(Rest(e), f)))
    BY <2>1, LighterDeliverable
  <2>3. Deliverable(p, DropOptional(p, e))
    BY <1>1, <2>2, LighterRequests, Zenon DEF DropOptional
  <2>4. Deliverable(p, WaiveIntroduction(p, e))
    BY <1>1, <2>2, LighterRequests, Zenon DEF WaiveIntroduction
  <2>5. Deliverable(p, DropInvalid(p, e))
    BY <1>1, <2>2, LighterRequests, Zenon DEF DropInvalid
  <2> QED BY <2>3, <2>4, <2>5
<1> QED BY <1>2, <1>3

(***************************************************************************)
(* The introduction that is rewritten is no locked comment.                *)
(***************************************************************************)
LEMMA Rewrites ==
    ASSUME NEW p, ~p.waived, NEW e, ErrorShape(p, e), RewriteIntroduction(p, e).kind = "ok"
    PROVE  LET o == RewriteIntroduction(p, e)
               a == Answer(o.cut, o.formal) IN
           Deliverable(p, o) /\ Judge(p, a) = Accepted(a)
<1>1. /\ Partial(e) /\ e.kind \in {"introduction", "form"} /\ p.needed
      /\ e.formal \in e.invalid
      /\ RewriteIntroduction(p, e)
           = Judge(p, Relabelled(Answer(e.cut, e.formal), e.formal, "intro"))
  BY RefusedKind DEF RewriteIntroduction
<1>2. /\ Placed(e.cut) /\ KeepsLocks(p, e.cut, p.locked)
      /\ e.formal \notin EngineLocked(p)
  BY <1>1 DEF ErrorShape
<1>3. PICK cut : /\ Relabelled(Answer(e.cut, e.formal), e.formal, "intro") = Answer(cut, e.formal)
                 /\ Placed(cut) /\ DOMAIN cut = DOMAIN e.cut
                 /\ \A c \in DOMAIN e.cut \ {e.formal} : cut[c] = e.cut[c]
  BY <1>2, RelabelledPlaced DEF Texts
<1>4. KeepsLocks(p, cut, p.locked)
  BY <1>2, <1>3 DEF KeepsLocks, EngineLocked
<1> DEFINE o == Judge(p, Answer(cut, e.formal))
<1>5. RewriteIntroduction(p, e) = o /\ o.kind = "ok"
  BY <1>1, <1>3
<1>6. LET a == Answer(o.cut, o.formal) IN
      /\ Placed(o.cut) /\ KeepsLocks(p, o.cut, cut)
      /\ Passes(p, a) /\ Judge(p, a) = Accepted(a)
  BY <1>3, <1>5, JudgedOk
<1>7. KeepsLocks(p, o.cut, p.locked)
  BY <1>4, <1>6, KeepsTransitive
<1> HIDE DEF o
<1> QED BY <1>5, <1>6, <1>7 DEF Deliverable

-----------------------------------------------------------------------------
(* The invariant is inductive. *)

(***************************************************************************)
(* What is asked first, and what is asked after an error.                  *)
(***************************************************************************)
LEMMA CandidateParts ==
    ASSUME NEW l, NEW f, NEW x, NEW s, NEW t
    PROVE  LET c == Candidate(l, f, x, s, t) IN
           /\ c = [locked |-> l, formal |-> f, asked |-> x, still |-> s, told |-> t]
           /\ c.locked = l /\ c.still = s
           /\ c = Candidate(c.locked, c.formal, c.asked, c.still, c.told)
BY DEF Candidate

(***************************************************************************)
(* The request is asked first with the engine's own locks.                 *)
(***************************************************************************)
LEMMA FirstShape ==
    ASSUME NEW p \in Requests
    PROVE  CandidateShape(p, First(p))
<1>1. First(p).locked = p.locked /\ First(p).still = Unplaced
      /\ First(p) = Candidate(First(p).locked, First(p).formal, First(p).asked,
                              First(p).still, First(p).told)
  BY CandidateParts DEF First
<1>2. KeepsLocks(p, p.locked, p.locked)
  BY KeepsReflexive
<1> QED BY <1>1, <1>2, Requested, EmptyPlaced DEF CandidateShape

(***************************************************************************)
(* No error has nothing to keep.                                           *)
(***************************************************************************)
LEMMA NoErrorShape == ASSUME NEW p PROVE ErrorShape(p, NoError)
BY RefusedKind DEF ErrorShape

(***************************************************************************)
(* At the beginning no error is kept for the end.                          *)
(***************************************************************************)
LEMMA NoErrorRemembered ==
    /\ NoMemory.last = NoError /\ NoMemory.best = NoError
    /\ NoMemory.unintroduced = NoError /\ NoMemory.thin = NoError
BY DEF NoMemory

(***************************************************************************)
(* A repair keeps what passed: the comments of the error at hand, save     *)
(* those it complains about, and the engine's comments in any case.        *)
(***************************************************************************)
LEMMA RepairShape ==
    ASSUME RepairInv
    PROVE  /\ CandidateShape(request, RepairCandidate)
           /\ \A c \in DOMAIN candidate.locked \ Complained(error) :
                 /\ c \in DOMAIN RepairCandidate.locked
                 /\ Kept(c, candidate.locked[c], RepairCandidate.locked[c])
<1>1. CASE Partial(error)
  <2> DEFINE keep == {c \in DOMAIN error.cut :
                        c \notin Complained(error) \/ c \in EngineLocked(request)}
             passed == Restrict(error.cut, keep)
             movable == (Complained(error) \cap DOMAIN error.cut) \ EngineLocked(request)
             still == IF Movable(error) THEN Restrict(error.cut, movable) ELSE Unplaced
             formal == IF error.formal \in DOMAIN passed THEN error.formal ELSE NoCue
  <2>1. RepairCandidate = Candidate(passed, formal, Complained(error), still, TRUE)
    BY <1>1 DEF RepairCandidate
  <2>2. /\ Placed(error.cut) /\ KeepsLocks(request, error.cut, request.locked)
        /\ KeepsLocks(request, error.cut, candidate.locked)
    BY <1>1 DEF RepairInv, ErrorShape
  <2>3. /\ Placed(passed) /\ DOMAIN passed = keep
        /\ \A c \in keep : passed[c] = error.cut[c]
    <3>1. keep \subseteq DOMAIN error.cut
      OBVIOUS
    <3> HIDE DEF keep
    <3> QED BY <2>2, <3>1, RestrictPlaced
  <2>4. Placed(still)
    <3>1. movable \subseteq DOMAIN error.cut
      OBVIOUS
    <3> HIDE DEF movable
    <3>2. Placed(Restrict(error.cut, movable))
      BY <2>2, <3>1, RestrictPlaced
    <3> QED BY <3>2, EmptyPlaced
  <2> HIDE DEF passed, still, formal
  <2>5. KeepsLocks(request, passed, request.locked)
    BY <2>2, <2>3 DEF KeepsLocks, EngineLocked
  <2>6. /\ RepairCandidate.locked = passed /\ RepairCandidate.still = still
        /\ RepairCandidate = Candidate(RepairCandidate.locked, RepairCandidate.formal,
                                       RepairCandidate.asked, RepairCandidate.still,
                                       RepairCandidate.told)
    BY <2>1 DEF Candidate
  <2>7. CandidateShape(request, RepairCandidate)
    BY <2>3, <2>4, <2>5, <2>6 DEF CandidateShape
  <2>8. ASSUME NEW c \in DOMAIN candidate.locked \ Complained(error)
        PROVE  c \in DOMAIN passed /\ Kept(c, candidate.locked[c], passed[c])
    BY <2>2, <2>3, <2>8 DEF KeepsLocks, Kept
  <2> QED BY <2>6, <2>7, <2>8
<1>2. CASE ~Partial(error)
  <2>1. RepairCandidate = [candidate EXCEPT !.still = Unplaced, !.told = TRUE]
    BY <1>2 DEF RepairCandidate
  <2>2. /\ candidate = Candidate(candidate.locked, candidate.formal, candidate.asked,
                                 candidate.still, candidate.told)
        /\ Placed(candidate.locked) /\ KeepsLocks(request, candidate.locked, request.locked)
    BY DEF RepairInv, CandidateShape
  <2>3. candidate = [locked |-> candidate.locked, formal |-> candidate.formal,
                     asked |-> candidate.asked, still |-> candidate.still,
                     told |-> candidate.told]
    BY <2>2, Zenon DEF Candidate
  <2>4. RepairCandidate = Candidate(candidate.locked, candidate.formal, candidate.asked,
                                    Unplaced, TRUE)
    BY <2>1, <2>3 DEF Candidate
  <2>5. /\ RepairCandidate.locked = candidate.locked /\ RepairCandidate.still = Unplaced
        /\ RepairCandidate = Candidate(RepairCandidate.locked, RepairCandidate.formal,
                                       RepairCandidate.asked, RepairCandidate.still,
                                       RepairCandidate.told)
    BY <2>4 DEF Candidate
  <2>6. CandidateShape(request, RepairCandidate)
    BY <2>2, <2>5, EmptyPlaced DEF CandidateShape
  <2> QED BY <2>5, <2>6 DEF Kept
<1> QED BY <1>1, <1>2

(***************************************************************************)
(* What a call may bring: with the engine's comments and what is locked,   *)
(* accepted or with something to complain about.                           *)
(***************************************************************************)
LEMMA ResultShape ==
    ASSUME RepairInv, NEW e \in Results
    PROVE  /\ ErrorShape(request, e)
           /\ Partial(e) => KeepsLocks(request, e.cut, candidate.locked)
           /\ e.kind = "ok" =>
                /\ Deliverable(request, e)
                /\ Judge(request, Answer(e.cut, e.formal)) = Accepted(Answer(e.cut, e.formal))
<1>1. /\ request \in Requests /\ ~request.waived
      /\ Placed(candidate.locked) /\ Placed(candidate.still)
      /\ KeepsLocks(request, candidate.locked, request.locked)
  BY Requested DEF RepairInv, CandidateShape
<1>2. ASSUME NEW cut, NEW f, Placed(cut), KeepsLocks(request, cut, candidate.locked),
             e = Judge(request, Answer(cut, f))
      PROVE  /\ ErrorShape(request, e)
             /\ Partial(e) => KeepsLocks(request, e.cut, candidate.locked)
             /\ e.kind = "ok" =>
                  /\ Deliverable(request, e)
                  /\ Judge(request, Answer(e.cut, e.formal))
                       = Accepted(Answer(e.cut, e.formal))
  <2>1. Partial(e) =>
          /\ Placed(e.cut) /\ KeepsLocks(request, e.cut, cut)
          /\ Thin(e) => Passes(request, Answer(e.cut, e.formal))
          /\ e.kind \in {"introduction", "form"} /\ request.needed =>
               e.invalid \cap EngineLocked(request) = {}
    BY <1>2, JudgedShape
  <2>2. e.kind = "ok" =>
          /\ Placed(e.cut) /\ KeepsLocks(request, e.cut, cut)
          /\ Passes(request, Answer(e.cut, e.formal))
          /\ Judge(request, Answer(e.cut, e.formal)) = Accepted(Answer(e.cut, e.formal))
    BY <1>1, <1>2, JudgedOk
  <2>3. KeepsLocks(request, e.cut, cut) =>
          /\ KeepsLocks(request, e.cut, candidate.locked)
          /\ KeepsLocks(request, e.cut, request.locked)
    BY <1>1, <1>2, KeepsTransitive
  <2> QED BY <2>1, <2>2, <2>3 DEF ErrorShape, Deliverable
<1>3. CASE UsesSeed
  <2>1. PICK cleaned \in SUBSET Cues : e = Judge(request, CleanSeed(request, cleaned))
    BY <1>3 DEF Results
  <2>2. PICK cut, f : CleanSeed(request, cleaned) = Answer(cut, f) /\ Placed(cut)
    BY <1>1, CleanedShape
  <2>3. DOMAIN candidate.locked = {}
    BY <1>3, EmptyPlaced DEF UsesSeed
  <2>4. KeepsLocks(request, cut, candidate.locked)
    BY <2>3 DEF KeepsLocks
  <2> QED BY <1>2, <2>1, <2>2, <2>4
<1>4. CASE ~UsesSeed /\ \E a \in Replies : e = Judge(request, Merge(candidate, a))
  <2>1. PICK a \in Replies : e = Judge(request, Merge(candidate, a))
    BY <1>4
  <2>2. PICK given, f : a = Answer(given, f) /\ Placed(given)
    BY <1>1, <2>1, AnsweredShape
  <2>3. PICK cut, g :
          /\ Merge(candidate, Answer(given, f)) = Answer(cut, g) /\ Placed(cut)
          /\ \A x \in DOMAIN candidate.locked : x \in DOMAIN cut /\ cut[x] = candidate.locked[x]
    BY <1>1, <2>2, Merged
  <2>4. KeepsLocks(request, cut, candidate.locked)
    BY <2>3, KeepsReflexive
  <2> QED BY <1>2, <2>1, <2>2, <2>3, <2>4
<1>5. CASE e = Bare("provider")
  BY <1>5, BareKind DEF ErrorShape, Partial
<1>6. UsesSeed \/ (~UsesSeed /\ \E a \in Replies : e = Judge(request, Merge(candidate, a)))
      \/ e = Bare("provider")
  BY DEF Results
<1> QED BY <1>3, <1>4, <1>5, <1>6

(***************************************************************************)
(* After an end there is nothing left but the result.                      *)
(***************************************************************************)
LEMMA DeliverInv ==
    ASSUME request \in Requests, request' = request, NEW how, NEW e, Deliver(how, e),
           how # "failed" =>
              /\ Placed(e.cut) /\ Passes(request, Answer(e.cut, e.formal))
              /\ KeepsLocks(request, e.cut, request.locked)
              /\ request.asked # {} \/ how \in {"answered", "rewritten"} =>
                   Judge(request, Answer(e.cut, e.formal)) = Accepted(Answer(e.cut, e.formal))
    PROVE  RepairInv'
<1>1. /\ candidate' = First(request) /\ onward' = First(request)
      /\ error' = NoError /\ memory' = NoMemory
      /\ outcome'.how = how /\ outcome'.cut = e.cut /\ outcome'.formal = e.formal
  BY DEF Deliver, Outcome
<1>2. CandidateShape(request, candidate)' /\ CandidateShape(request, onward)'
  <2>1. CandidateShape(request', candidate') /\ CandidateShape(request', onward')
    BY <1>1, FirstShape
  <2> QED BY <2>1 DEF CandidateShape
<1>3. ErrorShape(request, error)' /\ ~Partial(error)'
  BY <1>1, NoErrorShape, RefusedKind DEF ErrorShape, Partial
<1>4. MemoryShape'
  BY <1>1, NoErrorShape, NoErrorRemembered DEF MemoryShape
<1>5. OutcomeShape'
  <2>1. Delivered' => how # "failed"
    BY <1>1 DEF Delivered
  <2>2. Result' = Answer(e.cut, e.formal)
    BY <1>1 DEF Result
  <2> QED BY <1>1, <2>1, <2>2 DEF OutcomeShape
<1> QED BY <1>2, <1>3, <1>4, <1>5 DEF RepairInv

(***************************************************************************)
(* The invariant holds when a request arrives.                             *)
(***************************************************************************)
LEMMA RepairStart == RepairInit => RepairInv
<1> SUFFICES ASSUME RepairInit PROVE RepairInv
  OBVIOUS
<1>1. /\ request \in Requests /\ candidate = First(request) /\ onward = First(request)
      /\ error = NoError /\ memory = NoMemory /\ outcome.how = "none"
  BY DEF RepairInit, Outcome
<1>2. CandidateShape(request, candidate) /\ CandidateShape(request, onward)
  BY <1>1, FirstShape
<1>3. MemoryShape /\ ErrorShape(request, error) /\ ~Partial(error)
  BY <1>1, NoErrorShape, NoErrorRemembered, RefusedKind DEF MemoryShape
<1>4. OutcomeShape
  BY <1>1 DEF OutcomeShape, Delivered
<1> QED BY <1>1, <1>2, <1>3, <1>4 DEF RepairInv

(***************************************************************************)
(* While nothing is delivered, the outcome's part says nothing.            *)
(***************************************************************************)
LEMMA StillOpen ==
    ASSUME Open, outcome' = outcome
    PROVE  OutcomeShape'
BY DEF Open, OutcomeShape, Delivered

(***************************************************************************)
(* A call keeps the invariant: an answer is delivered, or its error is at  *)
(* hand and remembered.                                                    *)
(***************************************************************************)
LEMMA AttemptInv == ASSUME RepairInv, Attempt PROVE RepairInv'
<1>1. PICK e \in Results :
        \/ e.kind = "ok" /\ Deliver("answered", e)
        \/ /\ e.kind # "ok" /\ error' = e /\ Remember(e)
           /\ UNCHANGED <<candidate, onward, outcome>>
  BY DEF Attempt
<1>2. Open /\ request' = request /\ request \in Requests
  BY DEF Attempt, RepairInv
<1>3. CASE e.kind = "ok" /\ Deliver("answered", e)
  <2>1. /\ Deliverable(request, e)
        /\ Judge(request, Answer(e.cut, e.formal)) = Accepted(Answer(e.cut, e.formal))
    BY <1>3, ResultShape
  <2> QED BY <1>2, <1>3, <2>1, DeliverInv DEF Deliverable
<1>4. CASE /\ e.kind # "ok" /\ error' = e /\ Remember(e)
           /\ UNCHANGED <<candidate, onward, outcome>>
  <2>1. ErrorShape(request, e) /\ (Partial(e) => KeepsLocks(request, e.cut, candidate.locked))
    BY ResultShape
  <2>2. CandidateShape(request, candidate)' /\ CandidateShape(request, onward)'
    BY <1>2, <1>4 DEF RepairInv, CandidateShape
  <2>3. /\ ErrorShape(request, error)'
        /\ (Partial(error) => KeepsLocks(request, error.cut, candidate.locked))'
    BY <1>2, <1>4, <2>1
  <2>4. OutcomeShape'
    BY <1>2, <1>4, StillOpen
  <2>5. MemoryShape'
    <3>1. CASE ~Partial(e)
      BY <1>2, <1>4, <3>1 DEF Remember, RepairInv, MemoryShape
    <3>2. CASE Partial(e)
      <4>1. /\ memory'.last = e /\ memory'.best \in {e, memory.best}
            /\ memory'.unintroduced \in {e, memory.unintroduced}
            /\ \/ memory'.thin = memory.thin
               \/ memory'.thin = e /\ e.required # {} /\ e.invalid = {}
        BY <1>4, <3>2 DEF Remember
      <4>2. memory'.thin = e /\ e.required # {} /\ e.invalid = {} => Thin(memory'.thin)
        BY <3>2 DEF Thin
      <4> QED BY <1>2, <2>1, <4>1, <4>2 DEF RepairInv, MemoryShape
    <3> QED BY <3>1, <3>2
  <2> QED BY <1>2, <2>2, <2>3, <2>4, <2>5 DEF RepairInv
<1> QED BY <1>1, <1>3, <1>4

(***************************************************************************)
(* A further attempt with the same provider keeps it.                      *)
(***************************************************************************)
LEMMA RetryInv == ASSUME RepairInv, Retry PROVE RepairInv'
<1>1. /\ candidate' = RepairCandidate /\ error' = NoError /\ Open
      /\ UNCHANGED <<request, onward, memory, outcome>>
  BY DEF Retry
<1>2. CandidateShape(request, candidate)'
  <2>1. CandidateShape(request', candidate')
    BY <1>1, RepairShape
  <2> QED BY <2>1 DEF CandidateShape
<1>3. ErrorShape(request, error)' /\ ~Partial(error)'
  BY <1>1, NoErrorShape, RefusedKind
<1>4. OutcomeShape'
  BY <1>1, StillOpen
<1>5. MemoryShape' /\ CandidateShape(request, onward)'
  BY <1>1 DEF RepairInv, MemoryShape
<1> QED BY <1>1, <1>2, <1>3, <1>4, <1>5 DEF RepairInv

(***************************************************************************)
(* The next provider is asked for what the repair keeps, or for what the   *)
(* one before was asked.                                                   *)
(***************************************************************************)
LEMMA NextProviderInv == ASSUME RepairInv, NextProvider PROVE RepairInv'
<1>1. /\ onward' = RepairCandidate \/ onward' = onward
      /\ candidate' = onward' /\ error' = NoError /\ Open
      /\ UNCHANGED <<request, memory, outcome>>
  BY DEF NextProvider
<1>2. CandidateShape(request, onward)' /\ CandidateShape(request, candidate)'
  <2>1. CandidateShape(request, RepairCandidate) /\ CandidateShape(request, onward)
    BY RepairShape DEF RepairInv
  <2>2. CandidateShape(request', onward') /\ CandidateShape(request', candidate')
    BY <1>1, <2>1
  <2> QED BY <2>2 DEF CandidateShape
<1>3. ErrorShape(request, error)' /\ ~Partial(error)'
  BY <1>1, NoErrorShape, RefusedKind
<1>4. OutcomeShape'
  BY <1>1, StillOpen
<1>5. MemoryShape'
  BY <1>1 DEF RepairInv, MemoryShape
<1> QED BY <1>1, <1>2, <1>3, <1>4, <1>5 DEF RepairInv

(***************************************************************************)
(* An error settled without the provider is settled by an answer that may  *)
(* be delivered.                                                           *)
(***************************************************************************)
LEMMA SettleInv == ASSUME RepairInv, Settle PROVE RepairInv'
<1>1. /\ request' = request /\ request \in Requests /\ ~request.waived
      /\ request \in RequestType /\ ErrorShape(request, error)
      /\ request.asked = {} => EngineLocked(request) = {}
  BY Requested DEF Settle, RepairInv
<1>2. CASE Rewritten.kind = "ok" /\ Deliver("rewritten", Rewritten)
  <2>1. Rewritten = RewriteIntroduction(request, error)
    BY <1>2, RefusedKind DEF Rewritten
  <2>2. LET a == Answer(Rewritten.cut, Rewritten.formal) IN
        Deliverable(request, Rewritten) /\ Judge(request, a) = Accepted(a)
    BY <1>1, <1>2, <2>1, Rewrites
  <2> QED BY <1>1, <1>2, <2>2, DeliverInv DEF Deliverable
<1>3. CASE Dropped.kind = "ok" /\ Deliver("dropped", Dropped)
  <2>1. Dropped = DropOptional(request, error)
    BY <1>3, RefusedKind DEF Dropped
  <2>2. request.asked = {}
    BY <1>3, <2>1, RefusedKind DEF DropOptional, Optional
  <2>3. Deliverable(request, Dropped)
    BY <1>1, <2>1, <2>2, Salvages DEF ErrorShape
  <2> QED BY <1>1, <1>3, <2>2, <2>3, DeliverInv DEF Deliverable
<1> QED BY <1>2, <1>3 DEF Settle

(***************************************************************************)
(* The first of the salvages that succeeds is one of them.                 *)
(***************************************************************************)
LEMMA FirstOkOne ==
    ASSUME NEW a, NEW b, NEW c, NEW d, NEW x, NEW y, FirstOk(<<a, b, c, d, x, y>>).kind = "ok"
    PROVE  FirstOk(<<a, b, c, d, x, y>>) \in {a, b, c, d, x, y}
<1> DEFINE es == <<a, b, c, d, x, y>>
           oks == {i \in DOMAIN es : es[i].kind = "ok"}
           first(i) == i \in DOMAIN es /\ es[i].kind = "ok"
                       /\ \A j \in 1..(i - 1) : es[j].kind # "ok"
<1>1. DOMAIN es = 1..6 /\ \A i \in 1..6 : es[i] \in {a, b, c, d, x, y}
  OBVIOUS
<1> HIDE DEF es
<1>2. \E i \in DOMAIN es : es[i].kind = "ok"
  BY RefusedKind, Zenon DEF FirstOk, es
<1>3. oks \subseteq Nat /\ oks # {}
  BY <1>1, <1>2
<1>4. PICK i \in oks : \A j \in oks : i <= j
  BY <1>3, HasLeast
<1>5. first(i)
  BY <1>1, <1>4
<1> DEFINE m == CHOOSE j \in DOMAIN es :
                  es[j].kind = "ok" /\ \A k \in 1..(j - 1) : es[k].kind # "ok"
<1>6. m \in DOMAIN es
  BY <1>5, Zenon
<1>7. FirstOk(es) = es[m]
  BY <1>2, Zenon DEF FirstOk
<1> HIDE DEF m
<1>8. FirstOk(es) \in {a, b, c, d, x, y}
  BY <1>1, <1>6, <1>7
<1> QED BY <1>8 DEF es

(***************************************************************************)
(* The end of the chain delivers a salvage, an error that is only thin, or *)
(* nothing.                                                                *)
(***************************************************************************)
LEMMA GiveUpInv == ASSUME RepairInv, GiveUp PROVE RepairInv'
<1>1. /\ request' = request /\ request \in Requests /\ request \in RequestType
      /\ request.asked = {} => EngineLocked(request) = {}
      /\ ErrorShape(request, error) /\ MemoryShape
  BY Requested DEF GiveUp, RepairInv
<1>2. CASE Deliver("failed", NoError)
  BY <1>1, <1>2, DeliverInv
<1>3. CASE request.asked = {} /\ Salvaged.kind = "ok" /\ Deliver("salvaged", Salvaged)
  <2> DEFINE e == SalvageError
             u == memory.unintroduced
  <2>1. EngineLocked(request) = {}
    BY <1>1, <1>3
  <2>2. ErrorShape(request, e) /\ ErrorShape(request, u) /\ ErrorShape(request, memory.best)
    BY <1>1 DEF MemoryShape, SalvageError
  <2>3. Salvaged \in {DropOptional(request, e), WaiveIntroduction(request, e),
                      WaiveIntroduction(request, u), DropInvalid(request, e),
                      DropInvalid(request, memory.best), DropInvalid(request, u)}
    <3>1. Salvaged = FirstOk(<<DropOptional(request, e),
                       WaiveIntroduction(request, e), WaiveIntroduction(request, u),
                       DropInvalid(request, e), DropInvalid(request, memory.best),
                       DropInvalid(request, u)>>)
      BY <1>3, RefusedKind DEF Salvaged
    <3> QED BY <1>3, <3>1, FirstOkOne
  <2>4. \A x : ErrorShape(request, x) =>
          /\ Deliverable(request, DropOptional(request, x))
          /\ Deliverable(request, WaiveIntroduction(request, x))
          /\ Deliverable(request, DropInvalid(request, x))
    BY <1>1, <2>1, Salvages DEF ErrorShape
  <2>5. Deliverable(request, Salvaged)
    BY <2>2, <2>3, <2>4
  <2> QED BY <1>1, <1>3, <2>5, DeliverInv DEF Deliverable
<1>4. CASE request.asked = {} /\ memory.thin # NoError /\ Deliver("thin", memory.thin)
  <2>1. Thin(memory.thin) /\ ErrorShape(request, memory.thin)
    BY <1>1, <1>4 DEF MemoryShape
  <2>2. /\ Placed(memory.thin.cut)
        /\ Passes(request, Answer(memory.thin.cut, memory.thin.formal))
        /\ KeepsLocks(request, memory.thin.cut, request.locked)
    BY <2>1 DEF Thin, ErrorShape
  <2> QED BY <1>1, <1>4, <2>2, DeliverInv
<1> QED BY <1>2, <1>3, <1>4 DEF GiveUp

(***************************************************************************)
(* Every step keeps the invariant.                                         *)
(***************************************************************************)
LEMMA RepairStep == RepairInv /\ [RepairNext]_repairvars => RepairInv'
<1> SUFFICES ASSUME RepairInv, [RepairNext]_repairvars PROVE RepairInv'
  OBVIOUS
<1>1. CASE UNCHANGED repairvars
  BY <1>1 DEF repairvars, RepairInv, MemoryShape, OutcomeShape, Delivered, Result
<1>2. CASE Attempt
  BY <1>2, AttemptInv
<1>3. CASE Settle
  BY <1>3, SettleInv
<1>4. CASE Retry
  BY <1>4, RetryInv
<1>5. CASE NextProvider
  BY <1>5, NextProviderInv
<1>6. CASE GiveUp
  BY <1>6, GiveUpInv
<1>7. CASE Finished
  BY <1>1, <1>7 DEF Finished
<1> QED BY <1>1, <1>2, <1>3, <1>4, <1>5, <1>6, <1>7 DEF RepairNext

(***************************************************************************)
(* The invariant holds throughout every request.                           *)
(***************************************************************************)
THEOREM AgentRepairInvariant == RepairSpec => []RepairInv
BY RepairStart, RepairStep, PTL DEF RepairSpec

-----------------------------------------------------------------------------
(* The results. *)

(***************************************************************************)
(* An answer that passes the rules for cues has none of their errors.      *)
(***************************************************************************)
LEMMA PassesClean ==
    ASSUME NEW p, NEW a, Passes(p, a)
    PROVE  /\ Duplicated(a) = {} /\ Crossing(p, a) = {} /\ BudgetErrors(p, a) = {}
           /\ TextErrors(p, a) = {} /\ RepetitionErrors(p, a) = {}
           /\ Repetitions(p, a) = {} /\ ExtraIntroductions(p, a) = {}
<1>1. ContractErrors(p, a).kind = "ok"
  BY DEF Passes
<1>2. \A k, i : Complaint(k, a, i, {}).kind = k
  BY DEF Complaint
<1>3. \A k \in {"duplicate", "chronology", "texts", "mixed"} :
        \A i : ContractErrors(p, a) # Complaint(k, a, i, {})
  BY <1>1, <1>2
<1> QED BY <1>3, ContractClean

(***************************************************************************)
(* What is delivered under the invariant keeps the contract.               *)
(***************************************************************************)
LEMMA SoundResult ==
    ASSUME RepairInv
    PROVE  DeliveredIsSound
<1> SUFFICES ASSUME Delivered PROVE DeliveredIsSound
  BY DEF DeliveredIsSound
<1> DEFINE p == request
           a == Result
           cut == outcome.cut
<1>1. /\ Placed(cut) /\ Passes(p, a) /\ KeepsLocks(p, cut, p.locked)
      /\ a.cut = cut /\ Selected(a) = DOMAIN cut
  BY DEF RepairInv, OutcomeShape, Result, Answer, Selected
<1>2. /\ Duplicated(a) = {} /\ Crossing(p, a) = {} /\ BudgetErrors(p, a) = {}
      /\ TextErrors(p, a) = {} /\ RepetitionErrors(p, a) = {}
      /\ Repetitions(p, a) = {}
  BY <1>1, PassesClean
<1>3. /\ DOMAIN cut \subseteq Cues /\ \A c \in DOMAIN cut : cut[c] \in Alignment
  BY <1>1, PlacedCues
<1>4. /\ p.edges \subseteq Selected(a) /\ Drifting(p, a) = {} /\ FormErrors(p, a) = {}
      /\ \A c \in Selected(a) : a.cut[c].at \in Segs
  BY <1>1 DEF Passes
<1> HIDE DEF a, cut, p
<1>5. \A c \in p.edges : cut[c].at = Nearest(p.home[c])
  BY <1>1, <1>4 DEF Drifting
<1>6. ASSUME NEW c \in Selected(a), NEW d \in Selected(a), c < d
      PROVE  /\ cut[c].at # cut[d].at
             /\ \/ cut[c].at < cut[d].at
                \/ "intro" \in {cut[c].text, cut[d].text}
                \/ {c, d} \subseteq EngineLocked(p)
  <2>1. c \in Nat /\ d \in Nat /\ cut[c].at \in Nat /\ cut[d].at \in Nat
    BY <1>1, <1>3, <1>4, PackageAssumption
  <2>2. cut[c].at # cut[d].at
    BY <1>1, <1>2, <1>6, <2>1 DEF Duplicated
  <2>3. ASSUME ~(cut[c].at < cut[d].at), "intro" \notin {cut[c].text, cut[d].text},
               ~({c, d} \subseteq EngineLocked(p))
        PROVE  FALSE
    <3>1. cut[c].at > cut[d].at
      BY <2>1, <2>2, <2>3
    <3>2. c \in Crossing(p, a)
      BY <1>1, <1>6, <2>3, <3>1 DEF Crossing
    <3> QED BY <3>2, <1>2
  <2> QED BY <2>2, <2>3
<1>7. \A c \in EngineLocked(p) : c \in Selected(a) /\ Kept(c, p.locked[c], cut[c])
  BY <1>1 DEF KeepsLocks, EngineLocked, Kept, p
<1>8. ASSUME NEW c \in Selected(a) \ EngineLocked(p)
      PROVE  \/ cut[c].text \in {"scene", "intro", "echo"}
             \/ cut[c].text = "terse" /\ c \in p.pauses
             \/ cut[c].text = "told" /\ ~Audible(p, cut[c].at)
  <2>1. cut[c].text \in Texts
    BY <1>1, <1>3, <1>8 DEF Alignment
  <2>2. cut[c].text # "bare"
    BY <1>1, <1>4, <1>8 DEF FormErrors
  <2>3. cut[c].text # "bad" /\ cut[c].text # "dated"
    BY <1>1, <1>2, <1>8 DEF TextErrors
  <2>4. cut[c].text # "long" /\ (cut[c].text = "terse" => c \in p.pauses)
    BY <1>1, <1>2, <1>8 DEF BudgetErrors
  <2>5. cut[c].text = "told" => ~Audible(p, cut[c].at)
    BY <1>1, <1>2, <1>8 DEF RepetitionErrors
  <2> QED BY <2>1, <2>2, <2>3, <2>4, <2>5 DEF Texts
<1>9. ASSUME NEW c \in Selected(a), Repeated(p, a, c) # {}
      PROVE  FALSE
  <2> DEFINE r == Repeated(p, a, c)
             d == FirstInTime(a, r)
  <2>1. r \subseteq Selected(a)
    BY DEF Repeated
  <2>2. d \in r
    BY <1>1, <1>9, <2>1, FirstCue
  <2>3. ~({c, d} \subseteq EngineLocked(p))
    BY <2>2 DEF Repeated
  <2>4. {c, d} \ EngineLocked(p) \subseteq Repetitions(p, a)
    BY <1>9 DEF Repetitions
  <2> HIDE DEF r, d
  <2> QED BY <2>3, <2>4, <1>2
<1> QED BY <1>1, <1>4, <1>5, <1>6, <1>7, <1>8, <1>9, Zenon DEF DeliveredIsSound, p, a, cut

(***************************************************************************)
(* Whatever was tried before it, a scene alignment that is delivered keeps *)
(* every rule for its comments and the engine's locked ones (the returns   *)
(* of execute_with_fallbacks).                                             *)
(***************************************************************************)
THEOREM DeliveredAlignmentIsSound == RepairSpec => []DeliveredIsSound
BY AgentRepairInvariant, SoundResult, PTL

(***************************************************************************)
(* A repair that the engine asked for, and an answer nothing was dropped   *)
(* from, keep the whole contract: given back to the validator they pass as *)
(* they are (validate_researched_scene_alignment).                         *)
(***************************************************************************)
THEOREM RepairsAreDoneInFull == RepairSpec => []RepairNeverWaived
<1>1. RepairInv => RepairNeverWaived
  BY DEF RepairInv, OutcomeShape, RepairNeverWaived
<1> QED BY <1>1, AgentRepairInvariant, PTL

(***************************************************************************)
(* From one attempt to the next a comment that passed stays as it is       *)
(* unless the last error complains about it (the repair payload of         *)
(* execute_with_fallbacks).                                                *)
(***************************************************************************)
THEOREM PassedCommentsStay == RepairSpec => PassedStay
<1>1. ASSUME RepairInv, Retry \/ (NextProvider /\ Partial(error))
      PROVE  \A c \in DOMAIN candidate.locked \ Complained(error) :
                /\ c \in DOMAIN candidate'.locked
                /\ Kept(c, candidate.locked[c], candidate'.locked[c])
  <2>1. candidate' = RepairCandidate
    <3>1. CASE Retry
      BY <3>1 DEF Retry
    <3>2. CASE NextProvider /\ Partial(error)
      BY <3>2 DEF NextProvider, InvalidOutput, Partial
    <3> QED BY <1>1, <3>1, <3>2
  <2> QED BY <1>1, <2>1, RepairShape
<1>2. RepairInv /\ [RepairNext]_repairvars =>
        [Retry \/ (NextProvider /\ Partial(error)) =>
           \A c \in DOMAIN candidate.locked \ Complained(error) :
              /\ c \in DOMAIN candidate'.locked
              /\ Kept(c, candidate.locked[c], candidate'.locked[c])]_repairvars
  BY <1>1
<1> QED BY <1>2, AgentRepairInvariant, PTL DEF RepairSpec, PassedStay
================================================================================
