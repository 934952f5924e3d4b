--------------------------------- MODULE HsRuns ---------------------------------
(***************************************************************************)
(* One project of vocarium-api/hoerspiele/engine.py: the requests that     *)
(* start a run or change the script, the threads that carry the runs out,  *)
(* the narration script, the audio rendered from it, and restarts.         *)
(*                                                                         *)
(* Handlers run on the threads of a pool and every run on one of its own.  *)
(* What a thread does under LOCK is one step and ends with save_state, so  *)
(* a restart finds the state of the last step.                             *)
(***************************************************************************)
EXTENDS Integers, FiniteSets

CONSTANTS
    Runs,         \* the requests that start a run, each a run if it is let through
    Kinds,        \* which runs they may ask for
    Editors,      \* the requests that change the script or its mapping
    None,
    MaxRestarts   \* bound on the restarts

AllKinds == {"pipeline", "realign", "reconcile", "rewrite", "repair", "render"}

ASSUME RunsAssumption ==
    /\ Kinds \subseteq AllKinds
    /\ None \notin Runs /\ "book" \notin Runs /\ MaxRestarts \in Nat
    /\ Editors \cap {"bound", "rebound"} = {}

VARIABLES
    project,   \* STATE["projects"][id], as far as a run or an edit can lose it
    run,       \* STATE["runs"] and the thread behind each run
    kept,      \* rewrite_narration's copy of the project
    delivery,  \* audiobook.m4a: what is heard in it
    edit,      \* the requests that change the script or its voice
    rushed,    \* a request came in between: an aid of the properties
    restarts

vars == <<project, run, kept, delivery, edit, rushed, restarts>>

(***************************************************************************)
(* A script is known by the run that wrote it and the edits it holds, the  *)
(* voice and language of the binding by who set them last, an artifact by  *)
(* the script and the voice heard in it and the revision of its timeline.  *)
(* "book" and "bound" are what a project brings along from before.         *)
(***************************************************************************)
Script == [by : Runs \cup {"book"}, edits : SUBSET Editors]
Book == [by |-> "book", edits |-> {}]
BoundVoice == {"bound", "rebound"} \cup Editors
Heard == [script : Script \cup {None}, voice : BoundVoice]
Revision == Nat
Artifact == [heard : Heard \cup {None}, rev : Revision]

Phase == {"mapping_review", "series_ready", "aligning", "script_review", "completed"}

Project ==
    [status : Phase \cup {"deleted"},
     script : Script \cup {None}, timeline : Revision \cup {None},
     voice : BoundVoice, artifact : Artifact \cup {None}, revision : Revision,
     stale : BOOLEAN, report : Revision \cup {None}]

Kept == [status : Phase, script : Script \cup {None}, timeline : Revision \cup {None},
         artifact : Artifact \cup {None}]

\* What is not there yet is none of the values that come.
ASSUME NoneAssumption ==
    /\ None \notin Revision /\ None \notin Script /\ None \notin Heard
    /\ None \notin Artifact /\ None \notin Kept

Rendering == {"rendering", "encoding", "numbering", "publishing"}
Working == {"queued", "mapping", "transcribing", "reconciling", "reconciled", "detecting",
            "writing", "failing", "succeeding"} \cup Rendering

Types ==
    /\ project \in Project
    /\ run \in [Runs -> [kind : AllKinds, pc : Working \cup {"new", "looked", "over"},
                         status : {"none", "queued", "running", "succeeded", "failed", "gone"},
                         heard : Heard \cup {None}, rev : Revision]]
    /\ kept \in [Runs -> Kept \cup {None}]
    /\ delivery \in Heard \cup {None}
    /\ edit \in [Editors -> {"new", "looked", "orphaned", "over"}]
    /\ rushed \in BOOLEAN /\ restarts \in 0..MaxRestarts

Higher(a, b) == IF a > b THEN a ELSE b

\* The revision a project has given out, also where only its timeline knows it.
LastRevision == IF project.timeline = None THEN project.revision
                ELSE Higher(project.revision, project.timeline)

\* Revisions are given out by renders only.
TypeOK == Types /\ LastRevision <= Cardinality(Runs) + 1

\* Nothing rendered yet; or a rendered project of the time before timeline_revision.
Init ==
    /\ project \in
         {[status |-> "series_ready", script |-> None, timeline |-> None, voice |-> "bound",
           artifact |-> None, revision |-> 0, stale |-> FALSE, report |-> None],
          [status |-> "completed", script |-> Book, timeline |-> 1, voice |-> "bound",
           artifact |-> [heard |-> [script |-> Book, voice |-> "bound"], rev |-> 1],
           revision |-> 0, stale |-> FALSE, report |-> 1]}
    /\ run \in [Runs -> {[kind |-> k, pc |-> "new", status |-> "none", heard |-> None, rev |-> 0] :
                           k \in Kinds}]
    /\ kept = [r \in Runs |-> None]
    /\ delivery = None
    /\ edit = [e \in Editors |-> "new"]
    /\ rushed = FALSE /\ restarts = 0

Exists == project.status # "deleted"

\* active_project_run
Active(r) == run[r].status \in {"queued", "running"}
Busy == \E r \in Runs : Active(r)

\* A request that decides while another has decided and not acted, or in a pipeline's blink.
Rush ==
    rushed' = \/ rushed
              \/ \E r \in Runs : run[r].pc \in {"looked", "reconciled"}
              \/ \E e \in Editors : edit[e] \in {"looked", "orphaned"}

To(r, pc) == run' = [run EXCEPT ![r].pc = pc]
Update(r, status, pc) == run' = [run EXCEPT ![r].status = status, ![r].pc = pc]

\* A thread and its locals are gone.
Over(s, status) ==
    [kind |-> s.kind, pc |-> "over", status |-> status, heard |-> None, rev |-> 0]
Forget(r) == kept' = [kept EXCEPT ![r] = None]

\* A cue that an edit holds in its hand is no longer the project's once the list is replaced.
Orphans == edit' = [e \in Editors |-> IF edit[e] = "looked" THEN "orphaned" ELSE edit[e]]

-----------------------------------------------------------------------------
(* Requests. *)

\* A request looks for an active run without LOCK, and answers with it if there is one.
Look(r) ==
    /\ run[r].pc = "new" /\ run[r].kind # "render" /\ Exists
    /\ run[r].kind \in {"repair"} => project.script # None
    /\ To(r, IF Busy THEN "over" ELSE "looked")
    /\ Rush
    /\ UNCHANGED <<project, kept, delivery, edit, restarts>>

\* ... and enters its run.
Enqueue(r) ==
    /\ run[r].pc = "looked"
    /\ Update(r, "queued", "queued")
    /\ UNCHANGED <<project, kept, delivery, edit, rushed, restarts>>

\* rerender does both under LOCK.
Rerender(r) ==
    /\ run[r].pc = "new" /\ run[r].kind = "render" /\ Exists /\ project.script # None
    /\ IF Busy THEN To(r, "over") ELSE Update(r, "queued", "queued")
    /\ Rush
    /\ UNCHANGED <<project, kept, delivery, edit, restarts>>

LookEdit(e) ==
    /\ edit[e] = "new" /\ Exists /\ ~Busy
    /\ edit' = [edit EXCEPT ![e] = "looked"]
    /\ Rush
    /\ UNCHANGED <<project, run, kept, delivery, restarts>>

\* Mutant of Changed: the revision of a timeline is forgotten with the timeline.
ChangedForgetful(p, script, voice) ==
    [p EXCEPT !.script = script, !.voice = voice, !.status = "script_review",
              !.timeline = None, !.stale = (p.artifact # None), !.report = None]

\* Mutant of Changed: the audio is not marked.
ChangedUnmarked(p, script, voice) ==
    [p EXCEPT !.script = script, !.voice = voice, !.status = "script_review",
              !.revision = LastRevision, !.timeline = None, !.report = None]

\* What a change of the script or of its voice does to the rest of the project.
Changed(p, script, voice) ==
    [status |-> "script_review", script |-> script, timeline |-> None, voice |-> voice,
     artifact |-> p.artifact, revision |-> LastRevision, stale |-> p.artifact # None,
     report |-> None]

\* update_cue, update_narration_name_lexicon.
WriteEdit(e) ==
    /\ edit[e] \in {"looked", "orphaned"} /\ Exists /\ project.script # None
    /\ project' = Changed(project,
                     IF edit[e] = "looked" THEN [project.script EXCEPT !.edits = @ \cup {e}]
                                           ELSE project.script, project.voice)
    /\ edit' = [edit EXCEPT ![e] = "over"]
    /\ UNCHANGED <<run, kept, delivery, rushed, restarts>>

\* update_narrator_voice
WriteVoice(e) ==
    /\ edit[e] \in {"looked", "orphaned"} /\ Exists
    /\ project' = Changed(project, project.script, e)
    /\ edit' = [edit EXCEPT ![e] = "over"]
    /\ UNCHANGED <<run, kept, delivery, rushed, restarts>>

\* reset_mapping; also the answer to an edit of a project that is gone or has no script.
WriteReset(e) ==
    /\ edit[e] \in {"looked", "orphaned"}
    /\ project' = IF Exists THEN [project EXCEPT !.status = "series_ready"] ELSE project
    /\ edit' = [edit EXCEPT ![e] = "over"]
    /\ UNCHANGED <<run, kept, delivery, rushed, restarts>>

\* bind_plex, whatever is going on, with the voice and language there were or with others.
Bind ==
    /\ Exists
    /\ \E voice \in {project.voice, "rebound"} :
          project' = [project EXCEPT !.status = "series_ready", !.voice = voice]
    /\ UNCHANGED <<run, kept, delivery, edit, rushed, restarts>>

\* ensure_project_quality_state, on every look at the project.
Assess ==
    /\ Exists
    /\ project' = [project EXCEPT !.report =
                     IF project.artifact = None THEN None ELSE project.timeline]
    /\ UNCHANGED <<run, kept, delivery, edit, rushed, restarts>>

\* delete_project: the files and the runs go too; a thread in its blink finds no run.
Delete ==
    /\ Exists /\ ~Busy
    /\ project' = [project EXCEPT !.status = "deleted"]
    /\ run' = [r \in Runs |-> IF run[r].status = "none" THEN run[r]
                              ELSE Over(run[r], "gone")]
    /\ delivery' = None
    /\ Rush
    /\ UNCHANGED <<kept, edit, restarts>>

-----------------------------------------------------------------------------
(* The threads: run_pipeline, realign_project, reconcile_project_subtitles. *)

First(kind) == CASE kind \in {"pipeline", "realign"} -> "mapping"
                 [] kind = "reconcile" -> "reconciling"
                 [] kind = "render" -> "rendering"

\* Mutant of Begin: the project is looked up before the errors are handled.
BeginUnguarded(r) ==
    /\ run[r].pc = "queued" /\ run[r].kind \in {"pipeline", "realign", "reconcile", "render"}
    /\ IF Exists THEN Update(r, "running", First(run[r].kind)) ELSE To(r, "over")
    /\ UNCHANGED <<project, kept, delivery, edit, rushed, restarts>>

\* The project is looked up where its absence is an error like any other.
Begin(r) ==
    /\ run[r].pc = "queued" /\ run[r].kind \in {"pipeline", "realign", "reconcile", "render"}
    /\ Update(r, "running", IF Exists THEN First(run[r].kind) ELSE "failing")
    /\ UNCHANGED <<project, kept, delivery, edit, rushed, restarts>>

\* A run of realign_project goes through the stages without a word to the project.
Stage(r, status) ==
    project' = IF run[r].kind = "pipeline" THEN [project EXCEPT !.status = status] ELSE project

Map(r) ==
    /\ run[r].pc = "mapping"
    /\ Stage(r, "mapping_review")
    /\ To(r, "transcribing")
    /\ UNCHANGED <<kept, delivery, edit, rushed, restarts>>

Transcribe(r) ==
    /\ run[r].pc = "transcribing"
    /\ Stage(r, "aligning")
    /\ To(r, "reconciling")
    /\ UNCHANGED <<kept, delivery, edit, rushed, restarts>>

(***************************************************************************)
(* The reconciliation ends every run it is called from as succeeded: its   *)
(* own, and for a blink also the pipeline that goes on to the script.      *)
(***************************************************************************)
Reconcile(r) ==
    /\ run[r].pc = "reconciling"
    /\ project' = [project EXCEPT !.report = None]
    /\ Orphans
    /\ Update(r, "succeeded", IF run[r].kind = "reconcile" THEN "over" ELSE "reconciled")
    /\ UNCHANGED <<kept, delivery, rushed, restarts>>

-----------------------------------------------------------------------------
(* rewrite_narration. *)

\* The snapshot to return to, then the first sign of life.
StartRewrite(r) ==
    /\ run[r].pc = "reconciled" \/ (run[r].pc = "queued" /\ run[r].kind \in {"rewrite", "repair"})
    /\ Exists
    /\ kept' = [kept EXCEPT ![r] = [status |-> project.status, script |-> project.script,
                                    timeline |-> project.timeline, artifact |-> project.artifact]]
    /\ \E pc \in {"detecting", "writing"} : Update(r, "running", pc)
    /\ UNCHANGED <<project, delivery, edit, rushed, restarts>>

\* The project went before the thread looked it up: nobody handles the error.
Stillborn(r) ==
    /\ run[r].pc = "queued" /\ run[r].kind \in {"rewrite", "repair"} /\ ~Exists
    /\ To(r, "over")
    /\ UNCHANGED <<project, kept, delivery, edit, rushed, restarts>>

\* Commercial bumpers and endings, where the episodes' audio is at hand.
Detect(r) ==
    /\ run[r].pc = "detecting"
    /\ To(r, "writing")
    /\ UNCHANGED <<project, kept, delivery, edit, rushed, restarts>>

(***************************************************************************)
(* An error in the detection: the handler reads episode_context_research,  *)
(* which has no value yet, and ends with an error of its own.  Only a      *)
(* pipeline around it can report that.                                     *)
(***************************************************************************)
DetectFails(r) ==
    /\ run[r].pc = "detecting"
    /\ To(r, IF run[r].kind \in {"pipeline", "realign"} THEN "failing" ELSE "over")
    /\ Forget(r)
    /\ UNCHANGED <<project, delivery, edit, rushed, restarts>>

\* The script was written anew.
SaveScript(r) ==
    /\ run[r].pc = "writing"
    /\ project' = Changed(project, [by |-> r, edits |-> {}], project.voice)
    /\ Orphans
    /\ To(r, "rendering")
    /\ Forget(r)
    /\ UNCHANGED <<delivery, rushed, restarts>>

\* Mutant of Restored: the audio and its timeline stay as they have become.
RestoredScript(p, k) == [p EXCEPT !.status = k.status, !.script = k.script]

\* project.update(previous): the binding, audio_stale and the report are not among it.
Restored(p, k) ==
    [status |-> k.status, script |-> k.script, timeline |-> k.timeline, voice |-> p.voice,
     artifact |-> k.artifact, revision |-> p.revision, stale |-> p.stale, report |-> p.report]

WriteFails(r) ==
    /\ run[r].pc = "writing"
    /\ project' = Restored(project, kept[r])
    /\ Orphans
    /\ To(r, "failing")
    /\ Forget(r)
    /\ UNCHANGED <<delivery, rushed, restarts>>

(***************************************************************************)
(* The script was there and only had to be placed anew: when it is in the  *)
(* project already, the warnings ask for a scene alignment that never was. *)
(***************************************************************************)
ReplanFails(r) ==
    /\ run[r].pc = "writing" /\ project.script # None
    /\ project' = Restored(Changed(project, project.script, project.voice), kept[r])
    /\ Orphans
    /\ To(r, "failing")
    /\ Forget(r)
    /\ UNCHANGED <<delivery, rushed, restarts>>

-----------------------------------------------------------------------------
(* render_project. *)

\* The cues are spoken one after the other; of a binding that changes meanwhile some of them.
Speak(r) ==
    /\ run[r].pc = "rendering"
    /\ run' = [run EXCEPT ![r].heard = [script |-> project.script, voice |-> project.voice],
                          ![r].pc = "encoding"]
    /\ UNCHANGED <<project, kept, delivery, edit, rushed, restarts>>

Encode(r) ==
    /\ run[r].pc = "encoding"
    /\ delivery' = run[r].heard
    /\ run' = [run EXCEPT ![r].heard = None, ![r].pc = "numbering"]
    /\ UNCHANGED <<project, kept, edit, rushed, restarts>>

\* next_timeline_revision, and the copy of the delivery under a name of its own.
Number(r) ==
    /\ run[r].pc = "numbering"
    /\ run' = [run EXCEPT ![r].rev = LastRevision + 1, ![r].heard = delivery,
                          ![r].pc = "publishing"]
    /\ UNCHANGED <<project, kept, delivery, edit, rushed, restarts>>

\* A repair that does not satisfy the quality report counts as failed, with its audio published.
Publish(r) ==
    /\ run[r].pc = "publishing"
    /\ project' = [status |-> "completed", script |-> project.script, timeline |-> run[r].rev,
                   voice |-> project.voice,
                   artifact |-> [heard |-> run[r].heard, rev |-> run[r].rev],
                   revision |-> run[r].rev, stale |-> FALSE, report |-> run[r].rev]
    /\ \/ To(r, "succeeding")
       \/ run[r].kind = "repair" /\ To(r, "failing")
    /\ UNCHANGED <<kept, delivery, edit, rushed, restarts>>

-----------------------------------------------------------------------------
\* An error in Plex, the agents, the voices or ffmpeg.
Fails(r) ==
    /\ run[r].pc \in {"mapping", "transcribing", "reconciling"} \cup Rendering
    /\ To(r, "failing")
    /\ UNCHANGED <<project, kept, delivery, edit, rushed, restarts>>

\* The run's last update.
End(r) ==
    /\ run[r].pc \in {"succeeding", "failing"}
    /\ run' = [run EXCEPT ![r] =
                 Over(@, IF @.pc = "succeeding" THEN "succeeded" ELSE "failed")]
    /\ UNCHANGED <<project, kept, delivery, edit, rushed, restarts>>

\* The threads are gone; start() declares the runs that were active failed.
Restart ==
    /\ restarts < MaxRestarts
    /\ restarts' = restarts + 1
    /\ run' = [r \in Runs |->
                 IF run[r].pc = "new" THEN run[r]
                 ELSE Over(run[r], IF Active(r) THEN "failed" ELSE run[r].status)]
    /\ kept' = [r \in Runs |-> None]
    /\ edit' = [e \in Editors |-> IF edit[e] = "new" THEN "new" ELSE "over"]
    /\ UNCHANGED <<project, delivery, rushed>>

-----------------------------------------------------------------------------
Thread(r) ==
    \/ Begin(r) \/ Map(r) \/ Transcribe(r) \/ Reconcile(r)
    \/ StartRewrite(r) \/ Stillborn(r) \/ Detect(r) \/ DetectFails(r)
    \/ SaveScript(r) \/ ReplanFails(r) \/ WriteFails(r)
    \/ Speak(r) \/ Encode(r) \/ Number(r) \/ Publish(r)
    \/ Fails(r) \/ End(r)

Next ==
    \/ \E r \in Runs : Look(r) \/ Enqueue(r) \/ Rerender(r) \/ Thread(r)
    \/ \E e \in Editors : LookEdit(e) \/ WriteEdit(e) \/ WriteVoice(e) \/ WriteReset(e)
    \/ Bind \/ Assess \/ Delete \/ Restart

Spec == Init /\ [][Next]_vars

\* Handlers and threads go on; Plex, agents and ffmpeg are called with timeouts.
LiveSpec == Spec /\ \A r \in Runs : WF_vars(Enqueue(r)) /\ WF_vars(Thread(r))

-----------------------------------------------------------------------------
\* The project's script in its voice, or in the one before the last re-binding.
SaysTheScript(h) ==
    h.script = project.script /\ (h.voice = project.voice \/ project.voice = "rebound")

(***************************************************************************)
(* Audio that says another script than the project's, or says it in a      *)
(* voice that was replaced, is shown as old: no edit, no rewrite and no    *)
(* failure leaves old audio that passes for current.  A series that is     *)
(* bound again brings a voice of its own and marks nothing (bind_plex):    *)
(* audio from before that is excepted until a voice is chosen.             *)
(***************************************************************************)
OldAudioIsStale ==
    ~rushed /\ Exists /\ project.artifact # None /\ ~SaysTheScript(project.artifact.heard) =>
        project.stale

(***************************************************************************)
(* The same of the voice of a series that is bound again: it does not hold *)
(* (bind_plex replaces the voice that update_narrator_voice would mark).   *)
(***************************************************************************)
OldVoiceIsStale ==
    ~rushed /\ Exists /\ project.artifact # None /\ project.artifact.heard.voice # project.voice =>
        project.stale

(***************************************************************************)
(* Timeline, audio and quality report come from one render, and a project  *)
(* is completed only with all of its render: the player seeks in the audio *)
(* by the timeline.                                                        *)
(***************************************************************************)
TimelineFitsAudio ==
    /\ project.timeline # None => project.artifact # None /\ project.artifact.rev = project.timeline
    /\ ~rushed /\ project.report # None => project.report = project.timeline
    /\ project.status = "completed" => project.timeline # None

(***************************************************************************)
(* A listener's review names the revision it heard: no render reuses the   *)
(* number of an earlier one, also after its timeline was dropped, restored *)
(* or never counted.                                                       *)
(***************************************************************************)
RevisionsTellAudioApart ==
    [][~rushed /\ project'.artifact # project.artifact /\ project.artifact # None =>
         project'.artifact.rev > project.artifact.rev]_vars

(***************************************************************************)
(* Every run ends and the project can be edited again, unless the run fell *)
(* in the detection that precedes the script.                              *)
(***************************************************************************)
RunsEnd ==
    \A r \in Runs :
        run[r].pc = "queued" ~> ~Active(r) \/ (run[r].pc = "over" /\ run[r].kind \in {"rewrite", "repair"})

(***************************************************************************)
(* "A production is active; editing is temporarily locked": the lock a run *)
(* puts on its project is lifted.                                          *)
(***************************************************************************)
EditingIsLockedTemporarily == Exists /\ Busy ~> ~Exists \/ ~Busy

=============================================================================
