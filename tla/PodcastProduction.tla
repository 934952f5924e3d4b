--------------------------- MODULE PodcastProduction ---------------------------
(***************************************************************************)
(* One podcast of vocarium-api/podcast/routes.py: the claim of a script or *)
(* audio production, the worker behind its event stream, edits that wait   *)
(* for the voice engines between reading and writing the script, the audio *)
(* files and their archive, the artifact cleanup, deletion and restarts.   *)
(*                                                                         *)
(* Handlers run on one asyncio loop: a step is the code between two        *)
(* awaits.  Copies of audio files and the cleanup run in threads: a copy   *)
(* begins and ends in steps of their own, and one whose worker is gone     *)
(* runs on.                                                                *)
(***************************************************************************)
EXTENDS Integers, FiniteSets

CONSTANTS
    Scripts,      \* the requests that generate a script
    Audios,       \* the requests that generate the audio
    Editors,      \* the requests that change the script or the cast
    Takes,        \* the bytes a mix may have: unchanged segments give the same again
    Legacy,       \* the audio and the script there are at the beginning, or NoAudio
    NoAudio,
    MayAbandon,   \* a client leaves before the worker of its production runs
    MayCleanup,   \* the administrator sweeps artifacts
    MayDelete,    \* the podcast is deleted
    MaxRestarts   \* bound on the restarts

Productions == Scripts \cup Audios

ASSUME ProductionAssumption ==
    /\ Scripts \cap Audios = {} /\ Editors \cap Productions = {}
    /\ NoAudio \notin Productions /\ Legacy \notin Productions
    /\ Legacy \in Takes \cup {NoAudio} /\ NoAudio \notin Takes
    /\ {"torn", "partial", "mix"} \cap (Takes \cup {NoAudio}) = {}
    /\ {"none", "torn", "whole"} \cap Productions = {}
    /\ {MayAbandon, MayCleanup, MayDelete} \subseteq BOOLEAN
    /\ MaxRestarts \in Nat

VARIABLES
    status,    \* podcasts.status, "deleted" without a row
    script,    \* podcasts.script_json: who generated it and the edits it holds
    audio,     \* podcasts.audio_path, audio_sha256 and audio_revision
    prod,      \* where each production is, the script it read, its last copy of a file
    edit,      \* where each edit is, and the script it read
    work,      \* the bytes in the mix file of the assembler
    encoders,  \* the productions whose ffmpeg writes the mix file
    archive,   \* the audio-<sha> files: "whole", "torn", or the production whose copy writes it
    aged,      \* the files older than a day, "mix" for the mix file
    sweep,     \* the files the running cleanup took for referenced
    restarts

vars == <<status, script, audio, prod, edit, work, encoders, archive, aged, sweep, restarts>>

Active == {"generating_script", "generating_audio"}
Contents == Takes \cup {"torn"}     \* torn: bytes of two encoders or of half a copy
Files == Contents \cup {"mix"}       \* the archive's files by the hash in their names
ScriptType == [by : Scripts \cup {Legacy, NoAudio}, edits : SUBSET Editors]
NoScript == [by |-> NoAudio, edits |-> {}]
NoFile == [path |-> "none", sha |-> NoAudio, rev |-> NoScript]

\* The worker's awaits, in order.
Working == {"generating", "hashing", "archiving", "archived", "assembling",
            "mixing", "mixed", "copying", "publishing"}
CopyType == [of : Files, to : Contents \cup {NoAudio}]
Done == [pc |-> "over", read |-> NoScript]
NoCopy == [of |-> "mix", to |-> NoAudio]

TypeOK ==
    /\ status \in Active \cup {"draft", "script_ready", "ready", "error", "cancelled", "deleted"}
    /\ script \in ScriptType
    /\ audio \in [path : {"none", "work", "archive"}, sha : Contents \cup {NoAudio},
                  rev : ScriptType]
    /\ prod \in [Productions -> [pc : Working \cup {"new", "checking", "claimed", "opened",
                                                    "cancelling", "over"},
                                 read : ScriptType, copy : CopyType]]
    /\ edit \in [Editors -> [pc : {"new", "checking", "over"}, read : ScriptType]]
    /\ work \in Contents \cup {NoAudio, "partial"}
    /\ encoders \subseteq Audios
    /\ archive \in [Contents -> {"none", "torn", "whole"} \cup Audios]
    /\ aged \subseteq Files
    /\ sweep \in [on : BOOLEAN, keep : SUBSET Files]
    /\ restarts \in 0..MaxRestarts

Init ==
    /\ \/ /\ Legacy = NoAudio
          /\ status = "draft" /\ script = NoScript
          /\ audio = NoFile
       \/ /\ Legacy # NoAudio
          /\ status = "ready" /\ script = [by |-> Legacy, edits |-> {}]
          /\ audio = [path |-> "work", sha |-> Legacy, rev |-> script]
    /\ prod = [p \in Productions |-> [pc |-> "new", read |-> NoScript, copy |-> NoCopy]]
    /\ edit = [e \in Editors |-> [pc |-> "new", read |-> NoScript]]
    /\ work = Legacy
    /\ encoders = {}
    /\ archive = [s \in Contents |-> "none"]
    /\ aged = IF Legacy = NoAudio THEN {} ELSE {"mix"}
    /\ sweep = [on |-> FALSE, keep |-> {}]
    /\ restarts = 0

Exists == status # "deleted"

\* _require_idle
Idle == Exists /\ status \notin Active

To(p, pc) == prod' = [prod EXCEPT ![p].pc = pc]

\* What a worker knew goes with it, but for a copy its thread still writes.
Written(p) == {s \in Contents : archive[s] = p}

Over(p) ==
    prod' = [prod EXCEPT ![p] = [pc |-> "over", read |-> NoScript,
                                 copy |-> IF Written(p) = {} THEN NoCopy ELSE prod[p].copy]]

\* An UPDATE of the row, which may be gone by then.
Set(s) == status' = IF Exists THEN s ELSE status

files == <<work, encoders, archive, aged, sweep>>

(***************************************************************************)
(* shutil.copy2 truncates its target, writes it, and gives it the age of   *)
(* its source in the end.  Where two write the same bytes into one file it *)
(* is whole when the later one ends, so only that one is kept.  What the   *)
(* copy of p still writes becomes x; a file unlinked meanwhile stays away. *)
(***************************************************************************)
CopyBegins(p, of, to, pc) ==
    /\ archive' = [archive EXCEPT ![to] = p]
    /\ aged' = aged \ {to}
    /\ prod' = [prod EXCEPT ![p] = [pc |-> pc, read |-> prod[p].read,
                                    copy |-> [of |-> of, to |-> to]]]

CopyLeaves(p, x) ==
    archive' = [s \in Contents |-> IF s \in Written(p) THEN x ELSE archive[s]]

CopyEnds(p) ==
    /\ IF prod[p].copy.of = "mix" THEN work # NoAudio ELSE archive[prod[p].copy.of] # "none"
    /\ CopyLeaves(p, "whole")
    /\ aged' = IF prod[p].copy.of \in aged THEN aged \cup Written(p) ELSE aged

-----------------------------------------------------------------------------
(* Claims. *)

\* generate_script looks at the podcast and asks the engines for the voices.
AskScript(p) ==
    /\ p \in Scripts /\ prod[p].pc = "new" /\ Idle
    /\ To(p, "checking")
    /\ UNCHANGED <<status, script, audio, edit, files, restarts>>

\* Mutant of Claim: the UPDATE has no condition on the status.
ClaimAlways(p, s) ==
    /\ Exists
    /\ status' = s
    /\ prod' = [prod EXCEPT ![p] = [pc |-> "claimed", read |-> script, copy |-> NoCopy]]

\* The conditional UPDATE: one production at a time, else 409.
Claim(p, s) ==
    \/ /\ Idle
       /\ status' = s
       /\ prod' = [prod EXCEPT ![p] = [pc |-> "claimed", read |-> script, copy |-> NoCopy]]
    \/ /\ ~Idle
       /\ UNCHANGED status
       /\ Over(p)

ClaimScript(p) ==
    /\ p \in Scripts /\ prod[p].pc = "checking"
    /\ Claim(p, "generating_script")
    /\ UNCHANGED <<script, audio, edit, files, restarts>>

\* generate_audio reads the script and claims without an await in between.
ClaimAudio(p) ==
    /\ p \in Audios /\ prod[p].pc = "new" /\ Idle /\ script # NoScript
    /\ Claim(p, "generating_audio")
    /\ UNCHANGED <<script, audio, edit, files, restarts>>

-----------------------------------------------------------------------------
(* The event stream and its client. *)

\* The first event went out; the worker task is created.
Open(p) ==
    /\ prod[p].pc = "claimed"
    /\ To(p, "opened")
    /\ UNCHANGED <<status, script, audio, edit, files, restarts>>

(***************************************************************************)
(* The client is gone before the worker ran its first step: the stream is  *)
(* never iterated, or the task is cancelled before its body begins.        *)
(***************************************************************************)
Abandon(p) ==
    /\ MayAbandon /\ prod[p].pc \in {"claimed", "opened"}
    /\ Over(p)
    /\ UNCHANGED <<status, script, audio, edit, files, restarts>>

(***************************************************************************)
(* The client leaves later: the stream's finally block cancels the worker, *)
(* neither its ffmpeg nor the thread of its copy.                          *)
(***************************************************************************)
Disconnect(p) ==
    /\ prod[p].pc \in Working
    /\ To(p, "cancelling")
    /\ UNCHANGED <<status, script, audio, edit, files, restarts>>

Cancelled(p) ==
    /\ prod[p].pc = "cancelling"
    /\ Set("cancelled")
    /\ Over(p)
    /\ UNCHANGED <<script, audio, edit, files, restarts>>

\* Mutant of Fails: the handler only reports the error to the client.
FailsSilently(p) ==
    /\ prod[p].pc \in Working
    /\ Over(p)
    /\ UNCHANGED <<status, script, audio, edit, files, restarts>>

Fails(p) ==
    /\ prod[p].pc \in Working
    /\ Set("error")
    /\ Over(p)
    /\ encoders' = encoders \ {p}
    /\ CopyLeaves(p, "torn")
    /\ UNCHANGED <<script, audio, edit, work, aged, sweep, restarts>>

-----------------------------------------------------------------------------
(* The workers. *)

StartScript(p) ==
    /\ p \in Scripts /\ prod[p].pc = "opened"
    /\ To(p, "generating")
    /\ UNCHANGED <<status, script, audio, edit, files, restarts>>

ScriptReady(p) ==
    /\ prod[p].pc = "generating"
    /\ Set("script_ready")
    /\ script' = IF Exists THEN [by |-> p, edits |-> {}] ELSE script
    /\ Over(p)
    /\ UNCHANGED <<audio, edit, files, restarts>>

\* The file the podcast names, and its bytes; one that is not whole is torn.
OldFile == CASE audio.path = "work" -> "mix"
             [] audio.path = "archive" -> audio.sha
             [] OTHER -> "none"

OldBytes == CASE audio.path = "work" -> work
              [] audio.path = "archive" ->
                    (CASE archive[audio.sha] = "whole" -> audio.sha
                       [] archive[audio.sha] = "none" -> NoAudio
                       [] OTHER -> "torn")
              [] OTHER -> NoAudio

\* Mutant of StartAudio: audio in the mix file is not archived.
StartAudioUnarchived(p) ==
    /\ p \in Audios /\ prod[p].pc = "opened"
    /\ To(p, "assembling")
    /\ UNCHANGED <<status, script, audio, edit, files, restarts>>

\* Audio there is is hashed; unless that is its name already, it is to be archived.
StartAudio(p) ==
    /\ p \in Audios /\ prod[p].pc = "opened"
    /\ To(p, IF OldBytes \in {NoAudio, OldFile} THEN "assembling" ELSE "hashing")
    /\ UNCHANGED <<status, script, audio, edit, files, restarts>>

\* The copy of a cancelled worker has completed it meanwhile.
IsArchived(p) ==
    /\ prod[p].pc = "hashing" /\ OldBytes = OldFile
    /\ To(p, "assembling")
    /\ UNCHANGED <<status, script, audio, edit, files, restarts>>

Archive(p) ==
    /\ prod[p].pc = "hashing" /\ OldBytes \in Contents \ {OldFile}
    /\ CopyBegins(p, OldFile, OldBytes, "archiving")
    /\ UNCHANGED <<status, script, audio, edit, work, encoders, sweep, restarts>>

ArchiveEnds(p) ==
    /\ prod[p].pc = "archiving"
    /\ CopyEnds(p)
    /\ To(p, "archived")
    /\ UNCHANGED <<status, script, audio, edit, work, encoders, sweep, restarts>>

Archived(p) ==
    /\ prod[p].pc = "archived"
    /\ audio' = IF Exists
                THEN [path |-> "archive", sha |-> prod[p].copy.to, rev |-> audio.rev]
                ELSE audio
    /\ To(p, "assembling")
    /\ UNCHANGED <<status, script, edit, files, restarts>>

(***************************************************************************)
(* The segments are there; ffmpeg truncates the mix file, also under       *)
(* another's hands, and a copy that reads it comes to its end too early.   *)
(***************************************************************************)
Mix(p) ==
    /\ prod[p].pc = "assembling"
    /\ work' = IF encoders = {} THEN "partial" ELSE "torn"
    /\ encoders' = encoders \cup {p}
    /\ archive' = [s \in Contents |->
                     IF \E q \in Audios : s \in Written(q) /\ prod[q].copy.of = "mix"
                     THEN "torn" ELSE archive[s]]
    /\ aged' = aged \ {"mix"}
    /\ To(p, "mixing")
    /\ UNCHANGED <<status, script, audio, edit, sweep, restarts>>

Encoded == IF work = "partial" THEN work' \in Takes ELSE UNCHANGED work

Mixed(p) ==
    /\ prod[p].pc = "mixing"
    /\ Encoded
    /\ encoders' = encoders \ {p}
    /\ To(p, "mixed")
    /\ UNCHANGED <<status, script, audio, edit, archive, aged, sweep, restarts>>

\* The ffmpeg of a cancelled worker runs on to its end, or fails.
OrphanExits(p) ==
    /\ p \in encoders /\ prod[p].pc # "mixing"
    /\ Encoded \/ UNCHANGED work
    /\ encoders' = encoders \ {p}
    /\ UNCHANGED <<status, script, audio, prod, edit, archive, aged, sweep, restarts>>

\* The copy under the name of its hash, over a file of the same bytes if there is one.
CopyMix(p) ==
    /\ prod[p].pc = "mixed" /\ work \in Contents
    /\ CopyBegins(p, "mix", work, "copying")
    /\ UNCHANGED <<status, script, audio, edit, work, encoders, sweep, restarts>>

CopyMixEnds(p) ==
    /\ prod[p].pc = "copying"
    /\ CopyEnds(p)
    /\ To(p, "publishing")
    /\ UNCHANGED <<status, script, audio, edit, work, encoders, sweep, restarts>>

\* The thread of a cancelled worker's copy runs on to its end, or fails.
OrphanCopyEnds(p) ==
    /\ p \in Audios /\ prod[p].pc \notin Working /\ Written(p) # {}
    /\ \/ CopyEnds(p)
       \/ CopyLeaves(p, "torn") /\ UNCHANGED aged
    /\ prod' = [prod EXCEPT ![p].copy = NoCopy]
    /\ UNCHANGED <<status, script, audio, edit, work, encoders, sweep, restarts>>

AudioReady(p) ==
    /\ prod[p].pc = "publishing"
    /\ Set("ready")
    /\ audio' = IF Exists
                THEN [path |-> "archive", sha |-> prod[p].copy.to, rev |-> prod[p].read]
                ELSE audio
    /\ Over(p)
    /\ UNCHANGED <<script, edit, files, restarts>>

-----------------------------------------------------------------------------
(* Edits: update_segment, add_segment, delete_segment, update_podcast. *)

ReadForEdit(e) ==
    /\ edit[e].pc = "new" /\ Idle /\ script # NoScript
    /\ edit' = [edit EXCEPT ![e] = [pc |-> "checking", read |-> script]]
    /\ UNCHANGED <<status, script, audio, prod, files, restarts>>

\* Mutant of WriteEdit: no second look at the status after the await.
WriteEditUnchecked(e) ==
    /\ edit[e].pc = "checking" /\ Exists
    /\ script' = [edit[e].read EXCEPT !.edits = @ \cup {e}]
    /\ edit' = [edit EXCEPT ![e] = Done]
    /\ UNCHANGED <<status, audio, prod, files, restarts>>

\* The engines answered: a second _require_idle, then the script read before is written.
WriteEdit(e) ==
    /\ edit[e].pc = "checking"
    /\ script' = IF Idle THEN [edit[e].read EXCEPT !.edits = @ \cup {e}] ELSE script
    /\ edit' = [edit EXCEPT ![e] = Done]
    /\ UNCHANGED <<status, audio, prod, files, restarts>>

-----------------------------------------------------------------------------
(* Deletion, cleanup, restart. *)

\* delete_podcast: the row, and the one file it references.
Delete ==
    /\ MayDelete /\ Exists
    /\ status' = "deleted" /\ script' = NoScript /\ audio' = NoFile
    /\ IF audio.path = "archive"
       THEN /\ archive' = [archive EXCEPT ![audio.sha] = "none"]
            /\ aged' = aged \ {audio.sha}
            /\ UNCHANGED work
       ELSE /\ work' = IF audio.path = "work" THEN NoAudio ELSE work
            /\ UNCHANGED <<archive, aged>>
    /\ UNCHANGED <<prod, edit, encoders, sweep, restarts>>

\* cleanup_artifacts reads the references first ...
SweepBegins ==
    /\ MayCleanup /\ ~sweep.on
    /\ sweep' = [on |-> TRUE,
                 keep |-> IF ~Exists THEN {}
                          ELSE CASE audio.path = "archive" -> {audio.sha}
                                 [] audio.path = "work" -> {"mix"}
                                 [] OTHER -> {}]
    /\ UNCHANGED <<status, script, audio, prod, edit, work, encoders, archive, aged, restarts>>

\* The unlinking of the files rm.
Remove(rm) ==
    /\ archive' = [s \in Contents |-> IF s \in rm THEN "none" ELSE archive[s]]
    /\ aged' = aged \ rm
    /\ work' = IF "mix" \in rm THEN NoAudio ELSE work
    /\ sweep' = [on |-> FALSE, keep |-> {}]
    /\ UNCHANGED <<status, script, audio, prod, edit, encoders, restarts>>

\* ... and removes the old files that were not referenced then.
SweepEnds == sweep.on /\ Remove(aged \ sweep.keep)

\* A day passes while nothing is produced and no sweep runs.
Day ==
    /\ MayCleanup /\ ~sweep.on
    /\ \A p \in Productions : prod[p].pc \notin Working
    /\ encoders = {} /\ \A s \in Contents : archive[s] \notin Audios
    /\ aged' = {s \in Contents : archive[s] # "none"}
                 \cup (IF work = NoAudio THEN {} ELSE {"mix"})
    /\ UNCHANGED <<status, script, audio, prod, edit, work, encoders, archive, sweep, restarts>>

\* Requests, workers, encoders, copies and sweeps end with the process; startup resets no podcast.
Restart ==
    /\ restarts < MaxRestarts
    /\ restarts' = restarts + 1
    /\ prod' = [p \in Productions |->
                  IF prod[p].pc = "new" THEN prod[p]
                  ELSE [pc |-> "over", read |-> NoScript, copy |-> NoCopy]]
    /\ edit' = [e \in Editors |-> IF edit[e].pc = "new" THEN edit[e] ELSE Done]
    /\ encoders' = {}
    /\ archive' = [s \in Contents |-> IF archive[s] \in Audios THEN "torn" ELSE archive[s]]
    /\ sweep' = [on |-> FALSE, keep |-> {}]
    /\ UNCHANGED <<status, script, audio, work, aged>>

-----------------------------------------------------------------------------
Worker(p) ==
    \/ Fails(p) \/ Cancelled(p)
    \/ StartScript(p) \/ ScriptReady(p)
    \/ StartAudio(p) \/ IsArchived(p) \/ Archive(p) \/ ArchiveEnds(p) \/ Archived(p)
    \/ Mix(p) \/ Mixed(p) \/ CopyMix(p) \/ CopyMixEnds(p) \/ AudioReady(p)

Serve(p) == Open(p) \/ Worker(p)

Next ==
    \/ \E p \in Productions :
        \/ AskScript(p) \/ ClaimScript(p) \/ ClaimAudio(p)
        \/ Abandon(p) \/ Disconnect(p) \/ Serve(p)
        \/ OrphanExits(p) \/ OrphanCopyEnds(p)
    \/ \E e \in Editors : ReadForEdit(e) \/ WriteEdit(e)
    \/ Delete \/ SweepBegins \/ SweepEnds \/ Day \/ Restart

Spec == Init /\ [][Next]_vars

(***************************************************************************)
(* The server iterates a response whose client is there, and every await   *)
(* of a worker ends (timeouts of the language model and of the engines).   *)
(***************************************************************************)
LiveSpec == Spec /\ \A p \in Productions : WF_vars(Serve(p))

-----------------------------------------------------------------------------
(***************************************************************************)
(* The status belongs to the production that runs: there is one at a time, *)
(* the podcast says which kind it is, and so no production that was        *)
(* cancelled or replaced can write its verdict over a newer one's.         *)
(***************************************************************************)
Occupied(p) == prod[p].pc \in Working \cup {"claimed", "opened", "cancelling"}

ActiveOwnsStatus ==
    /\ \A p, q \in Productions : Exists /\ Occupied(p) /\ Occupied(q) => p = q
    /\ \A p \in Productions :
         Exists /\ Occupied(p) =>
            status = IF p \in Scripts THEN "generating_script" ELSE "generating_audio"

(***************************************************************************)
(* Finished audio matches the script: nothing was edited between the claim *)
(* and the end ("Audio entspricht dem gespeicherten Skript").              *)
(***************************************************************************)
AudioMatchesScript ==
    [][status = "generating_audio" /\ status' = "ready" => audio'.rev = script']_vars

\* The archived bytes the podcast names, or will when the worker at its copy's end goes on.
Named ==
    (IF audio.path = "archive" THEN {audio.sha} ELSE {})
        \cup {prod[p].copy.to :
                p \in {q \in Audios : prod[q].pc \in {"archived", "publishing"}}}

(***************************************************************************)
(* The audio the podcast names is there and whole, also while the next     *)
(* version is assembled, fails or is cancelled and copies of cancelled     *)
(* workers run on: the mix file stays what it is as long as it is named,   *)
(* an archived file is whole when it comes to be named, and stays so.  Two *)
(* things end that, and the README shows both: a production that renders   *)
(* the same bytes again copies them over the file, and a cleanup that read *)
(* its references while the podcast still named the mix file removes the   *)
(* archived copy of it.  Of a mix that was torn itself ReadyAudioIsWhole   *)
(* speaks.                                                                 *)
(***************************************************************************)
AudioStaysPlayable ==
    [][Exists' =>
         /\ audio'.path = "work" => work' = audio'.sha
         /\ \A s \in Named' \cap Takes :
              IF s \notin Named THEN archive'[s] = "whole"
              ELSE archive[s] = "whole" =>
                     \/ archive'[s] = "whole"
                     \/ \E p \in Audios : CopyMix(p) /\ s = work
                     \/ SweepEnds /\ "mix" \in sweep.keep]_vars

(***************************************************************************)
(* Every worker that began takes the podcast out of the status in which it *)
(* refuses everything ("A production is already active"), unless the       *)
(* process dies, which no startup repairs.                                 *)
(***************************************************************************)
ProductionsEnd ==
    (\E p \in Productions : prod[p].pc \in Working) ~> status \notin Active \/ restarts > 0

(***************************************************************************)
(* Finished audio is one encoder's work: what the podcast offers as the    *)
(* rendering of its script was not written by two productions at once.     *)
(***************************************************************************)
ReadyAudioIsWhole == status = "ready" => audio.sha \in Takes

\* What ends in AudioStaysPlayable: the archived copy of old audio is not always there ...
ArchivedAudioIsThere ==
    Exists /\ audio.path = "archive" /\ audio.sha \in Takes => archive[audio.sha] # "none"

\* ... and published audio is not whole while the same bytes are copied over it.
ArchivedAudioIsWhole ==
    Exists /\ audio.path = "archive" /\ audio.sha \in Takes =>
        archive[audio.sha] \in {"none", "whole"}

=============================================================================
