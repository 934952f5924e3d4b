------------------------------- MODULE HsProofs --------------------------------
(***************************************************************************)
(* What holds of HsRuns for every number of runs, edits and restarts:      *)
(* timeline and audio fit, old audio is marked, and revisions increase.    *)
(*                                                                         *)
(* And of HsRender, for every project, answer, fingerprint and recording:  *)
(* a published timeline plays the retained source once, and what the gate  *)
(* releases has each narration once and nobody talking under it.           *)
(***************************************************************************)
EXTENDS HsRuns, HsRender, HsPlanProofs

Rewriting == {"detecting", "writing"}
Engaged(r) == run[r].pc \notin {"new", "over"} \/ Active(r)
Editing(e) == edit[e] \in {"looked", "orphaned"}

\* Where a thread is, and what the store says of its run.
RunShape ==
    \A r \in Runs :
        /\ run[r].pc = "new" => run[r].status = "none"
        /\ run[r].pc \in Working \ {"queued", "reconciled"} => run[r].status = "running"
        /\ run[r].pc = "queued" => run[r].status = "queued"
        /\ run[r].pc = "reconciled" => run[r].status = "succeeded"
        /\ run[r].pc \in Working \ {"queued", "failing"} => Exists
        /\ kept[r] # None <=> run[r].pc \in Rewriting

\* A copy to return to is as consistent as the project was.
KeptShape ==
    \A r \in Runs :
        kept[r] # None =>
            /\ kept[r].timeline # None =>
                 kept[r].artifact # None /\ kept[r].artifact.rev = kept[r].timeline
            /\ kept[r].status = "completed" => kept[r].timeline # None

\* Unless a request came in between, there is one run or one edit at a time.
Alone ==
    ~rushed =>
        /\ \A r, s \in Runs : Engaged(r) /\ Engaged(s) => r = s
        /\ \A e, f \in Editors : Editing(e) /\ Editing(f) => e = f
        /\ \A e \in Editors, r \in Runs : ~(Editing(e) /\ Engaged(r))

\* ... so that a rewrite returns to what is still there ...
KeptIsCurrent ==
    ~rushed => \A r \in Runs :
        kept[r] # None =>
            /\ kept[r].script = project.script
            /\ kept[r].timeline = project.timeline
            /\ kept[r].artifact = project.artifact

\* ... and a render speaks the script that is there in its voice, under a number of its own.
RenderFor(r) ==
    /\ run[r].pc = "encoding" => SaysTheScript(run[r].heard)
    /\ run[r].pc = "numbering" => SaysTheScript(delivery)
    /\ run[r].pc = "publishing" =>
         /\ SaysTheScript(run[r].heard)
         /\ project.artifact # None => run[r].rev > project.artifact.rev

RenderIsCurrent == ~rushed => \A r \in Runs : RenderFor(r)

NumberShape ==
    ~rushed /\ project.artifact # None => project.artifact.rev <= LastRevision

IInv ==
    /\ Types /\ RunShape /\ KeptShape /\ Alone
    /\ TimelineFitsAudio /\ KeptIsCurrent /\ RenderIsCurrent /\ NumberShape
    /\ OldAudioIsStale

Pcs == Working \cup {"new", "looked", "over"}
RunStatus == {"none", "queued", "running", "succeeded", "failed", "gone"}
RunRec == [kind : AllKinds, pc : Pcs, status : RunStatus, heard : Heard \cup {None}, rev : Revision]

-----------------------------------------------------------------------------
(* Updates of one run. *)

LEMMA ToFacts ==
    ASSUME run \in [Runs -> RunRec], NEW r \in Runs, NEW x \in Pcs, To(r, x)
    PROVE  /\ run' \in [Runs -> RunRec]
           /\ run'[r] = [kind |-> run[r].kind, pc |-> x, status |-> run[r].status,
                         heard |-> run[r].heard, rev |-> run[r].rev]
           /\ \A q \in Runs \ {r} : run'[q] = run[q]
BY DEF To, RunRec

LEMMA UpdateFacts ==
    ASSUME run \in [Runs -> RunRec], NEW r \in Runs, NEW x \in Pcs, NEW st \in RunStatus,
           Update(r, st, x)
    PROVE  /\ run' \in [Runs -> RunRec]
           /\ run'[r] = [kind |-> run[r].kind, pc |-> x, status |-> st,
                         heard |-> run[r].heard, rev |-> run[r].rev]
           /\ \A q \in Runs \ {r} : run'[q] = run[q]
BY DEF Update, RunRec

LEMMA RunType == IInv => run \in [Runs -> RunRec]
BY DEF IInv, Types, RunRec, Pcs, RunStatus

\* An engaged run is the only one, and no edit is under way.
LEMMA OnlyOne ==
    ASSUME Alone, ~rushed, NEW r \in Runs, Engaged(r)
    PROVE  /\ \A q \in Runs \ {r} : ~Engaged(q)
           /\ \A e \in Editors : ~Editing(e)
BY DEF Alone

\* A thread at work is engaged.
LEMMA AtWork ==
    ASSUME NEW r \in Runs, run[r].pc \in Working \cup {"looked"}
    PROVE  Engaged(r)
BY DEF Engaged, Working, Rendering

(***************************************************************************)
(* A run goes on and changes nothing of the project but, perhaps, its      *)
(* status.                                                                 *)
(***************************************************************************)
LEMMA MoveStep ==
    ASSUME IInv, NEW r \in Runs, Engaged(r),
           run' \in [Runs -> RunRec], \A q \in Runs \ {r} : run'[q] = run[q],
           UNCHANGED <<edit, rushed, restarts>>,
           kept' = [kept EXCEPT ![r] = None] \/ kept' = kept,
           RunShape',
           \/ project' = project
           \/ \E s \in {"mapping_review", "aligning"} :
                Exists /\ project' = [project EXCEPT !.status = s],
           delivery' \in Heard \cup {None},
           ~rushed => RenderFor(r)'
    PROVE  IInv'
<1>1. /\ project' \in Project /\ Exists' = Exists
      /\ project'.script = project.script /\ project'.timeline = project.timeline
      /\ project'.artifact = project.artifact /\ project'.revision = project.revision
      /\ project'.stale = project.stale /\ project'.report = project.report
      /\ project'.voice = project.voice
      /\ project'.status = project.status \/ project'.status # "completed"
  BY DEF IInv, Types, Project, Exists, Phase
<1>2. kept \in [Runs -> Kept \cup {None}] /\ kept' \in [Runs -> Kept \cup {None}]
  BY DEF IInv, Types
<1>3. \A q \in Runs : kept'[q] # None => kept'[q] = kept[q]
  BY <1>2
<1>4. Types'
  BY <1>1, <1>2 DEF IInv, Types, RunRec, Pcs, RunStatus
<1>5. KeptShape'
  BY <1>3 DEF IInv, KeptShape
<1>6. Alone'
  <2>1. \A q \in Runs : Engaged(q)' => Engaged(q)
    BY DEF Engaged, Active
  <2>2. \A e \in Editors : Editing(e)' = Editing(e)
    BY DEF Editing
  <2> QED BY <2>1, <2>2 DEF IInv, Alone
<1>7. TimelineFitsAudio'
  BY <1>1 DEF IInv, TimelineFitsAudio
<1>8. KeptIsCurrent'
  BY <1>1, <1>3 DEF IInv, KeptIsCurrent
<1>9. RenderIsCurrent'
  <2> SUFFICES ASSUME ~rushed, NEW q \in Runs \ {r} PROVE RenderFor(q)'
    BY DEF RenderIsCurrent
  <2>1. run'[q].pc \in {"new", "over"}
    BY OnlyOne DEF IInv, Engaged
  <2> QED BY <2>1 DEF RenderFor
<1>10. NumberShape' /\ OldAudioIsStale'
  BY <1>1 DEF IInv, NumberShape, OldAudioIsStale, SaysTheScript, LastRevision
<1> QED BY <1>4, <1>5, <1>6, <1>7, <1>8, <1>9, <1>10 DEF IInv

-----------------------------------------------------------------------------
(* The steps of a thread that only move on. *)

\* One run gets another pc or status: what is left to show of RunShape.
LEMMA ShapeStep ==
    ASSUME IInv, NEW r \in Runs,
           \A q \in Runs \ {r} : run'[q] = run[q] /\ kept'[q] = kept[q],
           Exists' = Exists,
           run'[r].pc = "new" => run'[r].status = "none",
           run'[r].pc \in Working \ {"queued", "reconciled"} => run'[r].status = "running",
           run'[r].pc = "queued" => run'[r].status = "queued",
           run'[r].pc = "reconciled" => run'[r].status = "succeeded",
           run'[r].pc \in Working \ {"queued", "failing"} => Exists,
           kept'[r] # None <=> run'[r].pc \in Rewriting
    PROVE  RunShape'
BY DEF IInv, RunShape

\* A step from one of the stages without a copy, in a living project, to another.
LEMMA StageStep ==
    ASSUME IInv, NEW r \in Runs, NEW x \in Pcs, To(r, x),
           run[r].status = "running", Exists,
           run[r].pc \in Working \ Rewriting,
           x \in Working \ (Rewriting \cup {"queued", "reconciled"}),
           UNCHANGED <<kept, edit, rushed, restarts>>,
           \/ project' = project
           \/ \E s \in {"mapping_review", "aligning"} : project' = [project EXCEPT !.status = s],
           delivery' \in Heard \cup {None},
           ~rushed => RenderFor(r)'
    PROVE  IInv'
<1>1. /\ run' \in [Runs -> RunRec]
      /\ run'[r] = [kind |-> run[r].kind, pc |-> x, status |-> run[r].status,
                    heard |-> run[r].heard, rev |-> run[r].rev]
      /\ \A q \in Runs \ {r} : run'[q] = run[q]
  BY ToFacts, RunType
<1>2. Exists'
  BY DEF Exists, IInv, Types, Project
<1>3. kept[r] = None
  BY DEF IInv, RunShape
<1>4. RunShape'
  <2>1. x \in Working /\ x \notin Rewriting \cup {"queued", "reconciled"} /\ x # "new"
    BY DEF Working, Rendering
  <2>2. kept' = kept /\ Exists' = Exists
    BY <1>2
  <2> QED BY <1>1, <1>3, <2>1, <2>2, ShapeStep
<1>5. Engaged(r)
  BY AtWork
<1> QED BY <1>1, <1>4, <1>5, MoveStep

LEMMA BeginStep ==
    ASSUME IInv, NEW r \in Runs, Begin(r)
    PROVE  IInv'
<1> DEFINE x == IF Exists THEN First(run[r].kind) ELSE "failing"
<1>1. /\ run[r].pc = "queued" /\ Update(r, "running", x)
      /\ run[r].kind \in {"pipeline", "realign", "reconcile", "render"}
      /\ UNCHANGED <<project, kept, delivery, edit, rushed, restarts>>
  BY DEF Begin
<1>2. /\ x \in {"mapping", "reconciling", "rendering", "failing"} /\ (x = "failing" <=> ~Exists)
  BY <1>1 DEF First
<1> HIDE DEF x
<1>3. x \in Pcs /\ "running" \in RunStatus
  BY <1>2 DEF Pcs, Working, Rendering, RunStatus
<1>4. /\ run' \in [Runs -> RunRec]
      /\ run'[r] = [kind |-> run[r].kind, pc |-> x, status |-> "running",
                    heard |-> run[r].heard, rev |-> run[r].rev]
      /\ \A q \in Runs \ {r} : run'[q] = run[q]
  BY <1>1, <1>3, UpdateFacts, RunType
<1>5. kept[r] = None
  BY <1>1 DEF IInv, RunShape, Rewriting
<1>6. Exists' = Exists
  BY <1>1 DEF Exists
<1>7. RunShape'
  BY <1>1, <1>2, <1>4, <1>5, <1>6, ShapeStep DEF Rewriting
<1>8. Engaged(r) /\ delivery' \in Heard \cup {None}
  BY <1>1, AtWork DEF Working, IInv, Types
<1>9. RenderFor(r)'
  BY <1>2, <1>4 DEF RenderFor
<1> QED BY <1>1, <1>4, <1>7, <1>8, <1>9, MoveStep

LEMMA MapStep ==
    ASSUME IInv, NEW r \in Runs, Map(r) \/ Transcribe(r)
    PROVE  IInv'
<1>1. PICK x \in {"transcribing", "reconciling"} : To(r, x)
  BY DEF Map, Transcribe
<1>2. /\ run[r].pc \in {"mapping", "transcribing"}
      /\ UNCHANGED <<kept, delivery, edit, rushed, restarts>>
      /\ \/ project' = project
         \/ \E s \in {"mapping_review", "aligning"} : project' = [project EXCEPT !.status = s]
  BY DEF Map, Transcribe, Stage
<1>3. run[r].status = "running" /\ Exists /\ delivery \in Heard \cup {None}
  BY <1>2 DEF IInv, RunShape, Types, Working
<1>4. x \in Pcs /\ x \in Working \ (Rewriting \cup {"queued", "reconciled"})
  BY DEF Pcs, Working, Rewriting
<1>5. run[r].pc \in Working \ Rewriting
  BY <1>2 DEF Working, Rewriting
<1>6. RenderFor(r)'
  <2>1. run'[r].pc = x
    BY <1>1, RunType DEF To
  <2> QED BY <2>1 DEF RenderFor
<1> QED BY <1>1, <1>2, <1>3, <1>4, <1>5, <1>6, StageStep

LEMMA FailsStep ==
    ASSUME IInv, NEW r \in Runs, Fails(r)
    PROVE  IInv'
<1>1. /\ To(r, "failing") /\ run[r].pc \in {"mapping", "transcribing", "reconciling"} \cup Rendering
      /\ UNCHANGED <<project, kept, delivery, edit, rushed, restarts>>
  BY DEF Fails
<1>2. run[r].status = "running" /\ Exists /\ delivery \in Heard \cup {None}
  BY <1>1 DEF IInv, RunShape, Types, Working, Rendering
<1>3. "failing" \in Pcs /\ "failing" \in Working \ (Rewriting \cup {"queued", "reconciled"})
  BY DEF Pcs, Working, Rewriting
<1>4. run[r].pc \in Working \ Rewriting
  BY <1>1 DEF Working, Rewriting, Rendering
<1>5. RenderFor(r)'
  <2>1. run'[r].pc = "failing"
    BY <1>1, RunType DEF To
  <2> QED BY <2>1 DEF RenderFor
<1> QED BY <1>1, <1>2, <1>3, <1>4, <1>5, StageStep

LEMMA EnqueueStep ==
    ASSUME IInv, NEW r \in Runs, Enqueue(r)
    PROVE  IInv'
<1>1. /\ run[r].pc = "looked" /\ Update(r, "queued", "queued")
      /\ UNCHANGED <<project, kept, delivery, edit, rushed, restarts>>
  BY DEF Enqueue
<1>2. /\ run' \in [Runs -> RunRec]
      /\ run'[r].pc = "queued" /\ run'[r].status = "queued"
      /\ \A q \in Runs \ {r} : run'[q] = run[q]
  <2>1. "queued" \in Pcs /\ "queued" \in RunStatus
    BY DEF Pcs, Working, RunStatus
  <2> QED BY <1>1, <2>1, RunType DEF Update, RunRec
<1>3. kept[r] = None /\ kept' = kept /\ Exists' = Exists
  BY <1>1 DEF IInv, RunShape, Rewriting, Exists
<1>4. RunShape'
  BY <1>2, <1>3, ShapeStep DEF Rewriting
<1>5. Engaged(r) /\ delivery' \in Heard \cup {None}
  BY <1>1, AtWork DEF IInv, Types
<1>6. RenderFor(r)'
  BY <1>2 DEF RenderFor
<1> QED BY <1>1, <1>2, <1>3, <1>4, <1>5, <1>6, MoveStep

\* The ends of a thread that the store is not told of.
LEMMA SilentStep ==
    ASSUME IInv, NEW r \in Runs, Stillborn(r) \/ DetectFails(r)
    PROVE  IInv'
<1>1. PICK x \in {"failing", "over"} : To(r, x) /\ (x = "failing" => DetectFails(r))
  BY DEF Stillborn, DetectFails
<1>2. /\ UNCHANGED <<project, delivery, edit, rushed, restarts>>
      /\ kept' = [kept EXCEPT ![r] = None] \/ kept' = kept
      /\ run[r].pc \in {"queued", "detecting"}
      /\ x = "failing" => run[r].pc = "detecting"
  BY <1>1 DEF Stillborn, DetectFails, Forget
<1>3. x \in Pcs
  BY DEF Pcs, Working
<1>4. /\ run' \in [Runs -> RunRec]
      /\ run'[r].pc = x /\ run'[r].status = run[r].status
      /\ \A q \in Runs \ {r} : run'[q] = run[q]
  BY <1>1, <1>3, RunType DEF To, RunRec
<1>5. kept \in [Runs -> Kept \cup {None}] /\ (run[r].pc = "queued" => kept[r] = None)
  BY DEF IInv, Types, RunShape, Rewriting
<1>6. kept'[r] = None /\ \A q \in Runs \ {r} : kept'[q] = kept[q]
  <2>1. CASE DetectFails(r)
    BY <1>5, <2>1 DEF DetectFails, Forget
  <2>2. CASE Stillborn(r)
    BY <1>5, <2>2 DEF Stillborn
  <2> QED BY <2>1, <2>2
<1>7. run[r].pc = "detecting" => run[r].status = "running"
  BY DEF IInv, RunShape, Working
<1>8. Exists' = Exists
  BY <1>2 DEF Exists
<1>9. RunShape'
  BY <1>2, <1>4, <1>6, <1>7, <1>8, ShapeStep DEF Rewriting, Working, Rendering
<1>10. Engaged(r) /\ delivery' \in Heard \cup {None}
  BY <1>2, AtWork DEF Working, IInv, Types
<1>11. RenderFor(r)'
  BY <1>4 DEF RenderFor
<1> QED BY <1>2, <1>4, <1>9, <1>10, <1>11, MoveStep

LEMMA DetectStep ==
    ASSUME IInv, NEW r \in Runs, Detect(r)
    PROVE  IInv'
<1>1. /\ run[r].pc = "detecting" /\ To(r, "writing")
      /\ UNCHANGED <<project, kept, delivery, edit, rushed, restarts>>
  BY DEF Detect
<1>2. /\ run' \in [Runs -> RunRec]
      /\ run'[r].pc = "writing" /\ run'[r].status = run[r].status
      /\ \A q \in Runs \ {r} : run'[q] = run[q]
  <2>1. "writing" \in Pcs
    BY DEF Pcs, Working
  <2> QED BY <1>1, <2>1, RunType DEF To, RunRec
<1>3. kept[r] # None /\ run[r].status = "running" /\ Exists
  BY <1>1 DEF IInv, RunShape, Rewriting, Working
<1>4. kept' = kept /\ Exists' = Exists
  BY <1>1 DEF Exists
<1>5. RunShape'
  BY <1>2, <1>3, <1>4, ShapeStep DEF Rewriting
<1>6. Engaged(r) /\ delivery' \in Heard \cup {None}
  BY <1>1, AtWork DEF Working, IInv, Types
<1>7. RenderFor(r)'
  BY <1>2 DEF RenderFor
<1> QED BY <1>1, <1>2, <1>4, <1>5, <1>6, <1>7, MoveStep

LEMMA EncodeStep ==
    ASSUME IInv, NEW r \in Runs, Encode(r)
    PROVE  IInv'
<1>1. /\ run[r].pc = "encoding" /\ delivery' = run[r].heard
      /\ run' = [run EXCEPT ![r].heard = None, ![r].pc = "numbering"]
      /\ UNCHANGED <<project, kept, edit, rushed, restarts>>
  BY DEF Encode
<1>2. /\ run' \in [Runs -> RunRec]
      /\ run'[r].pc = "numbering" /\ run'[r].status = run[r].status
      /\ \A q \in Runs \ {r} : run'[q] = run[q]
  BY <1>1, RunType DEF RunRec, Pcs, Working, Rendering
<1>3. run[r].status = "running" /\ Exists /\ run[r].heard \in Heard \cup {None}
  BY <1>1, RunType DEF IInv, RunShape, Working, Rendering, RunRec
<1>4. kept[r] = None /\ kept' = kept /\ Exists' = Exists
  BY <1>1 DEF IInv, RunShape, Rewriting, Exists
<1>5. RunShape'
  BY <1>2, <1>3, <1>4, ShapeStep DEF Rewriting
<1>6. Engaged(r)
  BY <1>1, AtWork DEF Working, Rendering
<1>7. ~rushed => RenderFor(r)'
  <2>1. ~rushed => SaysTheScript(run[r].heard)
    BY <1>1 DEF IInv, RenderIsCurrent, RenderFor
  <2> QED BY <1>1, <1>2, <2>1 DEF RenderFor, SaysTheScript
<1> QED BY <1>1, <1>2, <1>3, <1>4, <1>5, <1>6, <1>7, MoveStep

\* What a render keeps in its locals.
LEMMA LocalsStep ==
    ASSUME IInv, NEW r \in Runs, Speak(r) \/ Number(r)
    PROVE  IInv'
<1>1. run[r].pc \in Rendering /\ UNCHANGED <<project, kept, delivery, edit, rushed, restarts>>
  BY DEF Speak, Number, Rendering
<1>2. run[r].status = "running" /\ Exists
  BY <1>1 DEF IInv, RunShape, Working, Rendering
<1>3. /\ project.script \in Script \cup {None} /\ project.voice \in BoundVoice /\ delivery \in Heard \cup {None}
      /\ LastRevision \in Nat
      /\ project.artifact # None => project.artifact.rev \in Nat
  BY DEF IInv, Types, Project, Artifact, Revision, LastRevision, Higher
<1>4. /\ run' \in [Runs -> RunRec]
      /\ run'[r].pc \in {"encoding", "publishing"} /\ run'[r].status = run[r].status
      /\ \A q \in Runs \ {r} : run'[q] = run[q]
  <2>1. CASE Speak(r)
    <3>1. PICK h \in Heard : h = [script |-> project.script, voice |-> project.voice]
      BY <1>3 DEF Heard
    <3>2. run' = [run EXCEPT ![r].heard = h, ![r].pc = "encoding"]
      BY <2>1, <3>1 DEF Speak
    <3> QED BY <3>2, RunType DEF RunRec, Pcs, Working, Rendering
  <2>2. CASE Number(r)
    <3>1. run' = [run EXCEPT ![r].rev = LastRevision + 1, ![r].heard = delivery,
                             ![r].pc = "publishing"]
      BY <2>2 DEF Number
    <3>2. PICK n \in Revision : n = LastRevision + 1
      BY <1>3 DEF Revision
    <3>3. run' = [run EXCEPT ![r].rev = n, ![r].heard = delivery, ![r].pc = "publishing"]
      BY <3>1, <3>2
    <3>4. "publishing" \in Pcs
      BY DEF Pcs, Working, Rendering
    <3> QED BY <1>3, <3>3, <3>4, RunType DEF RunRec
  <2> QED BY <2>1, <2>2
<1>5. kept[r] = None /\ kept' = kept /\ Exists' = Exists
  BY <1>1 DEF IInv, RunShape, Rewriting, Rendering, Exists
<1>6. RunShape'
  BY <1>2, <1>4, <1>5, ShapeStep DEF Rewriting
<1>7. Engaged(r)
  BY <1>1, AtWork DEF Working
<1>8. ~rushed => RenderFor(r)'
  <2>1. CASE Speak(r)
    <3>1. /\ run'[r].pc = "encoding"
          /\ run'[r].heard = [script |-> project.script, voice |-> project.voice]
      BY <2>1, RunType DEF Speak
    <3> QED BY <1>1, <3>1 DEF RenderFor, SaysTheScript
  <2>2. CASE Number(r)
    <3>1. /\ run'[r].pc = "publishing" /\ run'[r].heard = delivery
          /\ run'[r].rev = LastRevision + 1
      BY <2>2, RunType DEF Number
    <3>2. ~rushed => SaysTheScript(delivery)
      BY <2>2 DEF Number, IInv, RenderIsCurrent, RenderFor
    <3>3. ~rushed /\ project.artifact # None => project.artifact.rev < LastRevision + 1
      BY <1>3 DEF IInv, NumberShape
    <3> QED BY <1>1, <3>1, <3>2, <3>3 DEF RenderFor, SaysTheScript
  <2> QED BY <2>1, <2>2
<1> QED BY <1>1, <1>3, <1>4, <1>5, <1>6, <1>7, <1>8, MoveStep

LEMMA EndStep ==
    ASSUME IInv, NEW r \in Runs, End(r)
    PROVE  IInv'
<1>1. run[r].pc \in {"succeeding", "failing"}
      /\ UNCHANGED <<project, kept, delivery, edit, rushed, restarts>>
  BY DEF End
<1>2. /\ run' \in [Runs -> RunRec]
      /\ run'[r].pc = "over" /\ \A q \in Runs \ {r} : run'[q] = run[q]
  <2>1. PICK st \in {"succeeded", "failed"} : run' = [run EXCEPT ![r] = Over(run[r], st)]
    BY DEF End
  <2>2. Over(run[r], st) \in RunRec
    BY RunType DEF Over, RunRec, Pcs, RunStatus, Revision
  <2> QED BY <2>1, <2>2, RunType DEF Over
<1>3. kept[r] = None /\ kept' = kept /\ Exists' = Exists
  BY <1>1 DEF IInv, RunShape, Rewriting, Exists
<1>4. RunShape'
  BY <1>2, <1>3, ShapeStep DEF Rewriting, Working, Rendering
<1>5. Engaged(r) /\ delivery' \in Heard \cup {None}
  BY <1>1, AtWork DEF Working, IInv, Types
<1>6. RenderFor(r)'
  BY <1>2 DEF RenderFor
<1> QED BY <1>1, <1>2, <1>3, <1>4, <1>5, <1>6, MoveStep

-----------------------------------------------------------------------------
(* Requests. *)

\* A request that is let through and does not come in between finds nobody at work.
LEMMA Quiet ==
    ASSUME IInv, Rush, ~rushed', ~Busy
    PROVE  /\ ~rushed
           /\ \A r \in Runs : ~Engaged(r)
           /\ \A e \in Editors : ~Editing(e)
<1>1. /\ ~rushed /\ \A r \in Runs : run[r].pc \notin {"looked", "reconciled"}
      /\ \A e \in Editors : ~Editing(e)
  BY DEF Rush, Editing
<1>2. ASSUME NEW r \in Runs PROVE ~Engaged(r)
  <2>1. run[r].pc \in Pcs /\ ~Active(r)
    BY RunType DEF RunRec, Busy
  <2>2. run[r].pc \in {"queued"} \cup (Working \ {"queued", "reconciled"}) => Active(r)
    BY DEF IInv, RunShape, Active
  <2> QED BY <1>1, <2>1, <2>2 DEF Engaged, Pcs, Working
<1> QED BY <1>1, <1>2

\* Requests leave what they look at as it is.
LEMMA RequestStep ==
    ASSUME IInv, NEW r \in Runs, run[r].pc = "new", Rush,
           run' \in [Runs -> RunRec], \A q \in Runs \ {r} : run'[q] = run[q],
           \/ run'[r].pc = "over" /\ run'[r].status = "none"
           \/ ~Busy /\ run'[r].pc = "looked"
           \/ ~Busy /\ run'[r].pc = "queued" /\ run'[r].status = "queued",
           UNCHANGED <<project, kept, delivery, edit, restarts>>
    PROVE  IInv'
<1>1. /\ kept[r] = None /\ kept' = kept /\ Exists' = Exists
      /\ run[r].status = "none" /\ ~Engaged(r)
  BY DEF IInv, RunShape, Rewriting, Exists, Engaged, Active
<1>2. RunShape'
  BY <1>1, ShapeStep DEF Rewriting, Working, Rendering
<1>3. rushed' \in BOOLEAN /\ (rushed => rushed')
  BY DEF Rush, IInv, Types
<1>4. Types'
  BY <1>3 DEF IInv, Types, RunRec, Pcs, RunStatus
<1>5. KeptShape' /\ TimelineFitsAudio' /\ KeptIsCurrent' /\ NumberShape' /\ OldAudioIsStale'
  BY <1>1, <1>3 DEF IInv, KeptShape, TimelineFitsAudio, KeptIsCurrent, NumberShape, LastRevision,
                    OldAudioIsStale, SaysTheScript
<1>6. \A q \in Runs \ {r} : Engaged(q)' = Engaged(q) /\ RenderFor(q)' = RenderFor(q)
  BY DEF Engaged, Active, RenderFor, SaysTheScript
<1>7. \A e \in Editors : Editing(e)' = Editing(e)
  BY DEF Editing
<1>8. Alone'
  <2>1. CASE run'[r].pc = "over" /\ run'[r].status = "none"
    <3>1. ~Engaged(r)'
      BY <2>1 DEF Engaged, Active
    <3> QED BY <1>3, <1>6, <1>7, <3>1 DEF IInv, Alone
  <2>2. CASE ~Busy
    <3>1. ~rushed' => /\ \A q \in Runs \ {r} : ~Engaged(q)'
                      /\ \A e \in Editors : ~Editing(e)'
      BY <1>6, <1>7, <2>2, Quiet
    <3> QED BY <3>1 DEF Alone
  <2> QED BY <2>1, <2>2
<1>9. RenderIsCurrent'
  BY <1>3, <1>6 DEF IInv, RenderIsCurrent, RenderFor, SaysTheScript
<1> QED BY <1>2, <1>4, <1>5, <1>8, <1>9 DEF IInv

LEMMA LookStep ==
    ASSUME IInv, NEW r \in Runs, Look(r) \/ Rerender(r)
    PROVE  IInv'
<1>1. /\ run[r].pc = "new" /\ Rush
      /\ UNCHANGED <<project, kept, delivery, edit, restarts>>
  BY DEF Look, Rerender
<1>2. run[r].status = "none"
  BY <1>1 DEF IInv, RunShape
<1>3. /\ {"over", "looked", "queued"} \subseteq Pcs /\ "queued" \in RunStatus
  BY DEF Pcs, Working, RunStatus
<1>4. /\ run' \in [Runs -> RunRec] /\ \A q \in Runs \ {r} : run'[q] = run[q]
      /\ \/ run'[r].pc = "over" /\ run'[r].status = "none"
         \/ ~Busy /\ run'[r].pc = "looked"
         \/ ~Busy /\ run'[r].pc = "queued" /\ run'[r].status = "queued"
  <2>1. CASE To(r, "over")
    BY <1>2, <1>3, <2>1, RunType DEF To, RunRec
  <2>2. CASE ~Busy /\ To(r, "looked")
    BY <1>3, <2>2, RunType DEF To, RunRec
  <2>3. CASE ~Busy /\ Update(r, "queued", "queued")
    BY <1>3, <2>3, RunType DEF Update, RunRec
  <2> QED BY <2>1, <2>2, <2>3 DEF Look, Rerender
<1> QED BY <1>1, <1>4, RequestStep

LEMMA LookEditStep ==
    ASSUME IInv, NEW e \in Editors, LookEdit(e)
    PROVE  IInv'
<1>1. /\ ~Busy /\ Rush /\ edit' = [edit EXCEPT ![e] = "looked"]
      /\ UNCHANGED <<project, run, kept, delivery, restarts>>
  BY DEF LookEdit
<1>2. rushed' \in BOOLEAN /\ (rushed => rushed')
  BY <1>1 DEF Rush, IInv, Types
<1>3. edit' \in [Editors -> {"new", "looked", "orphaned", "over"}]
      /\ \A f \in Editors \ {e} : edit'[f] = edit[f]
  BY <1>1 DEF IInv, Types
<1>4. Types'
  BY <1>1, <1>2, <1>3 DEF IInv, Types
<1>5. /\ RunShape' /\ KeptShape' /\ TimelineFitsAudio' /\ KeptIsCurrent' /\ RenderIsCurrent'
      /\ NumberShape' /\ OldAudioIsStale'
  BY <1>1, <1>2 DEF IInv, RunShape, KeptShape, TimelineFitsAudio, KeptIsCurrent, RenderIsCurrent,
     RenderFor, NumberShape, LastRevision, OldAudioIsStale, SaysTheScript, Exists
<1>6. Alone'
  <2>1. ~rushed' => /\ \A r \in Runs : ~Engaged(r)'
                    /\ \A f \in Editors \ {e} : ~Editing(f)'
    BY <1>1, <1>3, Quiet DEF Engaged, Active, Editing
  <2> QED BY <2>1 DEF Alone
<1> QED BY <1>4, <1>5, <1>6 DEF IInv

-----------------------------------------------------------------------------
(* Changes of the project by requests. *)

\* Changed keeps a project a project, and its last revision.
LEMMA ChangedFacts ==
    ASSUME IInv, NEW sc \in Script \cup {None}, NEW vo \in BoundVoice
    PROVE  /\ Changed(project, sc, vo) \in Project
           /\ Changed(project, sc, vo).script = sc /\ Changed(project, sc, vo).voice = vo
           /\ Changed(project, sc, vo).status = "script_review"
           /\ Changed(project, sc, vo).timeline = None
           /\ Changed(project, sc, vo).report = None
           /\ Changed(project, sc, vo).artifact = project.artifact
           /\ Changed(project, sc, vo).revision = LastRevision
           /\ Changed(project, sc, vo).stale = (project.artifact # None)
<1>1. /\ project.artifact \in Artifact \cup {None} /\ LastRevision \in Revision
      /\ "script_review" \in Phase /\ (project.artifact # None) \in BOOLEAN
  BY DEF IInv, Types, Project, Revision, LastRevision, Higher, Phase
<1> QED BY <1>1 DEF Changed, Project

\* Where no run has a copy or a render under way in a behaviour nobody rushed.
LEMMA NobodyAtWork ==
    ASSUME IInv, ~rushed, \A r \in Runs : ~Engaged(r)
    PROVE  \A r \in Runs : kept[r] = None /\ RenderFor(r)
<1>1. \A r \in Runs : run[r].pc \in {"new", "over"}
  BY DEF Engaged
<1> QED BY <1>1 DEF IInv, RunShape, Rewriting, RenderFor

LEMMA WriteEditStep ==
    ASSUME IInv, NEW e \in Editors, WriteEdit(e) \/ WriteVoice(e)
    PROVE  IInv'
<1>1. PICK sc \in Script \cup {None}, vo \in BoundVoice : project' = Changed(project, sc, vo)
  <2>1. project.script \in Script \cup {None} /\ project.voice \in BoundVoice /\ e \in BoundVoice
    BY DEF IInv, Types, Project, BoundVoice
  <2>2. CASE WriteEdit(e)
    <3>1. /\ project.script \in Script
          /\ [project.script EXCEPT !.edits = @ \cup {e}] \in Script
      BY <2>2 DEF WriteEdit, IInv, Types, Project, Script
    <3> QED BY <2>1, <2>2, <3>1 DEF WriteEdit
  <2>3. CASE WriteVoice(e)
    BY <2>1, <2>3 DEF WriteVoice
  <2> QED BY <2>2, <2>3
<1>2. /\ Editing(e) /\ Exists /\ edit' = [edit EXCEPT ![e] = "over"]
      /\ UNCHANGED <<run, kept, delivery, rushed, restarts>>
  BY DEF WriteEdit, WriteVoice, Editing
<1>3. /\ project' \in Project /\ project'.status = "script_review" /\ project'.timeline = None
      /\ project'.report = None /\ project'.artifact = project.artifact
      /\ project'.revision = LastRevision /\ project'.stale = (project.artifact # None)
  BY <1>1, ChangedFacts
<1>4. /\ edit' \in [Editors -> {"new", "looked", "orphaned", "over"}]
      /\ \A f \in Editors : Editing(f)' => Editing(f)
  BY <1>2 DEF IInv, Types, Editing
<1>5. Types' /\ Exists'
  BY <1>2, <1>3, <1>4 DEF IInv, Types, Exists
<1>6. \A r \in Runs : Engaged(r)' = Engaged(r)
  BY <1>2 DEF Engaged, Active
<1>7. RunShape' /\ KeptShape' /\ TimelineFitsAudio'
  BY <1>2, <1>3, <1>5 DEF IInv, RunShape, KeptShape, TimelineFitsAudio
<1>8. Alone'
  BY <1>2, <1>4, <1>6 DEF IInv, Alone
<1>9. ~rushed => \A r \in Runs : ~Engaged(r)
  BY <1>2 DEF IInv, Alone
<1>10. KeptIsCurrent'
  BY <1>2, <1>9, NobodyAtWork DEF KeptIsCurrent
<1>11. RenderIsCurrent'
  BY <1>2, <1>9 DEF RenderIsCurrent, RenderFor, Engaged
<1>12. NumberShape' /\ OldAudioIsStale'
  BY <1>2, <1>3 DEF IInv, NumberShape, OldAudioIsStale, SaysTheScript, LastRevision
<1> QED BY <1>5, <1>7, <1>8, <1>10, <1>11, <1>12 DEF IInv

\* The requests that set the status or the report and touch nothing else of the project.
LEMMA LabelStep ==
    ASSUME IInv, UNCHANGED <<run, kept, delivery, rushed, restarts>>,
           edit' \in [Editors -> {"new", "looked", "orphaned", "over"}],
           \A f \in Editors : Editing(f)' => Editing(f),
           project' \in Project, Exists' = Exists,
           project'.script = project.script, project'.timeline = project.timeline,
           project'.artifact = project.artifact, project'.revision = project.revision,
           project'.stale = project.stale, project'.voice \in {project.voice, "rebound"},
           project'.status = "completed" => project.status = "completed",
           project'.report \in {project.report, project.timeline, None}
    PROVE  IInv'
<1>1. Types'
  BY DEF IInv, Types
<1>2. \A h : SaysTheScript(h) => SaysTheScript(h)'
  BY DEF SaysTheScript
<1>3. \A r \in Runs : Engaged(r)' = Engaged(r) /\ (RenderFor(r) => RenderFor(r)')
  BY <1>2 DEF Engaged, Active, RenderFor
<1>4. RunShape' /\ KeptShape' /\ TimelineFitsAudio'
  BY DEF IInv, RunShape, KeptShape, TimelineFitsAudio
<1>5. Alone' /\ RenderIsCurrent'
  BY <1>3 DEF IInv, Alone, RenderIsCurrent
<1>6. KeptIsCurrent' /\ NumberShape' /\ OldAudioIsStale'
  BY <1>2 DEF IInv, KeptIsCurrent, NumberShape, OldAudioIsStale, LastRevision
<1> QED BY <1>1, <1>4, <1>5, <1>6 DEF IInv

LEMMA ResetStep ==
    ASSUME IInv, Bind \/ \E e \in Editors : WriteReset(e)
    PROVE  IInv'
<1>1. project.voice \in BoundVoice /\ "rebound" \in BoundVoice
  BY DEF IInv, Types, Project, BoundVoice
<1>2. /\ UNCHANGED <<run, kept, delivery, rushed, restarts>>
      /\ \/ project' = project
         \/ /\ Exists
            /\ \E v \in {project.voice, "rebound"} :
                 project' = [project EXCEPT !.status = "series_ready", !.voice = v]
  <2>1. CASE Bind
    BY <2>1 DEF Bind
  <2>2. ASSUME NEW e \in Editors, WriteReset(e), Exists
        PROVE  project' = [project EXCEPT !.status = "series_ready", !.voice = project.voice]
    BY <2>2 DEF WriteReset, IInv, Types, Project
  <2> QED BY <2>1, <2>2 DEF WriteReset
<1>3. /\ edit' \in [Editors -> {"new", "looked", "orphaned", "over"}]
      /\ \A f \in Editors : Editing(f)' => Editing(f)
  BY DEF Bind, WriteReset, IInv, Types, Editing
<1>4. /\ project' \in Project /\ Exists' = Exists
      /\ project'.script = project.script /\ project'.timeline = project.timeline
      /\ project'.artifact = project.artifact /\ project'.revision = project.revision
      /\ project'.stale = project.stale /\ project'.voice \in {project.voice, "rebound"}
      /\ project'.status = "completed" => project.status = "completed"
      /\ project'.report = project.report
  <2>1. CASE project' = project
    BY <2>1 DEF IInv, Types, Exists
  <2>2. CASE /\ Exists
             /\ \E v \in {project.voice, "rebound"} :
                  project' = [project EXCEPT !.status = "series_ready", !.voice = v]
    <3>1. PICK v \in BoundVoice :
            /\ v \in {project.voice, "rebound"}
            /\ project' = [project EXCEPT !.status = "series_ready", !.voice = v]
      BY <1>1, <2>2
    <3>2. "series_ready" \in Phase /\ project \in Project
      BY DEF IInv, Types, Phase
    <3>3. project' \in Project
      BY <3>1, <3>2 DEF Project
    <3> QED BY <2>2, <3>1, <3>2, <3>3 DEF Project, Exists
  <2> QED BY <1>2, <2>1, <2>2
<1> QED BY <1>2, <1>3, <1>4, LabelStep

LEMMA AssessStep ==
    ASSUME IInv, Assess
    PROVE  IInv'
<1>1. /\ UNCHANGED <<run, kept, delivery, edit, rushed, restarts>>
      /\ \E x \in {project.timeline, None} : project' = [project EXCEPT !.report = x]
  BY DEF Assess
<1>2. /\ edit' \in [Editors -> {"new", "looked", "orphaned", "over"}]
      /\ \A f \in Editors : Editing(f)' => Editing(f)
  BY <1>1 DEF IInv, Types, Editing
<1>3. /\ project' \in Project /\ Exists' = Exists
      /\ project'.script = project.script /\ project'.timeline = project.timeline
      /\ project'.artifact = project.artifact /\ project'.revision = project.revision
      /\ project'.stale = project.stale /\ project'.status = project.status
      /\ project'.voice = project.voice /\ project'.report \in {project.timeline, None}
  BY <1>1 DEF IInv, Types, Exists, Project
<1> QED BY <1>1, <1>2, <1>3, LabelStep

LEMMA DeleteStep ==
    ASSUME IInv, Delete
    PROVE  IInv'
<1>1. /\ ~Busy /\ Rush /\ project' = [project EXCEPT !.status = "deleted"]
      /\ run' = [r \in Runs |-> IF run[r].status = "none" THEN run[r] ELSE Over(run[r], "gone")]
      /\ delivery' = None /\ UNCHANGED <<kept, edit, restarts>>
  BY DEF Delete
<1>2. \A r \in Runs : Over(run[r], "gone") \in RunRec
  BY RunType DEF Over, RunRec, Pcs, RunStatus, Revision
<1>3. run' \in [Runs -> RunRec]
  BY <1>1, <1>2, RunType
<1>4. \A r \in Runs : \/ run'[r] = run[r] /\ run[r].pc \in {"new", "looked", "over"}
                      \/ run'[r].pc = "over" /\ run'[r].status = "gone"
  <2> SUFFICES ASSUME NEW r \in Runs, run[r].status = "none"
               PROVE  run[r].pc \in {"new", "looked", "over"}
    BY <1>1 DEF Over
  <2>1. run[r].pc \in Pcs
    BY RunType DEF RunRec
  <2> QED BY <2>1 DEF IInv, RunShape, Pcs, Working
<1>5. \A r \in Runs : kept[r] = None
  BY <1>1 DEF IInv, RunShape, Busy, Active, Rewriting, Working
<1>6. /\ project' \in Project /\ ~Exists'
      /\ project'.timeline = project.timeline /\ project'.artifact = project.artifact
      /\ project'.revision = project.revision /\ project'.report = project.report
      /\ project'.status # "completed"
  BY <1>1 DEF IInv, Types, Project, Exists
<1>7. rushed' \in BOOLEAN /\ (rushed => rushed')
  BY <1>1 DEF Rush, IInv, Types
<1>8. Types'
  BY <1>1, <1>3, <1>6, <1>7 DEF IInv, Types, RunRec, Pcs, RunStatus
<1>9. RunShape'
  BY <1>1, <1>4, <1>5, <1>6 DEF IInv, RunShape, Rewriting, Working, Rendering
<1>10. KeptShape' /\ KeptIsCurrent'
  BY <1>1, <1>5 DEF KeptShape, KeptIsCurrent
<1>11. Alone' /\ RenderIsCurrent'
  <2>1. \A r \in Runs : Engaged(r)' => Engaged(r)
    BY <1>4 DEF Engaged, Active
  <2>2. \A e \in Editors : Editing(e)' = Editing(e)
    BY <1>1 DEF Editing
  <2> QED BY <1>4, <1>7, <2>1, <2>2 DEF IInv, Alone, RenderIsCurrent, RenderFor
<1>12. TimelineFitsAudio' /\ NumberShape' /\ OldAudioIsStale'
  BY <1>6, <1>7 DEF IInv, TimelineFitsAudio, NumberShape, OldAudioIsStale, SaysTheScript, LastRevision
<1> QED BY <1>8, <1>9, <1>10, <1>11, <1>12 DEF IInv

LEMMA RestartStep ==
    ASSUME IInv, Restart
    PROVE  IInv'
<1>1. /\ restarts' \in 0..MaxRestarts /\ kept' = [r \in Runs |-> None]
      /\ run' = [r \in Runs |->
                   IF run[r].pc = "new" THEN run[r]
                   ELSE Over(run[r], IF Active(r) THEN "failed" ELSE run[r].status)]
      /\ edit' = [e \in Editors |-> IF edit[e] = "new" THEN "new" ELSE "over"]
      /\ UNCHANGED <<project, delivery, rushed>>
  <2>1. restarts \in 0..MaxRestarts /\ MaxRestarts \in Nat
    BY RunsAssumption DEF IInv, Types
  <2> QED BY <2>1 DEF Restart
<1>2. \A r \in Runs : Over(run[r], IF Active(r) THEN "failed" ELSE run[r].status) \in RunRec
  BY RunType DEF Over, RunRec, Pcs, RunStatus, Revision
<1>3. run' \in [Runs -> RunRec]
  BY <1>1, <1>2, RunType
<1>4. \A r \in Runs : /\ run'[r].pc \in {"new", "over"} /\ ~Engaged(r)'
                      /\ run'[r].pc = "new" => run'[r].status = "none"
  <2> SUFFICES ASSUME NEW r \in Runs
               PROVE  /\ run'[r].pc \in {"new", "over"}
                      /\ run'[r].status \notin {"queued", "running"}
                      /\ run'[r].pc = "new" => run'[r].status = "none"
    BY DEF Engaged, Active
  <2>1. CASE run[r].pc = "new"
    BY <1>1, <2>1 DEF IInv, RunShape
  <2>2. CASE run[r].pc # "new"
    <3>1. run'[r] = Over(run[r], IF Active(r) THEN "failed" ELSE run[r].status)
      BY <1>1, <2>2
    <3> QED BY <3>1 DEF Over, Active
  <2> QED BY <2>1, <2>2
<1>5. \A e \in Editors : edit'[e] \in {"new", "over"}
  BY <1>1
<1>6. Types'
  BY <1>1, <1>3 DEF IInv, Types, RunRec, Pcs, RunStatus
<1>7. RunShape' /\ KeptShape' /\ KeptIsCurrent' /\ RenderIsCurrent'
  BY <1>1, <1>4 DEF RunShape, KeptShape, KeptIsCurrent, RenderIsCurrent, RenderFor, Rewriting,
                    Working, Rendering
<1>8. Alone'
  BY <1>4, <1>5 DEF Alone, Editing
<1>9. TimelineFitsAudio' /\ NumberShape' /\ OldAudioIsStale'
  BY <1>1 DEF IInv, TimelineFitsAudio, NumberShape, OldAudioIsStale, SaysTheScript, LastRevision, Exists
<1> QED BY <1>6, <1>7, <1>8, <1>9 DEF IInv

-----------------------------------------------------------------------------
(* The steps of a thread that change the script or what is kept of it. *)

\* A thread's step disturbs no other run and no edit.
LEMMA ThreadStep ==
    ASSUME IInv, NEW r \in Runs, Engaged(r),
           \A q \in Runs \ {r} : run'[q] = run[q] /\ kept'[q] = kept[q],
           rushed' = rushed, \A e \in Editors : Editing(e)' => Editing(e),
           Types', RunShape', KeptShape', TimelineFitsAudio', NumberShape', OldAudioIsStale',
           ~rushed /\ kept'[r] # None =>
               /\ kept'[r].script = project'.script
               /\ kept'[r].timeline = project'.timeline
               /\ kept'[r].artifact = project'.artifact,
           ~rushed => RenderFor(r)'
    PROVE  IInv'
<1>1. \A q \in Runs \ {r} : Engaged(q)' = Engaged(q)
  BY DEF Engaged, Active
<1>2. Alone'
  BY <1>1 DEF IInv, Alone
<1>3. ~rushed => \A q \in Runs \ {r} : run'[q].pc \in {"new", "over"} /\ kept'[q] = None
  BY OnlyOne DEF IInv, Engaged, RunShape, Rewriting
<1>4. KeptIsCurrent' /\ RenderIsCurrent'
  BY <1>3 DEF KeptIsCurrent, RenderIsCurrent, RenderFor
<1> QED BY <1>2, <1>4 DEF IInv

\* The edits after the list of cues was replaced.
LEMMA OrphansFacts ==
    ASSUME IInv, Orphans
    PROVE  /\ edit' \in [Editors -> {"new", "looked", "orphaned", "over"}]
           /\ \A e \in Editors : Editing(e)' => Editing(e)
BY DEF IInv, Types, Orphans, Editing

LEMMA ReconcileStep ==
    ASSUME IInv, NEW r \in Runs, Reconcile(r)
    PROVE  IInv'
<1> DEFINE x == IF run[r].kind = "reconcile" THEN "over" ELSE "reconciled"
<1>1. /\ run[r].pc = "reconciling" /\ Update(r, "succeeded", x) /\ Orphans
      /\ project' = [project EXCEPT !.report = None]
      /\ UNCHANGED <<kept, delivery, rushed, restarts>>
  BY DEF Reconcile
<1>2. x \in {"over", "reconciled"}
  OBVIOUS
<1> HIDE DEF x
<1>3. /\ run' \in [Runs -> RunRec]
      /\ run'[r].pc = x /\ run'[r].status = "succeeded"
      /\ \A q \in Runs \ {r} : run'[q] = run[q]
  <2>1. x \in Pcs /\ "succeeded" \in RunStatus
    BY <1>2 DEF Pcs, Working, RunStatus
  <2> QED BY <1>1, <2>1, RunType DEF Update, RunRec
<1>4. kept[r] = None /\ Exists /\ Engaged(r)
  BY <1>1, AtWork DEF IInv, RunShape, Rewriting, Working, Rendering
<1>5. /\ project' \in Project /\ Exists' = Exists /\ project'.report = None
      /\ project'.script = project.script /\ project'.timeline = project.timeline
      /\ project'.artifact = project.artifact /\ project'.revision = project.revision
      /\ project'.stale = project.stale /\ project'.status = project.status
      /\ project'.voice = project.voice
  BY <1>1 DEF IInv, Types, Project, Exists
<1>6. Types'
  BY <1>1, <1>3, <1>5, OrphansFacts DEF IInv, Types, RunRec, Pcs, RunStatus
<1>7. RunShape'
  BY <1>1, <1>2, <1>3, <1>4, <1>5, ShapeStep DEF Rewriting, Working, Rendering
<1>8. KeptShape' /\ TimelineFitsAudio' /\ NumberShape' /\ OldAudioIsStale'
  BY <1>1, <1>5 DEF IInv, KeptShape, TimelineFitsAudio, NumberShape, OldAudioIsStale, SaysTheScript, LastRevision
<1>9. RenderFor(r)'
  BY <1>2, <1>3 DEF RenderFor
<1> QED BY <1>1, <1>3, <1>4, <1>6, <1>7, <1>8, <1>9, OrphansFacts, ThreadStep

LEMMA StartRewriteStep ==
    ASSUME IInv, NEW r \in Runs, StartRewrite(r)
    PROVE  IInv'
<1> DEFINE copy == [status |-> project.status, script |-> project.script,
                    timeline |-> project.timeline, artifact |-> project.artifact]
<1>1. PICK x \in Rewriting : Update(r, "running", x)
  BY DEF StartRewrite, Rewriting
<1>2. /\ run[r].pc \in {"reconciled", "queued"} /\ Exists
      /\ kept' = [kept EXCEPT ![r] = copy]
      /\ UNCHANGED <<project, delivery, edit, rushed, restarts>>
  BY DEF StartRewrite
<1>3. copy \in Kept /\ copy # None
  BY <1>2, NoneAssumption DEF IInv, Types, Project, Kept, Exists
<1>4. /\ kept' \in [Runs -> Kept \cup {None}] /\ kept'[r] = copy
      /\ \A q \in Runs \ {r} : kept'[q] = kept[q]
  BY <1>2, <1>3 DEF IInv, Types
<1>5. /\ run' \in [Runs -> RunRec]
      /\ run'[r].pc = x /\ run'[r].status = "running"
      /\ \A q \in Runs \ {r} : run'[q] = run[q]
  <2>1. x \in Pcs /\ "running" \in RunStatus
    BY DEF Pcs, Working, RunStatus, Rewriting
  <2> QED BY <1>1, <2>1, RunType DEF Update, RunRec
<1>6. Engaged(r) /\ Exists' = Exists
  BY <1>2, AtWork DEF Working, Exists
<1>7. Types'
  BY <1>2, <1>4, <1>5 DEF IInv, Types, RunRec, Pcs, RunStatus
<1>8. RunShape'
  BY <1>2, <1>3, <1>4, <1>5, <1>6, ShapeStep DEF Rewriting
<1>9. KeptShape'
  BY <1>4 DEF IInv, KeptShape, TimelineFitsAudio
<1>10. TimelineFitsAudio' /\ NumberShape' /\ OldAudioIsStale'
  BY <1>2 DEF IInv, TimelineFitsAudio, NumberShape, OldAudioIsStale, SaysTheScript, LastRevision, Exists
<1>11. RenderFor(r)'
  BY <1>5 DEF RenderFor, Rewriting
<1>12. \A e \in Editors : Editing(e)' => Editing(e)
  BY <1>2 DEF Editing
<1> QED BY <1>2, <1>4, <1>5, <1>6, <1>7, <1>8, <1>9, <1>10, <1>11, <1>12, ThreadStep

(***************************************************************************)
(* A rewrite ends: the script is new or the copy is back, the copy is      *)
(* dropped, and edits under way lose their cues.                           *)
(***************************************************************************)
LEMMA RewriteEnds ==
    ASSUME IInv, NEW r \in Runs, run[r].pc = "writing", NEW x \in {"rendering", "failing"},
           To(r, x), Forget(r), Orphans, UNCHANGED <<delivery, rushed, restarts>>,
           project' \in Project, Exists',
           TimelineFitsAudio', NumberShape', OldAudioIsStale'
    PROVE  IInv'
<1>1. /\ run' \in [Runs -> RunRec]
      /\ run'[r].pc = x /\ run'[r].status = run[r].status
      /\ \A q \in Runs \ {r} : run'[q] = run[q]
  <2>1. x \in Pcs
    BY DEF Pcs, Working, Rendering
  <2> QED BY <2>1, RunType DEF To, RunRec
<1>2. /\ kept' \in [Runs -> Kept \cup {None}] /\ kept'[r] = None
      /\ \A q \in Runs \ {r} : kept'[q] = kept[q]
  BY DEF Forget, IInv, Types
<1>3. run[r].status = "running" /\ Exists /\ Engaged(r)
  BY AtWork DEF IInv, RunShape, Working
<1>4. Types'
  BY <1>1, <1>2, OrphansFacts DEF IInv, Types, RunRec, Pcs, RunStatus
<1>5. Exists' = Exists
  BY <1>3 DEF Exists
<1>6. RunShape'
  BY <1>1, <1>2, <1>3, <1>5, ShapeStep DEF Rewriting
<1>7. KeptShape'
  BY <1>2 DEF IInv, KeptShape
<1>8. RenderFor(r)'
  BY <1>1 DEF RenderFor
<1> QED BY <1>1, <1>2, <1>3, <1>4, <1>6, <1>7, <1>8, OrphansFacts, ThreadStep

LEMMA SaveScriptStep ==
    ASSUME IInv, NEW r \in Runs, SaveScript(r)
    PROVE  IInv'
<1>1. /\ run[r].pc = "writing" /\ To(r, "rendering") /\ Forget(r) /\ Orphans
      /\ project' = Changed(project, [by |-> r, edits |-> {}], project.voice)
      /\ UNCHANGED <<delivery, rushed, restarts>>
  BY DEF SaveScript
<1>2. [by |-> r, edits |-> {}] \in Script \cup {None} /\ project.voice \in BoundVoice
  BY DEF Script, IInv, Types, Project
<1>3. /\ project' \in Project /\ project'.status = "script_review" /\ project'.timeline = None
      /\ project'.report = None /\ project'.artifact = project.artifact
      /\ project'.revision = LastRevision /\ project'.stale = (project.artifact # None)
  BY <1>1, <1>2, ChangedFacts
<1>4. Exists' /\ TimelineFitsAudio' /\ NumberShape' /\ OldAudioIsStale'
  BY <1>1, <1>3 DEF Exists, IInv, TimelineFitsAudio, NumberShape, OldAudioIsStale, SaysTheScript, LastRevision
<1> QED BY <1>1, <1>3, <1>4, RewriteEnds

(***************************************************************************)
(* Back to the copy.  The revision is as high as before, the mark of the   *)
(* audio and its report are those of the project or of a changed one.      *)
(***************************************************************************)
LEMMA RestoreStep ==
    ASSUME IInv, NEW r \in Runs, run[r].pc = "writing",
           To(r, "failing"), Forget(r), Orphans, UNCHANGED <<delivery, rushed, restarts>>,
           NEW p \in Project, project' = Restored(p, kept[r]), p.voice = project.voice,
           p.revision = project.revision \/ p.revision = LastRevision,
           p.stale = project.stale \/ (p.stale = (project.artifact # None)),
           p.report \in {project.report, None}
    PROVE  IInv'
<1>1. kept[r] # None
  BY DEF IInv, RunShape, Rewriting
<1>2. kept[r] \in Kept
  BY <1>1 DEF IInv, Types
<1>3. /\ project'.status = kept[r].status /\ project'.script = kept[r].script
      /\ project'.timeline = kept[r].timeline /\ project'.artifact = kept[r].artifact
      /\ project'.revision = p.revision /\ project'.stale = p.stale /\ project'.report = p.report
      /\ project'.voice = project.voice
  BY DEF Restored
<1>4. project' \in Project /\ Exists'
  BY <1>2 DEF Restored, Project, Kept, Exists, Phase
<1>5. ~rushed => /\ project'.script = project.script /\ project'.timeline = project.timeline
                 /\ project'.artifact = project.artifact
  BY <1>1, <1>3 DEF IInv, KeptIsCurrent
<1>6. TimelineFitsAudio'
  BY <1>1, <1>3, <1>5 DEF IInv, KeptShape, TimelineFitsAudio
<1>7. NumberShape'
  <2> SUFFICES ASSUME ~rushed, project.artifact # None
               PROVE  project'.artifact.rev <= LastRevision'
    BY <1>5 DEF NumberShape
  <2>1. project.revision \in Nat /\ project.timeline \in Nat \cup {None}
    BY DEF IInv, Types, Project, Revision
  <2>2. LastRevision' = LastRevision
    BY <1>3, <1>5, <2>1, NoneAssumption DEF LastRevision, Higher, Revision
  <2> QED BY <1>5, <2>2 DEF IInv, NumberShape
<1>8. OldAudioIsStale'
  <2> SUFFICES ASSUME ~rushed, project.artifact # None, ~SaysTheScript(project.artifact.heard)
               PROVE  p.stale
    BY <1>3, <1>5 DEF OldAudioIsStale, SaysTheScript
  <2>1. Exists
    BY DEF IInv, RunShape, Working
  <2> QED BY <2>1 DEF IInv, OldAudioIsStale
<1> QED BY <1>4, <1>6, <1>7, <1>8, RewriteEnds

LEMMA WriteFailsStep ==
    ASSUME IInv, NEW r \in Runs, WriteFails(r)
    PROVE  IInv'
<1>1. project \in Project
  BY DEF IInv, Types
<1> QED BY <1>1, RestoreStep DEF WriteFails

LEMMA ReplanFailsStep ==
    ASSUME IInv, NEW r \in Runs, ReplanFails(r)
    PROVE  IInv'
<1> DEFINE p == Changed(project, project.script, project.voice)
<1>1. /\ run[r].pc = "writing" /\ To(r, "failing") /\ Forget(r) /\ Orphans
      /\ project' = Restored(p, kept[r]) /\ UNCHANGED <<delivery, rushed, restarts>>
  BY DEF ReplanFails
<1>2. project.script \in Script \cup {None} /\ project.voice \in BoundVoice
  BY DEF IInv, Types, Project
<1>3. /\ p \in Project /\ p.voice = project.voice /\ p.revision = LastRevision /\ p.stale = (project.artifact # None)
      /\ p.report = None
  BY <1>2, ChangedFacts
<1> HIDE DEF p
<1> QED BY <1>1, <1>3, RestoreStep

LEMMA PublishStep ==
    ASSUME IInv, NEW r \in Runs, Publish(r)
    PROVE  IInv'
<1>1. PICK x \in {"succeeding", "failing"} : To(r, x)
  BY DEF Publish
<1>2. /\ run[r].pc = "publishing" /\ UNCHANGED <<kept, delivery, edit, rushed, restarts>>
      /\ project' = [status |-> "completed", script |-> project.script, timeline |-> run[r].rev,
                     voice |-> project.voice,
                     artifact |-> [heard |-> run[r].heard, rev |-> run[r].rev],
                     revision |-> run[r].rev, stale |-> FALSE, report |-> run[r].rev]
  BY DEF Publish
<1>3. /\ run' \in [Runs -> RunRec]
      /\ run'[r].pc = x /\ run'[r].status = run[r].status
      /\ \A q \in Runs \ {r} : run'[q] = run[q]
  <2>1. x \in Pcs
    BY DEF Pcs, Working
  <2> QED BY <1>1, <2>1, RunType DEF To, RunRec
<1>4. run[r].status = "running" /\ Exists /\ Engaged(r) /\ kept[r] = None
  BY <1>2, AtWork DEF IInv, RunShape, Working, Rendering, Rewriting
<1>5. run[r].rev \in Revision /\ run[r].heard \in Heard \cup {None}
  BY RunType DEF RunRec
<1>6. [heard |-> run[r].heard, rev |-> run[r].rev] \in Artifact
  BY <1>5 DEF Artifact
<1>7. project' \in Project /\ Exists'
  BY <1>2, <1>5, <1>6 DEF IInv, Types, Project, Phase, Exists
<1>8. Types'
  BY <1>2, <1>3, <1>7 DEF IInv, Types, RunRec, Pcs, RunStatus
<1>9. Exists' = Exists
  BY <1>4, <1>7 DEF Exists
<1>10. RunShape'
  BY <1>2, <1>3, <1>4, <1>9, ShapeStep DEF Rewriting
<1>11. KeptShape'
  BY <1>2 DEF IInv, KeptShape
<1>12. /\ project'.timeline = run[r].rev /\ project'.revision = run[r].rev
       /\ project'.report = run[r].rev /\ project'.script = project.script
       /\ project'.voice = project.voice
       /\ project'.artifact = [heard |-> run[r].heard, rev |-> run[r].rev]
  BY <1>2
<1>13. project'.artifact # None /\ project'.timeline # None
  BY <1>5, <1>6, <1>12, NoneAssumption
<1>14. TimelineFitsAudio'
  BY <1>12, <1>13 DEF TimelineFitsAudio
<1>15. NumberShape'
  BY <1>5, <1>12 DEF NumberShape, LastRevision, Higher, Revision
<1>16. OldAudioIsStale'
  <2>1. ~rushed => SaysTheScript(run[r].heard)
    BY <1>2 DEF IInv, RenderIsCurrent, RenderFor
  <2> QED BY <1>2, <1>12, <2>1 DEF OldAudioIsStale, SaysTheScript
<1>17. RenderFor(r)'
  BY <1>3 DEF RenderFor
<1>18. \A e \in Editors : Editing(e)' => Editing(e)
  BY <1>2 DEF Editing
<1> QED BY <1>2, <1>3, <1>4, <1>8, <1>10, <1>11, <1>14, <1>15, <1>16, <1>17, <1>18, ThreadStep

-----------------------------------------------------------------------------
(* The invariant. *)

LEMMA InitIInv == Init => IInv
<1> SUFFICES ASSUME Init PROVE IInv
  OBVIOUS
<1>1. /\ kept = [r \in Runs |-> None] /\ delivery = None /\ rushed = FALSE /\ restarts = 0
      /\ edit = [e \in Editors |-> "new"]
  BY DEF Init
<1>2. /\ run \in [Runs -> RunRec]
      /\ \A r \in Runs : run[r].pc = "new" /\ run[r].status = "none"
  <2>1. \A k \in Kinds : [kind |-> k, pc |-> "new", status |-> "none", heard |-> None, rev |-> 0]
                           \in RunRec
    BY RunsAssumption DEF RunRec, Pcs, RunStatus, Revision
  <2> QED BY <2>1 DEF Init
<1>3. /\ project \in Project
      /\ project.timeline # None => project.artifact # None /\ project.artifact.rev = project.timeline
      /\ project.report # None => project.report = project.timeline
      /\ project.status = "completed" => project.timeline # None
      /\ project.artifact # None =>
           SaysTheScript(project.artifact.heard) /\ project.artifact.rev <= LastRevision
  <2>1. CASE project = [status |-> "series_ready", script |-> None, timeline |-> None,
                        voice |-> "bound", artifact |-> None, revision |-> 0, stale |-> FALSE, report |-> None]
    BY <2>1 DEF Project, Phase, Revision, BoundVoice
  <2>2. CASE project = [status |-> "completed", script |-> Book, timeline |-> 1,
                        voice |-> "bound", artifact |-> [heard |-> [script |-> Book, voice |-> "bound"], rev |-> 1],
                        revision |-> 0, stale |-> FALSE, report |-> 1]
    <3>1. [script |-> Book, voice |-> "bound"] \in Heard /\ Book \in Script /\ 1 \in Revision /\ 0 \in Revision
      BY DEF Book, Script, Revision, Heard, BoundVoice
    <3>2. [heard |-> [script |-> Book, voice |-> "bound"], rev |-> 1] \in Artifact
      BY <3>1 DEF Artifact
    <3>3. 1 # None
      BY <3>1, NoneAssumption
    <3> QED BY <2>2, <3>1, <3>2, <3>3, NoneAssumption DEF Project, Phase, LastRevision, Higher,
                BoundVoice, SaysTheScript
  <2> QED BY <2>1, <2>2 DEF Init
<1>4. Types
  <2>1. restarts \in 0..MaxRestarts
    <3>1. restarts = 0 /\ MaxRestarts \in Nat
      BY <1>1, RunsAssumption
    <3> QED BY <3>1
  <2>2. kept \in [Runs -> Kept \cup {None}] /\ delivery \in Heard \cup {None}
          /\ rushed \in BOOLEAN
    BY <1>1
  <2>3. edit \in [Editors -> {"new", "looked", "orphaned", "over"}]
    BY <1>1
  <2> QED BY <1>2, <1>3, <2>1, <2>2, <2>3 DEF Types, RunRec, Pcs, RunStatus
<1>5. RunShape /\ KeptShape /\ KeptIsCurrent
  BY <1>1, <1>2 DEF RunShape, KeptShape, KeptIsCurrent, Working, Rendering, Rewriting
<1>6. Alone /\ RenderIsCurrent
  BY <1>1, <1>2 DEF Alone, Engaged, Active, Editing, RenderIsCurrent, RenderFor
<1>7. TimelineFitsAudio /\ NumberShape /\ OldAudioIsStale
  BY <1>3 DEF TimelineFitsAudio, NumberShape, OldAudioIsStale
<1> QED BY <1>4, <1>5, <1>6, <1>7 DEF IInv

LEMMA NextIInv == IInv /\ [Next]_vars => IInv'
<1> SUFFICES ASSUME IInv, [Next]_vars PROVE IInv'
  OBVIOUS
<1>1. CASE UNCHANGED vars
  BY <1>1 DEF vars, IInv, Types, RunShape, KeptShape, Alone, Engaged, Active, Editing,
     TimelineFitsAudio, KeptIsCurrent, RenderIsCurrent, RenderFor, NumberShape, LastRevision,
     OldAudioIsStale, SaysTheScript, Exists
<1>2. ASSUME NEW r \in Runs, Look(r) \/ Enqueue(r) \/ Rerender(r) PROVE IInv'
  BY <1>2, LookStep, EnqueueStep
<1>3. ASSUME NEW r \in Runs, Thread(r) PROVE IInv'
  <2>1. CASE Begin(r) \/ Map(r) \/ Transcribe(r) \/ Reconcile(r)
    BY <2>1, BeginStep, MapStep, ReconcileStep
  <2>2. CASE StartRewrite(r) \/ Stillborn(r) \/ Detect(r) \/ DetectFails(r)
    BY <2>2, StartRewriteStep, SilentStep, DetectStep
  <2>3. CASE SaveScript(r) \/ ReplanFails(r) \/ WriteFails(r)
    BY <2>3, SaveScriptStep, ReplanFailsStep, WriteFailsStep
  <2>4. CASE Speak(r) \/ Encode(r) \/ Number(r) \/ Publish(r)
    BY <2>4, LocalsStep, EncodeStep, PublishStep
  <2>5. CASE Fails(r) \/ End(r)
    BY <2>5, FailsStep, EndStep
  <2> QED BY <1>3, <2>1, <2>2, <2>3, <2>4, <2>5 DEF Thread
<1>4. ASSUME NEW e \in Editors, LookEdit(e) \/ WriteEdit(e) \/ WriteVoice(e) \/ WriteReset(e)
      PROVE  IInv'
  BY <1>4, LookEditStep, WriteEditStep, ResetStep
<1>5. CASE Bind \/ Assess \/ Delete \/ Restart
  BY <1>5, ResetStep, AssessStep, DeleteStep, RestartStep
<1> QED BY <1>1, <1>2, <1>3, <1>4, <1>5 DEF Next

\* The conjunction of the four properties with what they need to be inductive.
THEOREM IInvHolds == Spec => []IInv
BY InitIInv, NextIInv, PTL DEF Spec

-----------------------------------------------------------------------------
(***************************************************************************)
(* A project's timeline is that of its audio, its quality report that of   *)
(* its timeline, and "completed" means rendered, whatever runs fail, are   *)
(* restarted or fall back to the script before them.                       *)
(***************************************************************************)
THEOREM TimelineAlwaysFits == Spec => []TimelineFitsAudio
<1>1. IInv => TimelineFitsAudio
  BY DEF IInv
<1> QED BY <1>1, IInvHolds, PTL

(***************************************************************************)
(* Audio in which another script or voice is heard than the project's is   *)
(* marked audio_stale, as long as no two requests were let through         *)
(* together; but nothing marks the voice of a series that is bound again.  *)
(***************************************************************************)
THEOREM OldAudioIsMarked == Spec => []OldAudioIsStale
<1>1. IInv => OldAudioIsStale
  BY DEF IInv
<1> QED BY <1>1, IInvHolds, PTL

\* Only a render brings other audio, and it does so under a higher number.
LEMMA AudioChange ==
    ASSUME IInv, [Next]_vars, ~rushed, project.artifact # None, project'.artifact # project.artifact
    PROVE  project'.artifact.rev > project.artifact.rev
<1> USE DEF IInv, Types
<1>1. CASE UNCHANGED vars
  BY <1>1 DEF vars
<1>2. ASSUME NEW r \in Runs, Publish(r) PROVE project'.artifact.rev > project.artifact.rev
  BY <1>2 DEF Publish, RenderIsCurrent, RenderFor
<1>3. ASSUME NEW r \in Runs, WriteFails(r) \/ ReplanFails(r)
      PROVE  project'.artifact = project.artifact
  <2>1. kept[r] # None
    BY <1>3 DEF WriteFails, ReplanFails, RunShape, Rewriting
  <2> QED BY <1>3, <2>1 DEF WriteFails, ReplanFails, Restored, KeptIsCurrent
<1>4. ASSUME NEW r \in Runs, SaveScript(r) PROVE project'.artifact = project.artifact
  BY <1>4 DEF SaveScript, Changed
<1>5. ASSUME NEW e \in Editors, WriteEdit(e) \/ WriteVoice(e) \/ WriteReset(e)
      PROVE  project'.artifact = project.artifact
  BY <1>5 DEF WriteEdit, WriteVoice, WriteReset, Changed, Project
<1>6. ASSUME NEW r \in Runs, Map(r) \/ Transcribe(r) \/ Reconcile(r)
      PROVE  project'.artifact = project.artifact
  BY <1>6 DEF Map, Transcribe, Reconcile, Stage, Project
<1>7. CASE Bind \/ Assess \/ Delete \/ Restart
  BY <1>7 DEF Bind, Assess, Delete, Restart, Project
<1>8. ASSUME NEW r \in Runs,
             \/ Look(r) \/ Enqueue(r) \/ Rerender(r) \/ Begin(r) \/ StartRewrite(r)
             \/ Stillborn(r) \/ Detect(r) \/ DetectFails(r)
             \/ Speak(r) \/ Encode(r) \/ Number(r) \/ Fails(r) \/ End(r)
      PROVE  project' = project
  BY <1>8 DEF Look, Enqueue, Rerender, Begin, StartRewrite, Stillborn, Detect, DetectFails, Speak,
     Encode, Number, Fails, End
<1>9. ASSUME NEW e \in Editors, LookEdit(e) PROVE project' = project
  BY <1>9 DEF LookEdit
<1> QED BY <1>1, <1>2, <1>3, <1>4, <1>5, <1>6, <1>7, <1>8, <1>9 DEF Next, Thread

(***************************************************************************)
(* The revision tells one render's audio from another's: it increases      *)
(* with every render, also over edits, failures and restarts, in which the *)
(* timeline that bore it is dropped or comes back.                         *)
(***************************************************************************)
THEOREM RevisionsIncrease == Spec => RevisionsTellAudioApart
<1>1. IInv /\ [Next]_vars =>
        [~rushed /\ project'.artifact # project.artifact /\ project.artifact # None =>
           project'.artifact.rev > project.artifact.rev]_vars
  BY AudioChange
<1> QED BY <1>1, IInvHolds, PTL DEF Spec, RevisionsTellAudioApart


-----------------------------------------------------------------------------
(* The timeline: the source is laid out piece by piece. *)

TrackPiece == {p \in [track : {"source", "narrator"}, cue : Nat, ep : Nat, from : Int, to : Int, start : Int] :
                 p.track = "source" => p.cue = 0}
Laying == [cursor : Int, time : Int, pieces : Seq(TrackPiece), reason : {"none", "pause", "cut"}]

\* The source of episode e on a timeline, and what of it is heard.
Stretches(ps, e) == {k \in 1..Len(ps) : ps[k].track = "source" /\ ps[k].ep = e}
HeardOf(ps, e) == {t \in Int : \E k \in Stretches(ps, e) : ps[k].from <= t /\ t < ps[k].to}
\* Its pieces are not empty, run forward and end by c.
Forward(ps, e, c) ==
    /\ \A k \in Stretches(ps, e) : ps[k].from < ps[k].to /\ ps[k].to <= c
    /\ \A j, k \in Stretches(ps, e) : j < k => ps[j].to <= ps[k].from
\* What is to be heard of the source before c, without the cuts of S.
Uncovered(S, c) == {t \in Int : 0 <= t /\ t < c /\ \A x \in S : ~Within(t, x)}
Plays(ps, e, c, S) == Forward(ps, e, c) /\ HeardOf(ps, e) = Uncovered(S, c)
\* The source of the other episodes is as it was.
OthersStay(ps, qs, e) == \A o, c, S : o # e /\ Plays(ps, o, c, S) => Plays(qs, o, c, S)

\* The entries of a timeline.
LEMMA PieceFields ==
    ASSUME NEW ps \in Seq(TrackPiece)
    PROVE  /\ Len(ps) \in Nat
           /\ \A k \in 1..Len(ps) : ps[k] \in TrackPiece /\ ps[k].from \in Int /\ ps[k].to \in Int /\ ps[k].ep \in Nat
<1>1. Len(ps) \in Nat /\ \A k \in 1..Len(ps) : ps[k] \in TrackPiece
  BY LenProperties, ElementOfSeq
<1> QED BY <1>1 DEF TrackPiece

(***************************************************************************)
(* A piece of something else leaves the source of an episode as it is.     *)
(***************************************************************************)
LEMMA AppendOther ==
    ASSUME NEW ps \in Seq(TrackPiece), NEW p \in TrackPiece, NEW e, ~(p.track = "source" /\ p.ep = e)
    PROVE  /\ Append(ps, p) \in Seq(TrackPiece)
           /\ HeardOf(Append(ps, p), e) = HeardOf(ps, e)
           /\ \A c : Forward(ps, e, c) => Forward(Append(ps, p), e, c)
           /\ \A c, S : Plays(ps, e, c, S) => Plays(Append(ps, p), e, c, S)
<1> DEFINE qs == Append(ps, p)
<1>1. /\ qs \in Seq(TrackPiece) /\ Len(qs) = Len(ps) + 1 /\ qs[Len(ps) + 1] = p
      /\ \A k \in 1..Len(ps) : qs[k] = ps[k]
  BY AppendProperties
<1>2. Len(ps) \in Nat
  BY LenProperties
<1> HIDE DEF qs
<1>3. \A k \in 1..Len(qs) : k \in 1..Len(ps) \/ k = Len(ps) + 1
  BY <1>1, <1>2
<1>4. \A k \in 1..Len(ps) : k \in 1..Len(qs)
  BY <1>1, <1>2
<1>5. Stretches(qs, e) = Stretches(ps, e)
  BY <1>1, <1>3, <1>4 DEF Stretches
<1>6. \A k \in Stretches(ps, e) : qs[k] = ps[k]
  BY <1>1 DEF Stretches
<1>7. HeardOf(qs, e) = HeardOf(ps, e)
  BY <1>5, <1>6 DEF HeardOf
<1>8. \A c : Forward(ps, e, c) => Forward(qs, e, c)
  BY <1>5, <1>6 DEF Forward
<1> QED BY <1>1, <1>7, <1>8 DEF Plays, qs

(***************************************************************************)
(* A piece of an episode goes behind those that are there.                 *)
(***************************************************************************)
LEMMA AppendStretch ==
    ASSUME NEW ps \in Seq(TrackPiece), NEW p \in TrackPiece, p.track = "source",
           NEW c \in Int, Forward(ps, p.ep, c), c <= p.from, p.from < p.to
    PROVE  /\ Append(ps, p) \in Seq(TrackPiece)
           /\ HeardOf(Append(ps, p), p.ep) = HeardOf(ps, p.ep) \cup p.from..(p.to - 1)
           /\ Forward(Append(ps, p), p.ep, p.to)
<1> DEFINE qs == Append(ps, p)
           n == Len(ps)
           e == p.ep
<1>1. /\ qs \in Seq(TrackPiece) /\ Len(qs) = n + 1 /\ qs[n + 1] = p
      /\ \A k \in 1..n : qs[k] = ps[k]
  BY AppendProperties
<1>2. n \in Nat /\ p.from \in Int /\ p.to \in Int
      /\ \A k \in 1..n : ps[k].from \in Int /\ ps[k].to \in Int
  BY PieceFields DEF TrackPiece
<1> HIDE DEF qs, n
<1>3. \A k \in 1..Len(qs) : k \in 1..n \/ k = n + 1
  BY <1>1, <1>2
<1>4. \A k \in 1..n : k \in 1..Len(qs) /\ k < n + 1
  BY <1>1, <1>2
<1>5. n + 1 \in Stretches(qs, e)
  BY <1>1, <1>2 DEF Stretches
<1>6. \A k \in Stretches(qs, e) : k = n + 1 \/ (k \in Stretches(ps, e) /\ qs[k] = ps[k])
  BY <1>1, <1>3 DEF Stretches, n
<1>7. \A k \in Stretches(ps, e) : k \in Stretches(qs, e) /\ qs[k] = ps[k] /\ k \in 1..n
  BY <1>1, <1>4 DEF Stretches, n
<1>8. \A k \in Stretches(ps, e) : ps[k].from < ps[k].to /\ ps[k].to <= c
  BY DEF Forward
<1>9. HeardOf(qs, e) = HeardOf(ps, e) \cup p.from..(p.to - 1)
  <2>1. \A t \in Int : t \in HeardOf(qs, e) <=> t \in HeardOf(ps, e) \/ (p.from <= t /\ t < p.to)
    BY <1>1, <1>5, <1>6, <1>7 DEF HeardOf
  <2>2. HeardOf(qs, e) \subseteq Int /\ HeardOf(ps, e) \subseteq Int /\ p.from..(p.to - 1) \subseteq Int
    BY DEF HeardOf
  <2>3. \A t \in Int : t \in p.from..(p.to - 1) <=> p.from <= t /\ t < p.to
    BY <1>2
  <2> QED BY <2>1, <2>2, <2>3
<1>10. ASSUME NEW k \in Stretches(qs, e) PROVE qs[k].from < qs[k].to /\ qs[k].to <= p.to
  BY <1>1, <1>2, <1>6, <1>7, <1>8
<1>11. ASSUME NEW j \in Stretches(qs, e), NEW k \in Stretches(qs, e), j < k PROVE qs[j].to <= qs[k].from
  <2>1. j # n + 1
    <3> SUFFICES ASSUME j = n + 1 PROVE FALSE
      OBVIOUS
    <3>1. k \in 1..(n + 1)
      BY <1>1 DEF Stretches
    <3> QED BY <3>1, <1>2, <1>11
  <2>2. j \in Stretches(ps, e) /\ qs[j] = ps[j] /\ ps[j].to <= c /\ ps[j].to \in Int
    BY <2>1, <1>2, <1>6, <1>7, <1>8
  <2>3. CASE k = n + 1
    BY <2>2, <2>3, <1>1, <1>2
  <2>4. CASE k # n + 1
    BY <2>2, <2>4, <1>6, <1>11 DEF Forward
  <2> QED BY <2>3, <2>4
<1>12. Forward(qs, e, p.to)
  BY <1>10, <1>11 DEF Forward
<1> QED BY <1>1, <1>9, <1>12 DEF qs

\* A stretch of the source goes to the end of the timeline.
LEMMA PlayType ==
    ASSUME NEW b \in Laying, NEW ep \in Nat, NEW e \in Pair
    PROVE  /\ Play(b, ep, e) \in Laying
           /\ Play(b, ep, e).cursor = b.cursor /\ Play(b, ep, e).reason = b.reason
           /\ Piece("source", 0, ep, e[1], e[2], b.time) \in TrackPiece
           /\ Play(b, ep, e).pieces = Append(b.pieces, Piece("source", 0, ep, e[1], e[2], b.time))
<1> DEFINE p == Piece("source", 0, ep, e[1], e[2], b.time)
<1>1. b.pieces \in Seq(TrackPiece) /\ b.time \in Int /\ b.cursor \in Int /\ e[1] \in Int /\ e[2] \in Int
      /\ b.reason \in {"none", "pause", "cut"}
  BY DEF Laying, Pair
<1>2. p \in TrackPiece
  BY <1>1 DEF Piece, TrackPiece
<1> HIDE DEF p
<1>3. Append(b.pieces, p) \in Seq(TrackPiece)
  BY <1>1, <1>2, AppendProperties
<1>4. Play(b, ep, e) = [b EXCEPT !.pieces = Append(b.pieces, p), !.time = b.time + e[2] - e[1]]
  BY DEF Play, p
<1>5. b = [cursor |-> b.cursor, time |-> b.time, pieces |-> b.pieces, reason |-> b.reason]
  BY DEF Laying
<1>6. Play(b, ep, e) = [cursor |-> b.cursor, time |-> b.time + e[2] - e[1], pieces |-> Append(b.pieces, p),
                        reason |-> b.reason]
  BY <1>4, <1>5
<1>7. b.time + e[2] - e[1] \in Int
  BY <1>1
<1> QED BY <1>1, <1>2, <1>3, <1>6, <1>7 DEF Laying, p

\* The states AppendSource goes through.
LEMMA PlayFold ==
    ASSUME NEW ep \in Nat, NEW base \in Laying, NEW s \in Seq(Pair)
    PROVE  \E h : /\ Stepping(h, Len(s), Laying, base)
                  /\ \A k \in 1..Len(s) : h[k] = Play(h[k - 1], ep, s[k])
                  /\ FoldLeft(LAMBDA a, r : Play(a, ep, r), base, s) = h[Len(s)]
<1> DEFINE n == Len(s)
           Op(b, e) == Play(b, ep, e)
           g == [x \in Laying \X (1..n) |-> Op(x[1], s[x[2]])]
           Rec(it) == [T \in SUBSET (DOMAIN s) |->
                         IF T = {} THEN base ELSE Op(it[T \ {Max(T)}], s[Max(T)])]
           it == CHOOSE it : it = Rec(it)
           h == [k \in 0..n |-> it[1..k]]
<1>1. n \in Nat /\ DOMAIN s = 1..n /\ \A k \in 1..n : s[k] \in Pair
  BY LenProperties, ElementOfSeq
<1>2. ASSUME NEW b \in Laying, NEW e \in Pair PROVE Op(b, e) \in Laying
  BY PlayType
<1>3. FoldLeft(LAMBDA a, r : Play(a, ep, r), base, s) = it[DOMAIN s]
  BY DEF FoldLeft, MapThenFoldSet
<1> HIDE DEF Op, n
<1>4. PICK f : Folding(n, Laying, base, g, f)
  <2>1. ASSUME NEW b \in Laying, NEW k \in 1..n PROVE g[<<b, k>>] \in Laying
    BY <1>1, <1>2
  <2> HIDE DEF g
  <2> QED BY <1>1, <2>1, FoldOfSeq
<1>5. f = Rec(f)
  <2>1. ASSUME NEW T \in SUBSET (1..n)
        PROVE  f[T] = IF T = {} THEN base ELSE Op(f[T \ {Max(T)}], s[Max(T)])
    <3>1. f[T] = (IF T = {} THEN base ELSE g[<<f[T \ {Max(T)}], Max(T)>>]) /\ f \in [SUBSET (1..n) -> Laying]
      BY <1>4 DEF Folding
    <3>2. CASE T # {}
      <4>1. Max(T) \in T
        <5>1. IsFiniteSet(1..n) /\ 1..n \subseteq Int
          BY <1>1, FS_Interval
        <5>2. IsFiniteSet(T) /\ T \subseteq Int
          BY <5>1, FS_Subset
        <5> QED BY <3>2, <5>2, MaxOf
      <4>2. f[T \ {Max(T)}] \in Laying /\ Max(T) \in 1..n
        BY <3>1, <4>1
      <4>3. g[<<f[T \ {Max(T)}], Max(T)>>] = Op(f[T \ {Max(T)}], s[Max(T)])
        BY <4>2
      <4> QED BY <3>1, <3>2, <4>3
    <3> QED BY <3>1, <3>2
  <2>2. f = [T \in SUBSET (1..n) |-> f[T]]
    BY <1>4 DEF Folding
  <2> QED BY <1>1, <2>1, <2>2
<1> HIDE DEF Rec
<1>6. it = Rec(it)
  BY <1>5
<1>7. \A T \in SUBSET (1..n) : it[T] = IF T = {} THEN base ELSE Op(it[T \ {Max(T)}], s[Max(T)])
  <2> DEFINE i == it
  <2>1. i = Rec(i)
    BY <1>6
  <2> HIDE DEF i
  <2>2. \A T \in SUBSET (1..n) : i[T] = IF T = {} THEN base ELSE Op(i[T \ {Max(T)}], s[Max(T)])
    BY <1>1, <2>1 DEF Rec
  <2> QED BY <2>2 DEF i
<1> HIDE DEF it
<1>8. h[0] = base
  <2>1. 1..0 = {} /\ 0 \in 0..n
    BY <1>1
  <2> QED BY <1>7, <2>1
<1>9. ASSUME NEW k \in 1..n PROVE h[k] = Op(h[k - 1], s[k])
  <2>1. 1..k \in SUBSET (1..n) /\ 1..k # {} /\ Max(1..k) = k /\ (1..k) \ {k} = 1..(k - 1)
    BY <1>1, Ranges
  <2>2. it[1..k] = Op(it[1..(k - 1)], s[k])
    BY <1>7, <2>1
  <2>3. k \in 0..n /\ k - 1 \in 0..n
    BY <1>1
  <2> QED BY <2>2, <2>3
<1>10. FoldLeft(LAMBDA a, r : Play(a, ep, r), base, s) = h[n]
  <2>1. n \in 0..n
    BY <1>1
  <2> QED BY <1>1, <1>3, <2>1
<1> HIDE DEF h
<1>11. \A k \in 0..n : h[k] \in Laying
  <2> DEFINE G == {k \in 0..n : h[k] \in Laying}
  <2>1. 0 \in G
    BY <1>1, <1>8
  <2>2. ASSUME NEW k \in 1..n, k - 1 \in G PROVE k \in G
    <3>1. h[k - 1] \in Laying /\ s[k] \in Pair /\ k \in 0..n
      BY <1>1, <2>2
    <3>2. Op(h[k - 1], s[k]) \in Laying
      BY <3>1, <1>2
    <3> QED BY <3>1, <3>2, <1>9
  <2> HIDE DEF G
  <2>3. \A k \in 0..n : k \in G
    BY <1>1, <2>1, <2>2, Counting
  <2> QED BY <2>3 DEF G
<1>12. Stepping(h, n, Laying, base) /\ \A k \in 1..n : h[k] = Play(h[k - 1], ep, s[k])
  BY <1>8, <1>9, <1>11 DEF Stepping, Op
<1> QED BY <1>10, <1>12 DEF n

\* The points of the first k intervals.
Upto(R, k) == {t \in Int : \E j \in 1..k : Within(t, R[j])}

(***************************************************************************)
(* One stretch more goes to the end of the timeline.                       *)
(***************************************************************************)
LEMMA PlayOne ==
    ASSUME NEW acc \in Laying, NEW e \in Nat, NEW r \in Pair, NEW c \in Int,
           Forward(acc.pieces, e, c), c <= r[1], r[1] < r[2]
    PROVE  /\ Play(acc, e, r) \in Laying
           /\ Play(acc, e, r).cursor = acc.cursor /\ Play(acc, e, r).reason = acc.reason
           /\ HeardOf(Play(acc, e, r).pieces, e) = HeardOf(acc.pieces, e) \cup r[1]..(r[2] - 1)
           /\ Forward(Play(acc, e, r).pieces, e, r[2])
           /\ OthersStay(acc.pieces, Play(acc, e, r).pieces, e)
<1> DEFINE p == Piece("source", 0, e, r[1], r[2], acc.time)
           ps == acc.pieces
           u == Play(acc, e, r)
<1>1. /\ u \in Laying /\ u.cursor = acc.cursor /\ u.reason = acc.reason
      /\ p \in TrackPiece /\ u.pieces = Append(ps, p)
  BY PlayType
<1>2. p.track = "source" /\ p.ep = e /\ p.from = r[1] /\ p.to = r[2]
  BY DEF Piece
<1>3. ps \in Seq(TrackPiece) /\ r[1] \in Int /\ r[2] \in Int
  BY DEF Laying, Pair
<1>4. Forward(ps, p.ep, c) /\ c <= p.from /\ p.from < p.to
  BY <1>2
<1> HIDE DEF p, u, ps
<1>5. /\ HeardOf(Append(ps, p), p.ep) = HeardOf(ps, p.ep) \cup p.from..(p.to - 1)
      /\ Forward(Append(ps, p), p.ep, p.to)
  BY <1>1, <1>2, <1>3, <1>4, AppendStretch
<1>6. OthersStay(ps, Append(ps, p), e)
  <2> SUFFICES ASSUME NEW o, o # e PROVE \A d, S : Plays(ps, o, d, S) => Plays(Append(ps, p), o, d, S)
    BY DEF OthersStay
  <2> QED BY <1>1, <1>2, <1>3, AppendOther
<1> QED BY <1>1, <1>2, <1>5, <1>6 DEF u, ps

(***************************************************************************)
(* Stretches that lie behind what is played of an episode are played in    *)
(* their order, each once.                                                 *)
(***************************************************************************)
LEMMA PlayAll ==
    ASSUME NEW acc \in Laying, NEW e \in Nat, NEW c \in Int, NEW R, Canonical(R),
           \A k \in 1..Len(R) : c <= R[k][1], Forward(acc.pieces, e, c)
    PROVE  LET u == FoldLeft(LAMBDA a, r : Play(a, e, r), acc, R) IN
           /\ u \in Laying /\ u.cursor = acc.cursor /\ u.reason = acc.reason
           /\ HeardOf(u.pieces, e) = HeardOf(acc.pieces, e) \cup Points(R)
           /\ Forward(u.pieces, e, IF Len(R) = 0 THEN c ELSE R[Len(R)][2])
           /\ OthersStay(acc.pieces, u.pieces, e)
<1> DEFINE n == Len(R)
           end(k) == IF k = 0 THEN c ELSE R[k][2]
<1>1. R \in Seq(Pair) /\ n \in Nat
  BY PairsOf DEF Canonical
<1>2. PICK h : /\ Stepping(h, n, Laying, acc)
               /\ \A k \in 1..n : h[k] = Play(h[k - 1], e, R[k])
               /\ FoldLeft(LAMBDA a, r : Play(a, e, r), acc, R) = h[n]
  BY <1>1, PlayFold
<1> DEFINE Good(k) == /\ h[k].cursor = acc.cursor /\ h[k].reason = acc.reason
                      /\ HeardOf(h[k].pieces, e) = HeardOf(acc.pieces, e) \cup Upto(R, k)
                      /\ Forward(h[k].pieces, e, end(k))
                      /\ OthersStay(acc.pieces, h[k].pieces, e)
           G == {k \in 0..n : Good(k)}
<1>3. 0 \in G
  <2>1. h[0] = acc
    BY <1>2 DEF Stepping
  <2>2. Upto(R, 0) = {}
    BY DEF Upto
  <2>3. OthersStay(acc.pieces, acc.pieces, e)
    BY DEF OthersStay
  <2> HIDE DEF n
  <2>4. Good(0)
    BY <2>1, <2>2, <2>3
  <2> HIDE DEF Good
  <2> QED BY <1>1, <2>4
<1>4. ASSUME NEW k \in 1..n, k - 1 \in G PROVE k \in G
  <2> DEFINE old == h[k - 1]
             r == R[k]
  <2>1. /\ old \in Laying /\ h[k] = Play(old, e, r)
        /\ old.cursor = acc.cursor /\ old.reason = acc.reason
        /\ HeardOf(old.pieces, e) = HeardOf(acc.pieces, e) \cup Upto(R, k - 1)
        /\ Forward(old.pieces, e, end(k - 1))
        /\ OthersStay(acc.pieces, old.pieces, e)
    BY <1>1, <1>2, <1>4 DEF Stepping
  <2>2. r \in Pair /\ r[1] < r[2] /\ r[1] \in Int /\ r[2] \in Int
    BY <1>1, <1>4, PairsOf DEF Canonical
  <2>3. end(k - 1) \in Int /\ end(k - 1) <= r[1]
    <3>1. CASE k = 1
      BY <3>1, <1>4
    <3>2. CASE k # 1
      <4>1. k - 1 \in 1..n /\ k - 1 < k /\ k - 1 # 0
        BY <3>2, <1>1
      <4>2. R[k - 1][2] < R[k][1] /\ R[k - 1][2] \in Int
        BY <4>1, <1>1, PairsOf DEF Canonical
      <4> QED BY <4>1, <4>2, <2>2
    <3> QED BY <3>1, <3>2
  <2> HIDE DEF old, r, end, n
  <2>4. /\ Play(old, e, r) \in Laying
        /\ Play(old, e, r).cursor = old.cursor /\ Play(old, e, r).reason = old.reason
        /\ HeardOf(Play(old, e, r).pieces, e) = HeardOf(old.pieces, e) \cup r[1]..(r[2] - 1)
        /\ Forward(Play(old, e, r).pieces, e, r[2])
        /\ OthersStay(old.pieces, Play(old, e, r).pieces, e)
    BY <2>1, <2>2, <2>3, PlayOne
  <2>5. Upto(R, k) = Upto(R, k - 1) \cup r[1]..(r[2] - 1)
    <3>1. \A t \in Int : t \in Upto(R, k) <=> t \in Upto(R, k - 1) \/ Within(t, r)
      <4>1. \A j \in 1..k : j \in 1..(k - 1) \/ j = k
        BY <1>4
      <4>2. k \in 1..k /\ \A j \in 1..(k - 1) : j \in 1..k
        BY <1>1, <1>4 DEF n
      <4> QED BY <4>1, <4>2 DEF Upto, r
    <3>2. \A t \in Int : Within(t, r) <=> t \in r[1]..(r[2] - 1)
      BY <2>2 DEF Within
    <3>3. Upto(R, k) \subseteq Int /\ Upto(R, k - 1) \subseteq Int /\ r[1]..(r[2] - 1) \subseteq Int
      BY DEF Upto
    <3> QED BY <3>1, <3>2, <3>3
  <2>6. OthersStay(acc.pieces, h[k].pieces, e)
    BY <2>1, <2>4 DEF OthersStay
  <2>7. end(k) = r[2] /\ k \in 0..n
    BY <1>1, <1>4 DEF end, r, n
  <2>8. HeardOf(h[k].pieces, e) = HeardOf(acc.pieces, e) \cup Upto(R, k)
    BY <2>1, <2>4, <2>5
  <2>9. Good(k)
    BY <2>1, <2>4, <2>6, <2>7, <2>8
  <2> HIDE DEF Good
  <2> QED BY <2>7, <2>9
<1>5. Good(n)
  <2> HIDE DEF G, n
  <2>1. \A k \in 0..n : k \in G
    BY <1>1, <1>3, <1>4, Counting
  <2>2. n \in 0..n
    BY <1>1 DEF n
  <2> QED BY <2>1, <2>2 DEF G
<1>6. Upto(R, n) = Points(R)
  BY DEF Upto, Points
<1>7. h[n] \in Laying
  <2>1. n \in 0..n
    BY <1>1
  <2> QED BY <2>1, <1>2 DEF Stepping
<1> QED BY <1>2, <1>5, <1>6, <1>7

(***************************************************************************)
(* append_source: the source is played from the cursor up to a place,      *)
(* without what is cut.                                                    *)
(***************************************************************************)
LEMMA AppendSourceFacts ==
    ASSUME NEW acc \in Laying, NEW e \in Nat, NEW to \in Int, CutSet(cut.of[e]), 0 <= acc.cursor,
           Plays(acc.pieces, e, acc.cursor, cut.of[e])
    PROVE  LET u == AppendSource(acc, e, to) IN
           /\ u \in Laying /\ u.cursor = (IF acc.cursor >= to THEN acc.cursor ELSE to) /\ u.reason = acc.reason
           /\ Plays(u.pieces, e, u.cursor, cut.of[e])
           /\ OthersStay(acc.pieces, u.pieces, e)
<1> DEFINE S == cut.of[e]
           c == acc.cursor
           d == IF c >= to THEN c ELSE to
           R == IF to > c THEN SourceRanges(c, to, S) ELSE << >>
           base == [acc EXCEPT !.cursor = Max({c, to})]
           u == AppendSource(acc, e, to)
<1>1. c \in Int /\ d \in Int /\ c <= d /\ to <= d /\ 0 <= c
  BY DEF Laying
<1>2. base \in Laying /\ base.cursor = d /\ base.reason = acc.reason /\ base.pieces = acc.pieces
  <2>1. Max({c, to}) = d
    BY <1>1, Two
  <2> HIDE DEF c, d
  <2> QED BY <1>1, <2>1 DEF Laying
<1>3. u = FoldLeft(LAMBDA a, r : Play(a, e, r), base, R)
  BY DEF AppendSource
<1>4. Canonical(R) /\ \A t \in Int : t \in Points(R) <=> c <= t /\ t < d /\ \A x \in S : ~Within(t, x)
  <2>1. CASE to > c
    <3> DEFINE q == SourceRanges(c, to, S)
    <3>1. Canonical(q) /\ \A t \in Int : t \in Points(q) <=> 0 <= t /\ c <= t /\ t < to /\ \A x \in S : ~Within(t, x)
      BY <1>1, SourceRangesFacts
    <3>2. R = q /\ d = to
      BY <2>1, <1>1
    <3> HIDE DEF q, R, c, d
    <3> QED BY <3>1, <3>2, <1>1
  <2>2. CASE ~(to > c)
    <3>1. R = << >> /\ d = c
      BY <2>2, <1>1
    <3>2. Canonical(<< >>) /\ Points(<< >>) = {}
      BY EmptySeq DEF Canonical, Points
    <3> HIDE DEF R, c, d
    <3> QED BY <3>1, <3>2, <1>1
  <2> QED BY <2>1, <2>2
<1> HIDE DEF S, c, d, R, base, u
<1>5. Len(R) \in Nat /\ \A k \in 1..Len(R) : R[k][1] \in Int /\ R[k][2] \in Int /\ R[k][1] < R[k][2]
  BY <1>4, PairsOf DEF Canonical
<1>6. ASSUME NEW k \in 1..Len(R) PROVE c <= R[k][1] /\ R[k][2] <= d
  <2>1. R[k][1] \in Points(R) /\ R[k][2] - 1 \in Points(R)
    <3>1. R[k][1] \in Int /\ R[k][2] - 1 \in Int /\ R[k][1] < R[k][2]
      BY <1>5
    <3>2. Within(R[k][1], R[k]) /\ Within(R[k][2] - 1, R[k])
      <4> DEFINE a == R[k][1]
                 b == R[k][2]
      <4>1. a \in Int /\ b - 1 \in Int /\ a < b /\ b \in Int
        BY <1>5
      <4>2. Within(a, R[k]) <=> a <= a /\ a < b
        BY DEF Within
      <4>3. Within(b - 1, R[k]) <=> a <= b - 1 /\ b - 1 < b
        BY DEF Within
      <4> HIDE DEF a, b
      <4>4. a <= a /\ a <= b - 1 /\ b - 1 < b
        BY <4>1
      <4>5. Within(a, R[k]) /\ Within(b - 1, R[k])
        BY <4>1, <4>2, <4>3, <4>4
      <4> QED BY <4>5 DEF a, b
    <3> QED BY <3>1, <3>2 DEF Points
  <2>2. c <= R[k][1] /\ R[k][2] - 1 < d
    BY <1>4, <1>5, <2>1
  <2> QED BY <2>2, <1>1, <1>5
<1>7. Forward(base.pieces, e, c) /\ HeardOf(acc.pieces, e) = Uncovered(S, c)
  BY <1>2 DEF Plays, S, c
<1>8. /\ u \in Laying /\ u.cursor = base.cursor /\ u.reason = base.reason
      /\ HeardOf(u.pieces, e) = HeardOf(base.pieces, e) \cup Points(R)
      /\ Forward(u.pieces, e, IF Len(R) = 0 THEN c ELSE R[Len(R)][2])
      /\ OthersStay(base.pieces, u.pieces, e)
  <2>1. \A k \in 1..Len(R) : c <= R[k][1]
    BY <1>6
  <2>2. LET v == FoldLeft(LAMBDA a, r : Play(a, e, r), base, R) IN
        /\ v \in Laying /\ v.cursor = base.cursor /\ v.reason = base.reason
        /\ HeardOf(v.pieces, e) = HeardOf(base.pieces, e) \cup Points(R)
        /\ Forward(v.pieces, e, IF Len(R) = 0 THEN c ELSE R[Len(R)][2])
        /\ OthersStay(base.pieces, v.pieces, e)
    BY <2>1, <1>1, <1>2, <1>4, <1>7, PlayAll
  <2> QED BY <2>2, <1>3
<1>9. Forward(u.pieces, e, d)
  <2> DEFINE x == IF Len(R) = 0 THEN c ELSE R[Len(R)][2]
  <2>1. x \in Int /\ x <= d
    BY <1>1, <1>5, <1>6
  <2>2. Forward(u.pieces, e, x)
    BY <1>8
  <2> HIDE DEF x
  <2>3. u.pieces \in Seq(TrackPiece)
    BY <1>8 DEF Laying
  <2>4. \A k \in Stretches(u.pieces, e) : u.pieces[k].to \in Int
    BY <2>3, PieceFields DEF Stretches
  <2> QED BY <1>1, <2>1, <2>2, <2>4 DEF Forward
<1>10. HeardOf(u.pieces, e) = Uncovered(S, d)
  <2>1. \A t \in Int : t \in Uncovered(S, d) <=> t \in Uncovered(S, c) \/ t \in Points(R)
    BY <1>1, <1>4 DEF Uncovered
  <2>2. Uncovered(S, d) \subseteq Int /\ Uncovered(S, c) \subseteq Int /\ Points(R) \subseteq Int
    BY DEF Uncovered, Points
  <2>3. Uncovered(S, d) = Uncovered(S, c) \cup Points(R)
    BY <2>1, <2>2
  <2> QED BY <2>3, <1>2, <1>7, <1>8
<1> QED BY <1>2, <1>8, <1>9, <1>10 DEF Plays, S, c, d, u

-----------------------------------------------------------------------------
(* The narrations are placed on it. *)

\* A timeline on which episode e is played up to the cursor, the others as on ps.
LaidOver(ps, e) ==
    {acc \in Laying :
        /\ 0 <= acc.cursor /\ acc.cursor <= P.length[e]
        /\ Plays(acc.pieces, e, acc.cursor, cut.of[e])
        /\ OthersStay(ps, acc.pieces, e)}
\* The cues that are spoken.
Audible == {c \in Cued(P) : wav[c.id] \in Nat \ {0}}
Placeable(e) == e \in Nat /\ P.length[e] \in Nat /\ CutSet(cut.of[e]) /\ DOMAIN P.frags \subseteq Nat
                /\ CadenceIn \in Nat /\ CadenceOut \in Nat /\ EndPause \in Nat

\* The state acc of laying out, at c on the source and at d on the timeline qs.
Moved(acc, c, d, qs) == [acc EXCEPT !.cursor = c, !.time = d, !.pieces = qs]
Grown(acc, d, qs) == [acc EXCEPT !.time = d, !.pieces = qs]

\* The timeline goes on, with its cursor ...
LEMMA MovedType ==
    ASSUME NEW acc \in Laying, NEW c \in Int, NEW d \in Int, NEW qs \in Seq(TrackPiece)
    PROVE  Moved(acc, c, d, qs) \in Laying /\ Moved(acc, c, d, qs).cursor = c /\ Moved(acc, c, d, qs).pieces = qs
BY DEF Laying, Moved

\* ... or with the cursor where it was.
LEMMA GrownType ==
    ASSUME NEW acc \in Laying, NEW d \in Int, NEW qs \in Seq(TrackPiece)
    PROVE  /\ Grown(acc, d, qs) \in Laying
           /\ Grown(acc, d, qs).cursor = acc.cursor /\ Grown(acc, d, qs).pieces = qs
BY DEF Laying, Grown

(***************************************************************************)
(* An overlay is heard together with the stretch it lies on.               *)
(***************************************************************************)
LEMMA PlaceOverlayType ==
    ASSUME NEW ps, NEW ep, Placeable(ep), NEW b \in LaidOver(ps, ep), NEW e \in Audible, e.policy \in Overlays
    PROVE  PlaceOverlay(b, ep, e) \in LaidOver(ps, ep)
<1> DEFINE S == cut.of[ep]
           len == wav[e.id]
           lo == Max({b.cursor, e.gap[1]})
           hi == Min({P.length[ep], e.gap[2]})
           from == OverlayStart(e, lo, hi)
           to == from + len
           up == AppendSource(b, ep, from)
           p == Piece("source", 0, ep, from, to, up.time)
           q == Piece("narrator", e.id, ep, from, to, up.time)
           u == [up EXCEPT !.cursor = to, !.time = up.time + len, !.pieces = Append(Append(up.pieces, p), q)]
<1>1. /\ b \in Laying /\ b.cursor \in Int /\ 0 <= b.cursor /\ b.cursor <= P.length[ep]
      /\ Plays(b.pieces, ep, b.cursor, S) /\ OthersStay(ps, b.pieces, ep)
  BY DEF LaidOver, Laying
<1>2. /\ e.id \in Nat /\ e.gap \in Pair /\ e.gap[1] \in Int /\ e.gap[2] \in Int /\ e.at \in Int
      /\ len \in Nat /\ len > 0 /\ P.length[ep] \in Nat /\ CutSet(S) /\ ep \in Nat
  <2>1. e \in Cued(P) /\ len \in Nat \ {0} /\ e.gap \in Pair
    BY DEF Audible, Cued
  <2>2. e.id \in Nat
    BY <2>1 DEF Cued, CueSet, Placeable
  <2> QED BY <2>1, <2>2 DEF Cued, CueSet, Pair, Placeable
<1>3. /\ lo \in Int /\ b.cursor <= lo
      /\ hi \in Int /\ hi <= P.length[ep]
  <2> DEFINE g == e.gap[1]
             x == e.gap[2]
             n == P.length[ep]
             c == b.cursor
  <2>1. g \in Int /\ x \in Int /\ n \in Int /\ c \in Int
    BY <1>1, <1>2
  <2> HIDE DEF g, x, n, c
  <2>2. Max({c, g}) \in Int /\ c <= Max({c, g})
    BY <2>1, Bounded
  <2>3. Min({n, x}) \in Int /\ Min({n, x}) <= n
    BY <2>1, Bounded
  <2> QED BY <2>2, <2>3 DEF g, x, n, c
<1>4. PlaceOverlay(b, ep, e) = IF hi - lo < len THEN [b EXCEPT !.reason = "pause"]
                               ELSE IF \E iv \in S : Meets(<<from, to>>, iv) THEN [b EXCEPT !.reason = "cut"]
                               ELSE u
  BY DEF PlaceOverlay
<1>5. CASE hi - lo < len
  <2>1. [b EXCEPT !.reason = "pause"] \in LaidOver(ps, ep)
    BY <1>1 DEF LaidOver, Laying
  <2> QED BY <2>1, <1>4, <1>5
<1>6. CASE \E iv \in S : Meets(<<from, to>>, iv)
  <2>1. [b EXCEPT !.reason = "cut"] \in LaidOver(ps, ep) /\ [b EXCEPT !.reason = "pause"] \in LaidOver(ps, ep)
    BY <1>1 DEF LaidOver, Laying
  <2> QED BY <2>1, <1>4, <1>6
<1>7. CASE ~(hi - lo < len) /\ ~\E iv \in S : Meets(<<from, to>>, iv)
  <2>1. from \in Int /\ lo <= from /\ from <= hi - len
    <3> DEFINE latest == hi - len
               wished == CASE e.side = "before" -> latest
                           [] e.side = "after" -> lo
                           [] OTHER -> e.at - len \div 2
    <3> HIDE DEF len, lo, hi
    <3>1. latest \in Int /\ lo <= latest
      BY <1>2, <1>3, <1>7
    <3>2. wished \in Int
      <4>1. len \div 2 \in Int
        BY <1>2
      <4> HIDE DEF latest
      <4> QED BY <4>1, <3>1, <1>2, <1>3
    <3>3. from = Max({lo, Min({wished, latest})})
      BY DEF OverlayStart, len
    <3> HIDE DEF wished, latest, from
    <3>4. Min({wished, latest}) \in Int /\ Min({wished, latest}) <= latest
      BY <3>1, <3>2, Two
    <3>5. Max({lo, Min({wished, latest})}) \in Int /\ lo <= Max({lo, Min({wished, latest})})
          /\ Max({lo, Min({wished, latest})}) <= latest
      BY <1>3, <3>1, <3>4, Two
    <3> QED BY <3>3, <3>5 DEF latest
  <2> HIDE DEF from, lo, hi, len
  <2>2. to \in Int /\ from < to /\ to <= P.length[ep] /\ b.cursor <= from /\ 0 <= to
    BY <1>1, <1>2, <1>3, <2>1
  <2>3. LET v == AppendSource(b, ep, from) IN
        /\ v \in Laying /\ v.cursor = (IF b.cursor >= from THEN b.cursor ELSE from) /\ v.reason = b.reason
        /\ Plays(v.pieces, ep, v.cursor, cut.of[ep])
        /\ OthersStay(b.pieces, v.pieces, ep)
    BY <1>1, <1>2, <2>1, AppendSourceFacts
  <2>4. /\ up \in Laying /\ up.cursor = from /\ up.time \in Int /\ up.pieces \in Seq(TrackPiece)
        /\ Plays(up.pieces, ep, from, S) /\ OthersStay(b.pieces, up.pieces, ep)
    <3>1. (IF b.cursor >= from THEN b.cursor ELSE from) = from
      BY <1>1, <2>1, <2>2
    <3> QED BY <2>3, <3>1 DEF Laying
  <2> HIDE DEF up, to, S
  <2>5. p \in TrackPiece /\ q \in TrackPiece
    BY <1>2, <2>1, <2>2, <2>4 DEF Piece, TrackPiece
  <2>6. p.track = "source" /\ p.ep = ep /\ p.from = from /\ p.to = to /\ q.track = "narrator"
    BY DEF Piece
  <2> HIDE DEF p, q
  <2> DEFINE r == Append(up.pieces, p)
             t == Append(r, q)
  <2>7. /\ r \in Seq(TrackPiece)
        /\ HeardOf(r, ep) = HeardOf(up.pieces, ep) \cup from..(to - 1)
        /\ Forward(r, ep, to)
    <3>1. Forward(up.pieces, p.ep, from) /\ from <= p.from /\ p.from < p.to
      BY <2>1, <2>2, <2>4, <2>6 DEF Plays
    <3>2. /\ Append(up.pieces, p) \in Seq(TrackPiece)
          /\ HeardOf(Append(up.pieces, p), p.ep) = HeardOf(up.pieces, p.ep) \cup p.from..(p.to - 1)
          /\ Forward(Append(up.pieces, p), p.ep, p.to)
      BY <2>1, <2>4, <2>5, <2>6, <3>1, AppendStretch
    <3> QED BY <3>2, <2>6
  <2>8. HeardOf(r, ep) = Uncovered(S, to)
    <3>1. \A i \in Int : i \in from..(to - 1) <=> from <= i /\ i < to
      BY <2>1, <2>2
    <3>2. \A i \in Int : from <= i /\ i < to => \A iv \in S : ~Within(i, iv)
      <4> SUFFICES ASSUME NEW i \in Int, from <= i, i < to, NEW iv \in S, Within(i, iv) PROVE FALSE
        OBVIOUS
      <4>1. iv[1] \in Int /\ iv[2] \in Int
        BY <1>2 DEF CutSet, Pair
      <4>2. iv[1] <= i /\ i < iv[2]
        BY DEF Within
      <4>3. Meets(<<from, to>>, iv)
        BY <4>1, <4>2, <2>1, <2>2 DEF Meets
      <4> QED BY <4>3, <1>7
    <3>3. \A i \in Int : i \in Uncovered(S, to) <=> i \in Uncovered(S, from) \/ (from <= i /\ i < to)
      BY <3>2, <1>1, <2>1, <2>2 DEF Uncovered
    <3>4. Uncovered(S, to) \subseteq Int /\ Uncovered(S, from) \subseteq Int /\ from..(to - 1) \subseteq Int
      BY DEF Uncovered
    <3>5. Uncovered(S, to) = Uncovered(S, from) \cup from..(to - 1)
      BY <3>1, <3>3, <3>4
    <3> QED BY <3>5, <2>4, <2>7 DEF Plays
  <2>9. Plays(r, ep, to, S)
    BY <2>7, <2>8 DEF Plays
  <2>10. t \in Seq(TrackPiece) /\ Plays(t, ep, to, S)
    <3> HIDE DEF r
    <3> QED BY <2>5, <2>6, <2>7, <2>9, AppendOther
  <2>11. OthersStay(up.pieces, t, ep)
    <3> SUFFICES ASSUME NEW o, o # ep PROVE \A d, T : Plays(up.pieces, o, d, T) => Plays(t, o, d, T)
      BY DEF OthersStay
    <3>1. \A d, T : Plays(up.pieces, o, d, T) => Plays(r, o, d, T)
      BY <2>4, <2>5, <2>6, AppendOther
    <3> HIDE DEF r
    <3>2. \A d, T : Plays(r, o, d, T) => Plays(t, o, d, T)
      BY <2>5, <2>6, <2>7, AppendOther
    <3> QED BY <3>1, <3>2
  <2>12. OthersStay(ps, t, ep)
    BY <1>1, <2>4, <2>11 DEF OthersStay
  <2> HIDE DEF t
  <2>13. u = [up EXCEPT !.cursor = to, !.time = up.time + len, !.pieces = t]
    BY DEF t
  <2>14. u \in Laying /\ u.cursor = to /\ u.pieces = t
    <3>1. up.time + len \in Int
      BY <2>4, <1>2
    <3> DEFINE d == up.time + len
    <3> HIDE DEF d
    <3>2. u = Moved(up, to, d, t)
      BY <2>13 DEF d, Moved
    <3>3. d \in Int
      BY <3>1 DEF d
    <3> HIDE DEF u
    <3>4. Moved(up, to, d, t) \in Laying /\ Moved(up, to, d, t).cursor = to /\ Moved(up, to, d, t).pieces = t
      BY <2>2, <2>4, <2>10, <3>3, MovedType
    <3> QED BY <3>2, <3>4, Zenon
  <2>15. u \in LaidOver(ps, ep)
    BY <2>2, <2>10, <2>12, <2>14 DEF LaidOver, S
  <2> HIDE DEF u
  <2> QED BY <2>15, <1>4, <1>7 DEF S
<1> QED BY <1>5, <1>6, <1>7

(***************************************************************************)
(* An insertion lies between two stretches.                                *)
(***************************************************************************)
LEMMA PlaceInsertType ==
    ASSUME NEW ps, NEW ep, Placeable(ep), NEW b \in LaidOver(ps, ep), NEW e \in Audible
    PROVE  PlaceInsert(b, ep, e) \in LaidOver(ps, ep)
<1> DEFINE S == cut.of[ep]
           len == wav[e.id]
           at == Max({b.cursor, Min({P.length[ep], e.at})})
           up == AppendSource(b, ep, at)
           start == up.time + CadenceIn
           q == Piece("narrator", e.id, ep, at, at + len, start)
           t == Append(up.pieces, q)
           u == [up EXCEPT !.time = start + len + CadenceOut, !.pieces = t]
<1>1. /\ b \in Laying /\ b.cursor \in Int /\ 0 <= b.cursor /\ b.cursor <= P.length[ep]
      /\ Plays(b.pieces, ep, b.cursor, S) /\ OthersStay(ps, b.pieces, ep)
  BY DEF LaidOver, Laying
<1>2. /\ e.id \in Nat /\ e.at \in Int /\ len \in Nat /\ P.length[ep] \in Nat /\ CutSet(S) /\ ep \in Nat
      /\ CadenceIn \in Nat /\ CadenceOut \in Nat
  <2>1. e \in Cued(P) /\ len \in Nat \ {0}
    BY DEF Audible
  <2>2. e.id \in Nat /\ e.at \in Int
    BY <2>1 DEF Cued, CueSet, Placeable
  <2> QED BY <2>1, <2>2 DEF Placeable
<1>3. at \in Int /\ b.cursor <= at /\ at <= P.length[ep]
  <2> DEFINE x == e.at
             n == P.length[ep]
             c == b.cursor
  <2>1. x \in Int /\ n \in Int /\ c \in Int /\ c <= n
    BY <1>1, <1>2
  <2> HIDE DEF x, n, c
  <2>2. Min({n, x}) \in Int /\ Min({n, x}) <= n
    BY <2>1, Two
  <2>3. Max({c, Min({n, x})}) \in Int /\ c <= Max({c, Min({n, x})}) /\ Max({c, Min({n, x})}) <= n
    BY <2>1, <2>2, Two
  <2> QED BY <2>3 DEF x, n, c
<1>4. PlaceInsert(b, ep, e) = u
  BY DEF PlaceInsert
<1> HIDE DEF at, len
<1>5. LET v == AppendSource(b, ep, at) IN
      /\ v \in Laying /\ v.cursor = (IF b.cursor >= at THEN b.cursor ELSE at) /\ v.reason = b.reason
      /\ Plays(v.pieces, ep, v.cursor, cut.of[ep])
      /\ OthersStay(b.pieces, v.pieces, ep)
  BY <1>1, <1>2, <1>3, AppendSourceFacts
<1>6. /\ up \in Laying /\ up.cursor = at /\ up.time \in Int /\ up.pieces \in Seq(TrackPiece)
      /\ Plays(up.pieces, ep, at, S) /\ OthersStay(b.pieces, up.pieces, ep)
  <2>1. (IF b.cursor >= at THEN b.cursor ELSE at) = at
    BY <1>1, <1>3
  <2> QED BY <1>5, <2>1 DEF Laying
<1> HIDE DEF up, S
<1>7. q \in TrackPiece /\ q.track = "narrator" /\ start \in Int
  BY <1>2, <1>3, <1>6 DEF Piece, TrackPiece
<1> HIDE DEF q
<1>8. t \in Seq(TrackPiece) /\ Plays(t, ep, at, S)
  BY <1>6, <1>7, AppendOther
<1>9. OthersStay(up.pieces, t, ep)
  <2> SUFFICES ASSUME NEW o, o # ep PROVE \A d, T : Plays(up.pieces, o, d, T) => Plays(t, o, d, T)
    BY DEF OthersStay
  <2> QED BY <1>6, <1>7, AppendOther
<1>10. OthersStay(ps, t, ep)
  BY <1>1, <1>6, <1>9 DEF OthersStay
<1> HIDE DEF t, start
<1>11. u \in Laying /\ u.cursor = at /\ u.pieces = t
  <2> DEFINE d == start + len + CadenceOut
  <2>1. d \in Int
    BY <1>2, <1>7
  <2> HIDE DEF d
  <2>2. u = Grown(up, d, t)
    BY DEF d, Grown
  <2> HIDE DEF u
  <2>3. Grown(up, d, t) \in Laying /\ Grown(up, d, t).cursor = up.cursor /\ Grown(up, d, t).pieces = t
    BY <1>6, <1>8, <2>1, GrownType
  <2> QED BY <1>6, <2>2, <2>3, Zenon
<1> HIDE DEF u
<1>12. u \in LaidOver(ps, ep)
  <2>1. 0 <= at
    BY <1>1, <1>3
  <2> QED BY <2>1, <1>3, <1>8, <1>10, <1>11 DEF LaidOver, S
<1> QED BY <1>4, <1>12

\* Whatever its policy, a cue leaves the episode played up to the cursor ...
LEMMA PutType ==
    ASSUME NEW ps, NEW ep, Placeable(ep), NEW b \in LaidOver(ps, ep), NEW e \in Audible
    PROVE  Put(b, ep, e) \in LaidOver(ps, ep)
<1>1. CASE b.reason # "none"
  BY <1>1 DEF Put
<1>2. CASE b.reason = "none" /\ e.policy \in Overlays
  BY <1>2, PlaceOverlayType DEF Put
<1>3. CASE b.reason = "none" /\ e.policy \notin Overlays
  BY <1>3, PlaceInsertType DEF Put
<1> QED BY <1>1, <1>2, <1>3

\* The cues of an episode laid out one after the other.
AllPut(ep, base, s) == FoldLeft(LAMBDA acc, c : Put(acc, ep, c), base, s)

\* ... in all the states the laying out of an episode goes through ...
LEMMA PutFold ==
    ASSUME NEW ps, NEW ep, Placeable(ep), NEW base \in LaidOver(ps, ep), NEW s \in Seq(Audible)
    PROVE  \E h : /\ Stepping(h, Len(s), LaidOver(ps, ep), base)
                  /\ \A k \in 1..Len(s) : h[k] = Put(h[k - 1], ep, s[k])
                  /\ AllPut(ep, base, s) = h[Len(s)]
<1> DEFINE n == Len(s)
           Op(b, e) == Put(b, ep, e)
           g == [x \in LaidOver(ps, ep) \X (1..n) |-> Op(x[1], s[x[2]])]
           Rec(it) == [T \in SUBSET (DOMAIN s) |->
                         IF T = {} THEN base ELSE Op(it[T \ {Max(T)}], s[Max(T)])]
           it == CHOOSE it : it = Rec(it)
           h == [k \in 0..n |-> it[1..k]]
<1>1. n \in Nat /\ DOMAIN s = 1..n /\ \A k \in 1..n : s[k] \in Audible
  BY LenProperties, ElementOfSeq
<1>2. ASSUME NEW b \in LaidOver(ps, ep), NEW e \in Audible PROVE Op(b, e) \in LaidOver(ps, ep)
  BY PutType
<1>3. AllPut(ep, base, s) = it[DOMAIN s]
  BY DEF AllPut, FoldLeft, MapThenFoldSet
<1> HIDE DEF Op, n
<1>4. PICK f : Folding(n, LaidOver(ps, ep), base, g, f)
  <2>1. ASSUME NEW b \in LaidOver(ps, ep), NEW k \in 1..n PROVE g[<<b, k>>] \in LaidOver(ps, ep)
    BY <1>1, <1>2
  <2> HIDE DEF g
  <2> QED BY <1>1, <2>1, FoldOfSeq
<1>5. f = Rec(f)
  <2>1. ASSUME NEW T \in SUBSET (1..n)
        PROVE  f[T] = IF T = {} THEN base ELSE Op(f[T \ {Max(T)}], s[Max(T)])
    <3>1. f[T] = (IF T = {} THEN base ELSE g[<<f[T \ {Max(T)}], Max(T)>>]) /\ f \in [SUBSET (1..n) -> LaidOver(ps, ep)]
      BY <1>4 DEF Folding
    <3>2. CASE T # {}
      <4>1. Max(T) \in T
        <5>1. IsFiniteSet(1..n) /\ 1..n \subseteq Int
          BY <1>1, FS_Interval
        <5>2. IsFiniteSet(T) /\ T \subseteq Int
          BY <5>1, FS_Subset
        <5> QED BY <3>2, <5>2, MaxOf
      <4>2. f[T \ {Max(T)}] \in LaidOver(ps, ep) /\ Max(T) \in 1..n
        BY <3>1, <4>1
      <4>3. g[<<f[T \ {Max(T)}], Max(T)>>] = Op(f[T \ {Max(T)}], s[Max(T)])
        BY <4>2
      <4> QED BY <3>1, <3>2, <4>3
    <3> QED BY <3>1, <3>2
  <2>2. f = [T \in SUBSET (1..n) |-> f[T]]
    BY <1>4 DEF Folding
  <2> QED BY <1>1, <2>1, <2>2
<1> HIDE DEF Rec
<1>6. it = Rec(it)
  BY <1>5
<1>7. \A T \in SUBSET (1..n) : it[T] = IF T = {} THEN base ELSE Op(it[T \ {Max(T)}], s[Max(T)])
  <2> DEFINE i == it
  <2>1. i = Rec(i)
    BY <1>6
  <2> HIDE DEF i
  <2>2. \A T \in SUBSET (1..n) : i[T] = IF T = {} THEN base ELSE Op(i[T \ {Max(T)}], s[Max(T)])
    BY <1>1, <2>1 DEF Rec
  <2> QED BY <2>2 DEF i
<1> HIDE DEF it
<1>8. h[0] = base
  <2>1. 1..0 = {} /\ 0 \in 0..n
    BY <1>1
  <2> QED BY <1>7, <2>1
<1>9. ASSUME NEW k \in 1..n PROVE h[k] = Op(h[k - 1], s[k])
  <2>1. 1..k \in SUBSET (1..n) /\ 1..k # {} /\ Max(1..k) = k /\ (1..k) \ {k} = 1..(k - 1)
    BY <1>1, Ranges
  <2>2. it[1..k] = Op(it[1..(k - 1)], s[k])
    BY <1>7, <2>1
  <2>3. k \in 0..n /\ k - 1 \in 0..n
    BY <1>1
  <2> QED BY <2>2, <2>3
<1>10. AllPut(ep, base, s) = h[n]
  <2>1. n \in 0..n
    BY <1>1
  <2> QED BY <1>1, <1>3, <2>1
<1> HIDE DEF h
<1>11. \A k \in 0..n : h[k] \in LaidOver(ps, ep)
  <2> DEFINE G == {k \in 0..n : h[k] \in LaidOver(ps, ep)}
  <2>1. 0 \in G
    BY <1>1, <1>8
  <2>2. ASSUME NEW k \in 1..n, k - 1 \in G PROVE k \in G
    <3>1. h[k - 1] \in LaidOver(ps, ep) /\ s[k] \in Audible /\ k \in 0..n
      BY <1>1, <2>2
    <3>2. Op(h[k - 1], s[k]) \in LaidOver(ps, ep)
      BY <3>1, <1>2
    <3> QED BY <3>1, <3>2, <1>9
  <2> HIDE DEF G
  <2>3. \A k \in 0..n : k \in G
    BY <1>1, <2>1, <2>2, Counting
  <2> QED BY <2>3 DEF G
<1>12. Stepping(h, n, LaidOver(ps, ep), base) /\ \A k \in 1..n : h[k] = Put(h[k - 1], ep, s[k])
  BY <1>8, <1>9, <1>11 DEF Stepping, Op
<1> QED BY <1>10, <1>12 DEF n

\* ... and so does the last one.
LEMMA AllPutType ==
    ASSUME NEW ps, NEW ep, Placeable(ep), NEW base \in LaidOver(ps, ep), NEW s \in Seq(Audible)
    PROVE  AllPut(ep, base, s) \in LaidOver(ps, ep)
<1>1. PICK h : /\ Stepping(h, Len(s), LaidOver(ps, ep), base)
               /\ \A k \in 1..Len(s) : h[k] = Put(h[k - 1], ep, s[k])
               /\ AllPut(ep, base, s) = h[Len(s)]
  BY PutFold
<1>2. Len(s) \in 0..Len(s)
  BY LenProperties
<1> QED BY <1>1, <1>2 DEF Stepping

-----------------------------------------------------------------------------
(* What is laid out is what the gate looks for. *)

(***************************************************************************)
(* A timeline without a hole: what is heard of an episode is the source    *)
(* without the cuts, once and in order.                                    *)
(***************************************************************************)
LEMMA PlaysOnce ==
    ASSUME NEW e \in Nat, pieces \in Seq(TrackPiece), P.length[e] \in Nat, CutSet(cut.of[e]),
           Plays(pieces, e, P.length[e], cut.of[e])
    PROVE  PlayedOnce(e) /\ \A k \in 2..Len(Source(e)) : Source(e)[k].from >= Source(e)[k - 1].to
<1> DEFINE T == {k \in DOMAIN pieces : pieces[k].track = "source" /\ pieces[k].ep = e}
           s == Source(e)
           o == Sorted(T, <)
           n == Cardinality(T)
           got == {<<p.from, p.to>> : p \in Range(s)}
           L == P.length[e]
           S == cut.of[e]
<1>1. /\ Len(pieces) \in Nat /\ DOMAIN pieces = 1..Len(pieces)
      /\ \A k \in 1..Len(pieces) : pieces[k] \in TrackPiece /\ pieces[k].from \in Int /\ pieces[k].to \in Int
  BY PieceFields, LenProperties
<1>2. T = Stretches(pieces, e)
  BY <1>1 DEF Stretches
<1>3. /\ s \in Seq(TrackPiece) /\ Len(s) = n /\ n \in Nat /\ IsFiniteSet(T)
      /\ Lists(o, T)
      /\ \A j, k \in 1..n : j < k => o[j] < o[k]
      /\ \A k \in 1..n : s[k] = pieces[o[k]] /\ o[k] \in T
  <2>1. T \subseteq DOMAIN pieces
    OBVIOUS
  <2>2. Source(e) = Only(pieces, T)
    BY DEF Source
  <2>3. s = Only(pieces, T)
    BY <2>2
  <2> HIDE DEF T, s
  <2>4. /\ Only(pieces, T) \in Seq(TrackPiece) /\ Len(Only(pieces, T)) = n /\ n \in Nat /\ IsFiniteSet(T)
        /\ Lists(o, T)
        /\ \A j, k \in 1..n : j < k => o[j] < o[k]
        /\ \A k \in 1..n : Only(pieces, T)[k] = pieces[o[k]] /\ o[k] \in T
    BY <2>1, OnlyFacts
  <2> HIDE DEF o, n
  <2> QED BY <2>3, <2>4
<1>7. \A x \in T : \E k \in 1..n : o[k] = x
  BY <1>3 DEF Lists
<1> HIDE DEF T, s, o, n
<1>0. n \in Nat
  BY <1>3
<1>4. DOMAIN s = 1..n
  BY <1>3, LenProperties
<1>5. \A k \in 1..n : s[k].from \in Int /\ s[k].to \in Int /\ s[k].from < s[k].to /\ s[k].to <= L
  BY <1>1, <1>2, <1>3 DEF Plays, Forward, Stretches
<1>6. ASSUME NEW j \in 1..n, NEW k \in 1..n, j < k PROVE s[j].to <= s[k].from
  <2>1. o[j] < o[k] /\ o[j] \in Stretches(pieces, e) /\ o[k] \in Stretches(pieces, e)
    BY <1>2, <1>3, <1>6
  <2> QED BY <1>3, <2>1 DEF Plays, Forward
<1>8. got = {<<s[k].from, s[k].to>> : k \in 1..n}
  BY <1>4 DEF Range
<1>9. CutSet(got)
  <2> DEFINE w == [k \in 1..n |-> <<s[k].from, s[k].to>>]
  <2>1. IsFiniteSet({w[k] : k \in 1..n})
    <3> HIDE DEF w
    <3>1. IsFiniteSet(1..n)
      BY <1>0, FS_Interval
    <3>2. IsFiniteSet({w[k] : k \in 1..n})
      BY <3>1, FiniteImage
    <3> QED BY <3>2
  <2>2. {w[k] : k \in 1..n} = got
    BY <1>8
  <2>3. got \subseteq Pair
    BY <1>5, <1>8 DEF Pair
  <2>4. \A x \in got : x[1] < x[2]
    BY <1>5, <1>8
  <2> QED BY <2>1, <2>2, <2>3, <2>4 DEF CutSet
<1>10. \A t \in Int : (\E x \in got : Within(t, x)) <=> (\E k \in 1..n : s[k].from <= t /\ t < s[k].to)
  <2>1. \A k \in 1..n : <<s[k].from, s[k].to>>[1] = s[k].from /\ <<s[k].from, s[k].to>>[2] = s[k].to
    OBVIOUS
  <2>2. \A t, k : Within(t, <<s[k].from, s[k].to>>) <=> s[k].from <= t /\ t < s[k].to
    BY DEF Within
  <2> QED BY <1>8, <2>2
<1>11. \A t \in Int : t \in HeardOf(pieces, e) <=> \E k \in 1..n : s[k].from <= t /\ t < s[k].to
  <2>1. \A k \in 1..n : s[k] = pieces[o[k]] /\ o[k] \in Stretches(pieces, e)
    BY <1>2, <1>3
  <2>2. \A x \in Stretches(pieces, e) : \E k \in 1..n : o[k] = x
    BY <1>2, <1>7
  <2> QED BY <2>1, <2>2 DEF HeardOf
<1>12. \A t \in Int : t \in HeardOf(pieces, e) <=> 0 <= t /\ t < L /\ \A x \in S : ~Within(t, x)
  BY DEF Plays, Uncovered
<1>13. Merged(got) = SourceRanges(0, L, S)
  <2> HIDE DEF got, L, S
  <2>1. Canonical(Merged(got)) /\ \A t \in Int : t \in Points(Merged(got)) <=> \E x \in got : Within(t, x)
    BY <1>9, MergedFacts
  <2>2. /\ Canonical(SourceRanges(0, L, S))
        /\ \A t \in Int : t \in Points(SourceRanges(0, L, S)) <=>
                            0 <= t /\ 0 <= t /\ t < L /\ \A x \in S : ~Within(t, x)
    <3>1. L \in Int /\ CutSet(S)
      BY DEF L, S
    <3> QED BY <3>1, SourceRangesFacts
  <2>3. Points(Merged(got)) \subseteq Int /\ Points(SourceRanges(0, L, S)) \subseteq Int
    BY DEF Points
  <2>4. Points(Merged(got)) = Points(SourceRanges(0, L, S))
    BY <1>10, <1>11, <1>12, <2>1, <2>2, <2>3
  <2> QED BY <2>1, <2>2, <2>4, CanonicalUnique
<1>14. ASSUME NEW a \in 1..n, NEW b \in 1..n, a # b
       PROVE  ~Meets(<<s[a].from, s[a].to>>, <<s[b].from, s[b].to>>)
  <2>1. a < b \/ b < a
    BY <1>0, <1>14
  <2>2. s[a].to <= s[b].from \/ s[b].to <= s[a].from
    BY <2>1, <1>6
  <2> QED BY <2>2, <1>5 DEF Meets
<1>15. PlayedOnce(e)
  BY <1>4, <1>13, <1>14 DEF PlayedOnce, s
<1>16. \A k \in 2..n : s[k].from >= s[k - 1].to
  <2> SUFFICES ASSUME NEW k \in 2..n PROVE s[k].from >= s[k - 1].to
    OBVIOUS
  <2>1. k \in 1..n /\ k - 1 \in 1..n /\ k - 1 < k
    BY <1>0
  <2> QED BY <2>1, <1>5, <1>6
<1> QED BY <1>3, <1>15, <1>16 DEF s

-----------------------------------------------------------------------------
(* The states of a render. *)

RenderTypeOK ==
    /\ case \in Cases
    /\ stage \in {"script", "refused", "prepare", "speak", "place", "done", "failed"}
    /\ cues \in Seq(Cued(P))
    /\ \A e \in Eps : CutSet(CutsBy(found)[e]) /\ CutSet(Cuts(found.intro, e)) /\ CutSet(cut.of[e])
    /\ clip \in [DOMAIN P.frags -> Nat] /\ wav \in [DOMAIN P.frags -> Nat]
    /\ next \in Nat \ {0} /\ time \in Int /\ pieces \in Seq(TrackPiece)

\* How far an episode is laid out.
Reached(e) == IF e < next THEN P.length[e] ELSE 0

\* Before the timeline is begun it is empty, and the cues before the next one are spoken; then
\* all are, and every episode is played up to where it is laid out.
LaidOut ==
    /\ stage \in {"script", "prepare", "speak"} => pieces = << >>
    /\ stage \in {"script", "prepare"} => next = 1
    /\ stage = "speak" => \A k \in 1..Len(cues) : k < next => wav[cues[k].id] > 0
    /\ stage \in {"place", "done"} =>
         /\ \A k \in 1..Len(cues) : wav[cues[k].id] > 0
         /\ \A e \in Eps : Plays(pieces, e, Reached(e), cut.of[e])
    /\ stage = "done" => next > P.eps

\* What is used of the project.
LEMMA ProjectType ==
    ASSUME RenderTypeOK
    PROVE  /\ IsProject(P) /\ P.eps \in Nat \ {0} /\ Eps \subseteq Nat /\ \A e \in Eps : P.length[e] \in Nat
           /\ DOMAIN P.frags \subseteq Nat \ {0}
           /\ \A k \in 1..Len(cues) : cues[k] \in Cued(P) /\ cues[k].id \in DOMAIN P.frags
           /\ Len(cues) \in Nat /\ DOMAIN cues = 1..Len(cues)
<1>1. case \in Cases /\ IsProject(case.project)
  BY CasesAssumption DEF RenderTypeOK
<1>2. IsProject(P)
  BY <1>1 DEF P
<1>3. /\ P.eps \in Nat \ {0} /\ P.length \in [1..P.eps -> Nat] /\ P.frags \in Seq(Range(P.frags))
  BY <1>2 DEF IsProject
<1>4. Eps \subseteq Nat /\ \A e \in Eps : P.length[e] \in Nat
  BY <1>3 DEF Eps
<1>5. DOMAIN P.frags = 1..Len(P.frags) /\ Len(P.frags) \in Nat
  BY <1>3, LenProperties
<1>6. DOMAIN P.frags \subseteq Nat \ {0}
  BY <1>5
<1>7. Len(cues) \in Nat /\ DOMAIN cues = 1..Len(cues) /\ \A k \in 1..Len(cues) : cues[k] \in Cued(P)
  BY LenProperties, ElementOfSeq DEF RenderTypeOK
<1>8. \A c \in Cued(P) : c.id \in DOMAIN P.frags
  BY DEF Cued, CueSet
<1> QED BY <1>2, <1>3, <1>4, <1>6, <1>7, <1>8

\* A timeline on which nothing is played.
LEMMA NothingPlayed ==
    ASSUME NEW e, NEW S
    PROVE  << >> \in Seq(TrackPiece) /\ Plays(<< >>, e, 0, S)
<1>1. << >> \in Seq(TrackPiece) /\ Len(<< >>) = 0
  BY EmptySeq
<1>2. Stretches(<< >>, e) = {}
  BY <1>1 DEF Stretches
<1>3. Uncovered(S, 0) = {}
  BY DEF Uncovered
<1>4. HeardOf(<< >>, e) = {}
  BY <1>2 DEF HeardOf
<1> QED BY <1>1, <1>2, <1>3, <1>4 DEF Plays, Forward

(***************************************************************************)
(* Laying out an episode plays it to its end and leaves the others alone.  *)
(***************************************************************************)
LEMMA PlaceLaysOut ==
    ASSUME RenderTypeOK, LaidOut, Place
    PROVE  /\ pieces' \in Seq(TrackPiece) /\ time' \in Int
           /\ \A e \in Eps : Plays(pieces', e, Reached(e)', cut.of[e])
<1> DEFINE e == next
           placed == ByPlace(cues)
           T == {k \in DOMAIN placed : placed[k].ep = e}
           mine == Only(placed, T)
           empty == [cursor |-> 0, time |-> time, pieces |-> pieces, reason |-> "none"]
           laid == AllPut(e, empty, mine)
           ended == AppendSource(laid, e, P.length[e])
<1>1. /\ stage = "place" /\ e <= P.eps /\ pieces' = ended.pieces /\ next' = next + 1 /\ UNCHANGED <<case, cut>>
      /\ time' = IF laid.cursor < P.length[e] THEN ended.time + EndPause ELSE ended.time
  BY DEF Place, AllPut
<1>2. e \in Eps /\ e \in Nat
  <2>1. P.eps \in Nat /\ e \in Nat \ {0} /\ e <= P.eps
    BY <1>1, ProjectType DEF RenderTypeOK
  <2> QED BY <2>1 DEF Eps
<1>3. /\ P.length[e] \in Nat /\ CutSet(cut.of[e])
      /\ CadenceIn \in Nat /\ CadenceOut \in Nat /\ EndPause \in Nat /\ DOMAIN P.frags \subseteq Nat
  BY <1>2, ProjectType, RenderBounds DEF RenderTypeOK
<1>4. Placeable(e)
  BY <1>2, <1>3 DEF Placeable
<1>5. cues \in Seq(Audible)
  <2>1. \A k \in 1..Len(cues) : cues[k] \in Audible
    <3> SUFFICES ASSUME NEW k \in 1..Len(cues) PROVE cues[k] \in Audible
      OBVIOUS
    <3>1. cues[k] \in Cued(P) /\ cues[k].id \in DOMAIN P.frags /\ wav[cues[k].id] > 0
      BY <1>1, ProjectType DEF LaidOut
    <3>2. wav[cues[k].id] \in Nat
      BY <3>1 DEF RenderTypeOK
    <3> QED BY <3>1, <3>2 DEF Audible
  <2>2. cues \in Seq(Cued(P))
    BY DEF RenderTypeOK
  <2> QED BY <2>1, <2>2, ProjectType, IsASeq
<1>6. mine \in Seq(Audible)
  <2>1. \A c \in Audible : c.ep \in Int /\ c.at \in Int
    <3> SUFFICES ASSUME NEW c \in Audible PROVE c.ep \in Int /\ c.at \in Int
      OBVIOUS
    <3>1. c.ep \in 1..P.eps /\ c.at \in Int
      BY DEF Audible, Cued, CueSet
    <3> QED BY <3>1
  <2>2. placed \in Seq(Audible)
    BY <1>5, <2>1, ByPlaceType
  <2>3. T \subseteq DOMAIN placed
    OBVIOUS
  <2> HIDE DEF placed, T
  <2> QED BY <2>2, <2>3, OnlyFacts
<1>7. empty \in LaidOver(pieces, e)
  <2>1. empty \in Laying
    BY DEF Laying, RenderTypeOK
  <2>2. Plays(pieces, e, 0, cut.of[e])
    <3>1. Reached(e) = 0
      BY <1>2 DEF Reached
    <3>2. Plays(pieces, e, Reached(e), cut.of[e])
      BY <1>1, <1>2 DEF LaidOut
    <3> QED BY <3>1, <3>2
  <2>3. OthersStay(pieces, pieces, e)
    BY DEF OthersStay
  <2> QED BY <1>3, <2>1, <2>2, <2>3 DEF LaidOver
<1> HIDE DEF mine, empty
<1>8. laid \in LaidOver(pieces, e)
  BY <1>4, <1>6, <1>7, AllPutType
<1> HIDE DEF laid
<1>9. /\ laid \in Laying /\ laid.cursor \in Int /\ 0 <= laid.cursor /\ laid.cursor <= P.length[e]
      /\ Plays(laid.pieces, e, laid.cursor, cut.of[e])
      /\ OthersStay(pieces, laid.pieces, e)
  BY <1>8 DEF LaidOver, Laying
<1>10. LET u == AppendSource(laid, e, P.length[e]) IN
       /\ u \in Laying /\ u.cursor = (IF laid.cursor >= P.length[e] THEN laid.cursor ELSE P.length[e])
       /\ u.reason = laid.reason
       /\ Plays(u.pieces, e, u.cursor, cut.of[e])
       /\ OthersStay(laid.pieces, u.pieces, e)
  <2>1. P.length[e] \in Int
    BY <1>3
  <2> QED BY <1>2, <1>3, <1>9, <2>1, AppendSourceFacts
<1>11. /\ ended \in Laying /\ ended.pieces \in Seq(TrackPiece) /\ ended.time \in Int
       /\ Plays(ended.pieces, e, P.length[e], cut.of[e])
       /\ OthersStay(laid.pieces, ended.pieces, e)
  <2>1. (IF laid.cursor >= P.length[e] THEN laid.cursor ELSE P.length[e]) = P.length[e]
    BY <1>3, <1>9
  <2> QED BY <1>10, <2>1 DEF Laying
<1> HIDE DEF ended
<1>12. ASSUME NEW o \in Eps PROVE Plays(pieces', o, Reached(o)', cut.of[o])
  <2>1. Reached(o)' = IF o < e + 1 THEN P.length[o] ELSE 0
    BY <1>1 DEF Reached, P
  <2>2. CASE o = e
    BY <1>1, <1>2, <1>11, <2>1, <2>2
  <2>3. CASE o # e
    <3>1. o \in Nat
      BY ProjectType
    <3>2. Reached(o)' = Reached(o)
      BY <1>2, <2>1, <2>3, <3>1 DEF Reached
    <3>3. Plays(pieces, o, Reached(o), cut.of[o])
      BY <1>1 DEF LaidOut
    <3>4. Plays(ended.pieces, o, Reached(o), cut.of[o])
      BY <1>9, <1>11, <2>3, <3>3 DEF OthersStay
    <3> QED BY <1>1, <3>2, <3>4
  <2> QED BY <2>2, <2>3
<1> QED BY <1>1, <1>3, <1>11, <1>12

-----------------------------------------------------------------------------
(* What a render does to the cues, and what it cuts. *)

\* An insertion goes back to its scene, the other cues stay.
LEMMA RealignType ==
    ASSUME IsProject(P), NEW c \in Cued(P)
    PROVE  /\ Realign(c) \in Cued(P) /\ Realign(c).ep = c.ep
           /\ Realign(c).policy \in Overlays => Realign(c) = c
<1>1. c \in CueSet(P)
  BY DEF Cued
<1>2. CASE c.policy = Insert
  <2>1. Realign(c) = AlignInsert(P, c)
    BY <1>2 DEF Realign
  <2>2. AlignInsert(P, c) \in Cued(P) /\ AlignInsert(P, c).policy = Insert /\ AlignInsert(P, c).ep = c.ep
    BY <1>1, AlignInsertType
  <2> QED BY <2>1, <2>2 DEF Insert, Overlays
<1>3. CASE c.policy # Insert
  BY <1>3 DEF Realign
<1> QED BY <1>2, <1>3

\* A cue moves away from speech and stays the cue it was.
LEMMA SnapType ==
    ASSUME IsProject(P), NEW c \in Cued(P)
    PROVE  /\ Snap(c) \in Cued(P) /\ Snap(c).ep = c.ep /\ Snap(c).id = c.id /\ Snap(c).policy = c.policy
           /\ Snap(c).gap = c.gap
<1> DEFINE a == SafeInsert(c.at, Speech(P, c.ep))
           b == SafeInsert(c.bound, Speech(P, c.ep))
           d == [c EXCEPT !.at = a, !.bound = b]
<1>1. c \in CueSet(P) /\ (c.policy \in Overlays => c.gap \in Pair)
  BY DEF Cued
<1>2. c.at \in Int /\ c.bound \in Int
  BY <1>1 DEF CueSet
<1>3. a \in Int /\ b \in Int
  BY <1>2, SpeechType, SafeInsertType
<1>4. Snap(c) = IF c.policy = "overlay_speech_free" THEN c ELSE d
  BY DEF Snap
<1> HIDE DEF a, b
<1>5. d \in CueSet(P) /\ d.ep = c.ep /\ d.id = c.id /\ d.policy = c.policy /\ d.gap = c.gap
  BY <1>1, <1>3 DEF CueSet
<1> HIDE DEF d
<1>6. d \in Cued(P)
  BY <1>1, <1>5 DEF Cued
<1> QED BY <1>4, <1>5, <1>6

(***************************************************************************)
(* A cue is taken out of what is cut: unless it is stranded there is a     *)
(* line to go to.                                                          *)
(***************************************************************************)
LEMMA ReanchorType ==
    ASSUME IsProject(P), NEW cuts, NEW c \in Cued(P), CutSet(cuts[c.ep]), ~Stranded(cuts, c)
    PROVE  /\ Reanchor(cuts, c) \in Cued(P) /\ Reanchor(cuts, c).ep = c.ep
           /\ Reanchor(cuts, c).policy \in Overlays =>
                \A iv \in cuts[c.ep] : ~Meets(Reanchor(cuts, c).gap, iv)
<1> DEFINE hit == {iv \in cuts[c.ep] : Within(c.at, iv) \/ (c.gap # << >> /\ Meets(c.gap, iv))}
           first == InOrder(hit)[1]
           held == Range(KeptLines(P, cuts, c.ep))
           later == {k \in held : P.lines[k].from >= first[2]}
           earlier == {k \in held : P.lines[k].to <= first[1]}
           k == IF later # {} THEN Min(later) ELSE Max(earlier)
           d == [c EXCEPT !.anchor = k, !.start = P.lines[k].from, !.side = "after"]
<1>1. Reanchor(cuts, c) = IF hit = {} THEN c ELSE AlignInsert(P, d)
  BY DEF Reanchor
<1>2. c \in CueSet(P) /\ (c.policy \in Overlays => c.gap \in Pair)
  BY DEF Cued
<1>3. CASE hit = {}
  <2>1. ASSUME c.policy \in Overlays, NEW iv \in cuts[c.ep] PROVE ~Meets(c.gap, iv)
    <3>1. c.gap # << >>
      BY <1>2, <2>1 DEF Pair
    <3> QED BY <3>1, <1>3
  <2> QED BY <1>1, <1>3, <2>1
<1>4. CASE hit # {}
  <2>1. IsFiniteSet(hit) /\ hit \subseteq Pair
    <3>1. hit \subseteq cuts[c.ep] /\ IsFiniteSet(cuts[c.ep])
      BY DEF CutSet
    <3> HIDE DEF hit
    <3> QED BY <3>1, FS_Subset DEF CutSet
  <2>2. first \in hit
    <3> HIDE DEF hit
    <3>1. Lists(InOrder(hit), hit)
      BY <2>1, InOrderFacts DEF Pair
    <3>2. PICK x \in hit : TRUE
      BY <1>4
    <3>3. Len(InOrder(hit)) \in Nat /\ \E j \in 1..Len(InOrder(hit)) : InOrder(hit)[j] = x
      BY <3>1 DEF Lists
    <3>4. 1 \in 1..Len(InOrder(hit))
      BY <3>3
    <3> QED BY <3>1, <3>4 DEF Lists
  <2>3. first[1] \in Int /\ first[2] \in Int /\ first \in cuts[c.ep]
        /\ (Within(c.at, first) \/ (c.gap # << >> /\ Meets(c.gap, first)))
    <3>1. first \in Pair
      BY <2>1, <2>2
    <3> HIDE DEF first
    <3> QED BY <3>1, <2>2 DEF Pair
  <2> HIDE DEF first, hit
  <2>4. PICK j \in held : ~(P.lines[j].from < first[2] /\ P.lines[j].to > first[1])
    BY <2>3 DEF Stranded
  <2>5. held \subseteq DOMAIN P.lines /\ IsFiniteSet(held) /\ DOMAIN P.lines \subseteq Int
        /\ \A i \in held : P.lines[i].from \in Int /\ P.lines[i].to \in Int
    <3>1. held \subseteq DOMAIN P.lines /\ IsFiniteSet(held)
      BY KeptType
    <3>2. DOMAIN P.lines = 1..Len(P.lines) /\ \A i \in DOMAIN P.lines : P.lines[i].from \in Int /\ P.lines[i].to \in Int
      BY Lines
    <3> HIDE DEF held
    <3> QED BY <3>1, <3>2
  <2> HIDE DEF held
  <2>6. k \in held
    <3>1. IsFiniteSet(later) /\ later \subseteq Int /\ later \subseteq held
      BY <2>5, FS_Subset
    <3>2. IsFiniteSet(earlier) /\ earlier \subseteq Int /\ earlier \subseteq held
      BY <2>5, FS_Subset
    <3>3. later # {} \/ earlier # {}
      BY <2>3, <2>4, <2>5
    <3> HIDE DEF later, earlier
    <3>4. CASE later # {}
      <4>1. Min(later) \in later
        BY <3>1, <3>4, MinOf
      <4> QED BY <3>1, <3>4, <4>1
    <3>5. CASE later = {}
      <4>1. Max(earlier) \in earlier
        BY <3>2, <3>3, <3>5, MaxOf
      <4> QED BY <3>2, <3>5, <4>1
    <3> QED BY <3>4, <3>5
  <2>7. k \in DOMAIN P.lines /\ P.lines[k].from \in Int
    BY <2>5, <2>6
  <2> HIDE DEF k
  <2>8. d \in CueSet(P) /\ d.ep = c.ep
    BY <1>2, <2>7 DEF CueSet
  <2> HIDE DEF d
  <2>9. AlignInsert(P, d) \in Cued(P) /\ AlignInsert(P, d).policy = Insert /\ AlignInsert(P, d).ep = d.ep
    BY <2>8, AlignInsertType
  <2> QED BY <1>1, <1>4, <2>8, <2>9 DEF Insert, Overlays
<1> QED BY <1>3, <1>4

\* What a case is: a project, fingerprints of its episodes, answers and recordings.
LEMMA CaseType ==
    ASSUME case \in Cases
    PROVE  /\ IsProject(P) /\ IsPrints(case.prints.intro) /\ IsPrints(case.prints.bumper)
           /\ IsPrints(case.prints.ending) /\ Talking(P.lines)
           /\ case.answer \in Seq(Range(case.answer)) /\ \A m \in Range(case.answer) : IsMatch(P, m)
           /\ case.clips \subseteq Nat \ {0}
<1>1. /\ IsProject(case.project)
      /\ \A fps \in {case.prints.intro, case.prints.bumper, case.prints.ending} : IsPrints(fps)
      /\ case.answer \in Seq(Range(case.answer)) /\ \A m \in Range(case.answer) : IsMatch(case.project, m)
      /\ case.clips \subseteq Nat \ {0}
  BY CasesAssumption
<1>2. IsProject(P)
  BY <1>1 DEF P
<1>3. Talking(P.lines)
  <2>1. IsFiniteSet(Range(P.lines))
    BY <1>2, Lines
  <2>2. \A l \in Range(P.lines) : l.from \in Int /\ l.to \in Int
    BY <1>2 DEF IsProject
  <2> QED BY <2>1, <2>2 DEF Talking
<1> QED BY <1>1, <1>2, <1>3 DEF P

(***************************************************************************)
(* Whatever was looked for and found cuts stretches out of the episodes.   *)
(***************************************************************************)
LEMMA SearchedCuts ==
    ASSUME case \in Cases, NEW e
    PROVE  /\ CutSet(Cuts(DetectRepeated(case.prints.intro, MinIntro), e))
           /\ CutSet(Cuts(Bumper, e)) /\ CutSet(Cuts(Ending, e))
           /\ CutSet(Cuts(Undetected("none"), e))
<1>1. CutSet(Cuts(DetectRepeated(case.prints.intro, MinIntro), e))
  <2> DEFINE f == case.prints.intro
             d == DetectRepeated(f, MinIntro)
             E == DOMAIN f
  <2>1. MinIntro \in Nat \ {0} /\ IsPrints(f)
    BY CaseType, DetectionBounds
  <2>2. d.occ \in Seq(Occurrences(E))
    BY <2>1, DetectRepeatedType
  <2> HIDE DEF d, E
  <2>3. CutSet(Cuts(d, e))
    BY <2>2, CutsType
  <2> QED BY <2>3 DEF d
<1>2. CutSet(Cuts(Bumper, e))
  <2> DEFINE f == case.prints.bumper
             l == P.lines
             E == DOMAIN f
  <2>1. IsPrints(f) /\ Talking(l)
    BY CaseType
  <2>2. Bumper = DetectSafeBumper(f, l)
    BY DEF Bumper
  <2>3. DetectSafeBumper(f, l).occ \in Seq(Occurrences(E))
    BY <2>1, DetectSafeBumperType
  <2> HIDE DEF E
  <2>4. Bumper.occ \in Seq(Occurrences(E))
    BY <2>2, <2>3
  <2> QED BY <2>4, CutsType
<1>3. CutSet(Cuts(Ending, e))
  <2> DEFINE f == case.prints.ending
             E == DOMAIN f
  <2>1. IsPrints(f)
    BY CaseType
  <2>2. Ending.occ \in Seq(Occurrences(E))
    BY <2>1, DetectEndingType DEF Ending
  <2> HIDE DEF E
  <2> QED BY <2>2, CutsType
<1>4. CutSet(Cuts(Undetected("none"), e))
  <2>1. Cuts(Undetected("none"), e) = {}
    BY DEF Cuts, Undetected
  <2> QED BY <2>1, FS_EmptySet DEF CutSet
<1> QED BY <1>1, <1>2, <1>3, <1>4

\* What is found in an episode can be cut from it.
LEMMA CutsByType ==
    ASSUME NEW f, NEW e \in Eps,
           CutSet(Cuts(f.intro, e)), CutSet(Cuts(f.bumper, e)), CutSet(Cuts(f.ending, e))
    PROVE  CutSet(CutsBy(f)[e])
<1>1. CutsBy(f)[e] = Cuts(f.intro, e) \cup Cuts(f.bumper, e) \cup Cuts(f.ending, e)
  BY DEF CutsBy
<1>2. CutSet(Cuts(f.intro, e) \cup Cuts(f.bumper, e))
  BY CutsTogether
<1> QED BY <1>1, <1>2, CutsTogether

\* What is cut of an episode when the edges of the book are found too.
LEMMA ExcludedType ==
    ASSUME IsProject(P), NEW told \in Seq(Cued(P)), NEW e \in Eps,
           CutSet(Cuts(found.intro, 1)), CutSet(CutsBy(found)[e])
    PROVE  CutSet(Excluded(Edge(told))[e])
<1> DEFINE b == BookBoundary(P, Cuts(found.intro, 1), told)
           h == IF e = 1 THEN b.head ELSE {}
           t == IF e = P.eps THEN b.tail ELSE {}
<1>1. Excluded(Edge(told))[e] = CutsBy(found)[e] \cup h \cup t
  BY DEF Excluded, Edge
<1>2. CutSet(b.head) /\ CutSet(b.tail)
  BY BookBoundaryType
<1>3. CutSet({})
  BY FS_EmptySet DEF CutSet
<1> HIDE DEF b
<1>4. CutSet(h) /\ CutSet(t)
  BY <1>2, <1>3
<1> HIDE DEF h, t
<1>5. CutSet(CutsBy(found)[e] \cup h)
  BY <1>4, CutsTogether
<1> QED BY <1>1, <1>4, <1>5, CutsTogether

-----------------------------------------------------------------------------
(* The invariant of a render, step by step. *)

\* No narration is laid over a pause something is cut from.
GapsKept ==
    stage \in {"speak", "place", "done"} =>
      \A k \in 1..Len(cues) : cues[k].policy \in Overlays =>
        \A iv \in CutsBy(found)[cues[k].ep] : ~Meets(cues[k].gap, iv)

RenderInv == RenderTypeOK /\ LaidOut /\ GapsKept

Stages == {"script", "refused", "prepare", "speak", "place", "done", "failed"}

\* A step that works on one case keeps its project and, unless it looks again, what was found.
LEMMA SameCase ==
    ASSUME case' = case
    PROVE  /\ P' = P /\ Eps' = Eps
           /\ \A e \in Eps : CutsBy(found)'[e] = Cuts(found'.intro, e) \cup Cuts(found'.bumper, e)
                                                  \cup Cuts(found'.ending, e)
           /\ found' = found => CutsBy(found)' = CutsBy(found)
           /\ \A e : next' = next => Reached(e)' = Reached(e)
<1>1. P' = P
  BY DEF P
<1>2. Eps' = Eps
  BY <1>1 DEF Eps
<1>3. CutsBy(found)' = [e \in Eps |-> Cuts(found'.intro, e) \cup Cuts(found'.bumper, e) \cup Cuts(found'.ending, e)]
  BY <1>2 DEF CutsBy
<1>4. CutsBy(found) = [e \in Eps |-> Cuts(found.intro, e) \cup Cuts(found.bumper, e) \cup Cuts(found.ending, e)]
  BY DEF CutsBy
<1>5. ASSUME NEW e, next' = next PROVE Reached(e)' = Reached(e)
  BY <1>1, <1>5 DEF Reached
<1> QED BY <1>1, <1>2, <1>3, <1>4, <1>5

\* A step that works on one case keeps the types if what it changes has them.
LEMMA SameTypes ==
    ASSUME RenderTypeOK, case' = case, stage' \in Stages, cues' \in Seq(Cued(P)),
           \A e \in Eps : CutSet(CutsBy(found)'[e]) /\ CutSet(Cuts(found'.intro, e)) /\ CutSet(cut'.of[e]),
           clip' \in [DOMAIN P.frags -> Nat], wav' \in [DOMAIN P.frags -> Nat],
           next' \in Nat \ {0}, time' \in Int, pieces' \in Seq(TrackPiece)
    PROVE  RenderTypeOK'
<1>1. P' = P /\ Eps' = Eps
  BY SameCase
<1> QED BY <1>1 DEF RenderTypeOK, Stages

\* The invariant holds when the script is not yet written.
LEMMA InitKeeps == RenderInit => RenderInv
<1> SUFFICES ASSUME RenderInit PROVE RenderInv
  OBVIOUS
<1>1. /\ case \in Cases /\ stage = "script" /\ cues = << >> /\ found = Unsearched
      /\ clip = [f \in DOMAIN P.frags |-> 0] /\ wav = clip /\ cut = Uncut
      /\ next = 1 /\ time = 0 /\ pieces = << >>
  BY DEF RenderInit
<1>2. cues \in Seq(Cued(P)) /\ pieces \in Seq(TrackPiece)
  BY <1>1, EmptySeq
<1>3. ASSUME NEW e \in Eps PROVE CutSet(CutsBy(found)[e]) /\ CutSet(Cuts(found.intro, e)) /\ CutSet(cut.of[e])
  <2>1. CutSet(Cuts(found.intro, e)) /\ CutSet(Cuts(found.bumper, e)) /\ CutSet(Cuts(found.ending, e))
    BY <1>1, SearchedCuts DEF Unsearched
  <2>2. CutSet(CutsBy(found)[e])
    BY <2>1, CutsByType
  <2>3. cut.of[e] = {}
    BY <1>1 DEF Uncut
  <2> QED BY <2>1, <2>2, <2>3, FS_EmptySet DEF CutSet
<1>4. RenderTypeOK
  BY <1>1, <1>2, <1>3 DEF RenderTypeOK
<1>5. LaidOut
  BY <1>1 DEF LaidOut
<1>6. GapsKept
  BY <1>1 DEF GapsKept
<1> QED BY <1>4, <1>5, <1>6 DEF RenderInv

\* The script: the cues that were applied are cues of the project.
LEMMA WriteScriptKeeps == ASSUME RenderInv, WriteScript PROVE RenderInv'
<1>0. RenderTypeOK /\ LaidOut
  BY DEF RenderInv
<1>1. PICK early \in {Unsearched, [Unsearched EXCEPT !.bumper = Bumper, !.ending = Ending]} :
      \E cuts \in {CutsBy(early)} : \E raw \in {Generate(P, cuts)} :
      \E applied \in {Apply(P, cuts, raw, case.answer)} :
        IF raw # << >> /\ applied.ok /\ BookBoundary(P, {}, applied.cues).ok
        THEN stage' = "prepare" /\ cues' = applied.cues /\ found' = early
        ELSE stage' = "refused" /\ UNCHANGED <<cues, found>>
  BY DEF WriteScript
<1>2. stage = "script" /\ UNCHANGED <<case, clip, wav, cut, next, time, pieces>>
  BY DEF WriteScript
<1> DEFINE cuts == CutsBy(early)
           raw == Generate(P, cuts)
           applied == Apply(P, cuts, raw, case.answer)
<1>3. \/ applied.ok /\ stage' = "prepare" /\ cues' = applied.cues /\ found' = early
      \/ stage' = "refused" /\ UNCHANGED <<cues, found>>
  <2> HIDE DEF cuts, raw, applied
  <2> QED BY <1>1 DEF cuts, raw, applied
<1>4. IsProject(P) /\ case \in Cases /\ case' = case
  BY <1>0, <1>2, ProjectType DEF RenderTypeOK
<1>5. ASSUME NEW e \in Eps
      PROVE  CutSet(Cuts(early.intro, e)) /\ CutSet(Cuts(early.bumper, e)) /\ CutSet(Cuts(early.ending, e))
  <2>1. CutSet(Cuts(Bumper, e)) /\ CutSet(Cuts(Ending, e)) /\ CutSet(Cuts(Undetected("none"), e))
    BY <1>4, SearchedCuts
  <2> DEFINE u == [Unsearched EXCEPT !.bumper = Bumper, !.ending = Ending]
  <2>2. /\ u.intro = Undetected("none") /\ u.bumper = Bumper /\ u.ending = Ending
        /\ Unsearched.intro = Undetected("none") /\ Unsearched.bumper = Undetected("none")
        /\ Unsearched.ending = Undetected("none")
    BY DEF Unsearched
  <2>3. early = u \/ early = Unsearched
    OBVIOUS
  <2> HIDE DEF u
  <2> QED BY <2>1, <2>2, <2>3
<1>6. \A e \in Eps : CutSet(CutsBy(early)[e])
  BY <1>5, CutsByType
<1>7. applied.ok => applied.cues \in Seq(Cued(P))
  <2> SUFFICES ASSUME applied.ok PROVE applied.cues \in Seq(Cued(P))
    OBVIOUS
  <2>1. \A e \in 1..P.eps : CutSet(cuts[e])
    BY <1>6 DEF Eps
  <2> HIDE DEF cuts
  <2>2. raw \in Seq(Cued(P))
    BY <1>4, <2>1, GenerateType
  <2> HIDE DEF raw
  <2> DEFINE answer == case.answer
  <2>3. answer \in Seq(Range(answer)) /\ \A m \in Range(answer) : IsMatch(P, m)
    BY <1>4, CaseType
  <2>4. applied = Apply(P, cuts, raw, answer)
    OBVIOUS
  <2> HIDE DEF answer, applied
  <2>5. Apply(P, cuts, raw, answer).ok
    BY <2>4
  <2>6. Apply(P, cuts, raw, answer).cues \in Seq(Cued(P))
    BY <1>4, <2>1, <2>2, <2>3, <2>5, ApplyType
  <2> QED BY <2>4, <2>6
<1> HIDE DEF applied, raw, cuts
<1>8. cues' \in Seq(Cued(P))
  BY <1>0, <1>3, <1>7 DEF RenderTypeOK
<1>9. \A e \in Eps : CutSet(CutsBy(found)'[e]) /\ CutSet(Cuts(found'.intro, e))
  <2>1. CASE found' = early
    <3>1. \A e \in Eps : CutsBy(found)'[e] = CutsBy(early)[e]
      BY <1>4, <2>1, SameCase DEF CutsBy
    <3> QED BY <1>5, <1>6, <2>1, <3>1
  <2>2. CASE found' = found
    BY <1>0, <1>4, <2>2, SameCase DEF RenderTypeOK
  <2> QED BY <1>3, <2>1, <2>2
<1>10. RenderTypeOK'
  <2>1. stage' \in Stages
    BY <1>3 DEF Stages
  <2>2. cut' = cut /\ clip' = clip /\ wav' = wav /\ next' = next /\ time' = time /\ pieces' = pieces
    BY <1>2
  <2>3. /\ \A e \in Eps : CutSet(cut'.of[e])
        /\ clip' \in [DOMAIN P.frags -> Nat] /\ wav' \in [DOMAIN P.frags -> Nat]
        /\ next' \in Nat \ {0} /\ time' \in Int /\ pieces' \in Seq(TrackPiece)
    BY <1>0, <2>2 DEF RenderTypeOK
  <2> QED BY <1>0, <1>4, <1>8, <1>9, <2>1, <2>3, SameTypes
<1>11. LaidOut' /\ GapsKept'
  <2>1. stage' \in {"prepare", "refused"} /\ pieces' = << >> /\ next' = 1
    BY <1>0, <1>2, <1>3 DEF LaidOut
  <2> QED BY <2>1 DEF LaidOut, GapsKept
<1> QED BY <1>10, <1>11 DEF RenderInv

\* The cues are moved out of what is cut, so no overlay has a cut in its pause.
LEMMA PrepareKeeps == ASSUME RenderInv, Prepare PROVE RenderInv'
<1>0. RenderTypeOK /\ LaidOut
  BY DEF RenderInv
<1> DEFINE all == [intro |-> DetectRepeated(case.prints.intro, MinIntro), bumper |-> Bumper, ending |-> Ending]
           cuts == CutsBy(all)
           Ready(c) == Snap(Realign(Reanchor(cuts, c)))
<1>1. /\ stage = "prepare" /\ UNCHANGED <<case, clip, wav, cut, next, time, pieces>> /\ found' = all
      /\ \/ stage' = "failed" /\ UNCHANGED cues
         \/ /\ ~ \E c \in Range(cues) : Stranded(cuts, c)
            /\ stage' = "speak" /\ cues' = [k \in DOMAIN cues |-> Ready(cues[k])]
  BY DEF Prepare
<1>2. IsProject(P) /\ case \in Cases /\ case' = case
  BY <1>0, <1>1, ProjectType DEF RenderTypeOK
<1>3. ASSUME NEW e \in Eps
      PROVE  CutSet(Cuts(all.intro, e)) /\ CutSet(Cuts(all.bumper, e)) /\ CutSet(Cuts(all.ending, e))
  BY <1>2, SearchedCuts
<1> HIDE DEF all
<1>4. \A e \in Eps : CutSet(cuts[e])
  BY <1>3, CutsByType
<1>5. \A e \in Eps : CutsBy(found)'[e] = cuts[e]
  BY <1>1, <1>2, SameCase DEF CutsBy
<1> HIDE DEF cuts
<1>6. ASSUME NEW c \in Cued(P), ~Stranded(cuts, c)
      PROVE  /\ Ready(c) \in Cued(P) /\ Ready(c).ep = c.ep /\ c.ep \in Eps
             /\ Ready(c).policy \in Overlays => \A iv \in cuts[c.ep] : ~Meets(Ready(c).gap, iv)
  <2> DEFINE a == Reanchor(cuts, c)
             b == Realign(a)
             d == Snap(b)
  <2>1. c.ep \in Eps
    BY DEF Cued, CueSet, Eps
  <2>2. /\ a \in Cued(P) /\ a.ep = c.ep
        /\ a.policy \in Overlays => \A iv \in cuts[c.ep] : ~Meets(a.gap, iv)
    BY <1>2, <1>4, <1>6, <2>1, ReanchorType
  <2>5. Ready(c) = d
    OBVIOUS
  <2> HIDE DEF a
  <2>3. b \in Cued(P) /\ b.ep = a.ep /\ (b.policy \in Overlays => b = a)
    BY <1>2, <2>2, RealignType
  <2> HIDE DEF b
  <2>4. d \in Cued(P) /\ d.ep = b.ep /\ d.policy = b.policy /\ d.gap = b.gap
    BY <1>2, <2>3, SnapType
  <2> HIDE DEF d, Ready
  <2> QED BY <2>1, <2>2, <2>3, <2>4, <2>5
<1> HIDE DEF Ready
<1>7. Len(cues) \in Nat /\ DOMAIN cues = 1..Len(cues) /\ \A k \in 1..Len(cues) : cues[k] \in Cued(P)
  BY <1>0, ProjectType
<1>8. ASSUME stage' = "speak" /\ cues' = [k \in DOMAIN cues |-> Ready(cues[k])],
             ~ \E c \in Range(cues) : Stranded(cuts, c)
      PROVE  cues' \in Seq(Cued(P)) /\ GapsKept'
  <2>1. \A k \in 1..Len(cues) : ~Stranded(cuts, cues[k])
    BY <1>7, <1>8 DEF Range
  <2>2. \A k \in 1..Len(cues) : /\ Ready(cues[k]) \in Cued(P) /\ Ready(cues[k]).ep = cues[k].ep /\ cues[k].ep \in Eps
                                /\ Ready(cues[k]).policy \in Overlays =>
                                     \A iv \in cuts[cues[k].ep] : ~Meets(Ready(cues[k]).gap, iv)
    BY <1>6, <1>7, <2>1
  <2>3. cues' \in Seq(Cued(P)) /\ Len(cues') = Len(cues) /\ \A k \in 1..Len(cues) : cues'[k] = Ready(cues[k])
    <3>1. cues' = [k \in 1..Len(cues) |-> Ready(cues[k])]
      BY <1>7, <1>8
    <3>2. cues' \in Seq(Cued(P))
      BY <1>7, <2>2, <3>1, IsASeq
    <3>3. DOMAIN cues' = 1..Len(cues)
      BY <3>1
    <3>4. Len(cues') = Len(cues)
      BY <1>7, <3>2, <3>3, LenProperties
    <3> QED BY <3>1, <3>2, <3>4
  <2>4. GapsKept'
    <3> SUFFICES ASSUME NEW k \in 1..Len(cues'), cues'[k].policy \in Overlays,
                        NEW iv \in CutsBy(found)'[cues'[k].ep]
                 PROVE  ~Meets(cues'[k].gap, iv)
      BY DEF GapsKept, Overlays
    <3>1. k \in 1..Len(cues) /\ cues'[k] = Ready(cues[k])
      BY <2>3
    <3>2. cues'[k].ep = cues[k].ep /\ cues[k].ep \in Eps
      BY <2>2, <3>1
    <3>3. iv \in cuts[cues[k].ep]
      BY <1>5, <3>2
    <3> QED BY <2>2, <3>1, <3>3
  <2> QED BY <2>3, <2>4
<1>9. cues' \in Seq(Cued(P)) /\ GapsKept' /\ stage' \in {"speak", "failed"}
  <2>1. CASE stage' = "failed" /\ UNCHANGED cues
    BY <1>0, <2>1 DEF GapsKept, RenderTypeOK
  <2>2. \/ stage' = "failed" /\ UNCHANGED cues
        \/ /\ stage' = "speak" /\ cues' = [k \in DOMAIN cues |-> Ready(cues[k])]
           /\ ~ \E c \in Range(cues) : Stranded(cuts, c)
    BY <1>1
  <2>3. CASE stage' = "speak" /\ cues' = [k \in DOMAIN cues |-> Ready(cues[k])]
             /\ ~ \E c \in Range(cues) : Stranded(cuts, c)
    <3>1. cues' \in Seq(Cued(P)) /\ GapsKept'
      BY <1>8, <2>3
    <3> QED BY <2>3, <3>1
  <2> QED BY <2>1, <2>2, <2>3
<1>10. RenderTypeOK'
  <2>1. stage' \in Stages
    BY <1>9 DEF Stages
  <2>2. cut' = cut /\ clip' = clip /\ wav' = wav /\ next' = next /\ time' = time /\ pieces' = pieces
    BY <1>1
  <2>3. /\ \A e \in Eps : CutSet(cut'.of[e])
        /\ clip' \in [DOMAIN P.frags -> Nat] /\ wav' \in [DOMAIN P.frags -> Nat]
        /\ next' \in Nat \ {0} /\ time' \in Int /\ pieces' \in Seq(TrackPiece)
    BY <1>0, <2>2 DEF RenderTypeOK
  <2>4. \A e \in Eps : CutSet(CutsBy(found)'[e]) /\ CutSet(Cuts(found'.intro, e))
    BY <1>1, <1>3, <1>4, <1>5
  <2> QED BY <1>0, <1>2, <1>9, <2>1, <2>3, <2>4, SameTypes
<1>11. LaidOut'
  <2>1. pieces' = << >> /\ next' = 1
    BY <1>0, <1>1 DEF LaidOut
  <2> QED BY <1>9, <2>1 DEF LaidOut
<1> QED BY <1>9, <1>10, <1>11 DEF RenderInv

\* What a narration may last, and how long it is at least.
LEMMA BudgetType ==
    ASSUME NEW c \in Cued(P)
    PROVE  Budget(c) \in Int
<1>1. ClipLimit \in Int
  BY RenderBounds
<1>2. CASE c.policy \in Overlays
  <2> DEFINE l == c.gap[2] - c.gap[1]
  <2>1. c.gap \in Pair
    BY <1>2 DEF Cued
  <2>2. l \in Int
    BY <2>1 DEF Pair
  <2>3. Budget(c) = Min({ClipLimit, l})
    BY <1>2 DEF Budget
  <2> HIDE DEF l
  <2> QED BY <1>1, <2>2, <2>3, Two
<1>3. CASE c.policy \notin Overlays
  BY <1>1, <1>3 DEF Budget
<1> QED BY <1>2, <1>3

\* A narration that is fitted is never empty.
LEMMA FittedLength ==
    ASSUME NEW d \in Nat \ {0}, NEW c \in Cued(P)
    PROVE  /\ Hurried(d) \in Nat \ {0}
           /\ Fits(d, Budget(c)) => Min({d, Budget(c)}) \in Nat \ {0}
<1>1. Hurried(d) \in Nat \ {0}
  <2> DEFINE r == RoundDiv(4 * d, 5)
             o == 1
             f == 5
             n == 4 * d
  <2>1. n \in Int /\ f \in Nat \ {0}
    OBVIOUS
  <2>2. Hurried(d) = Max({o, r}) /\ r = RoundDiv(n, f)
    BY DEF Hurried
  <2> HIDE DEF n, f
  <2>3. RoundDiv(n, f) \in Int
    BY <2>1, RoundDivType
  <2>4. r \in Int /\ o \in Int
    BY <2>2, <2>3
  <2> HIDE DEF r
  <2>5. o = 1
    OBVIOUS
  <2> HIDE DEF o
  <2>6. Max({o, r}) = IF o >= r THEN o ELSE r
    BY <2>4, Two
  <2> QED BY <2>2, <2>4, <2>5, <2>6
<1>2. ASSUME Fits(d, Budget(c)) PROVE Min({d, Budget(c)}) \in Nat \ {0}
  <2> DEFINE b == Budget(c)
  <2>1. b \in Int /\ d \in Int
    BY BudgetType
  <2>2. d <= b \/ b > 0
    BY <1>2 DEF Fits
  <2> HIDE DEF b
  <2>3. Min({d, b}) = IF d <= b THEN d ELSE b
    BY <2>1, Two
  <2>4. Min({d, b}) \in Nat \ {0}
    BY <2>1, <2>2, <2>3
  <2> QED BY <2>4 DEF b
<1> QED BY <1>1, <1>2

\* One narration more is spoken.
LEMMA SpeakCueKeeps == ASSUME RenderInv, SpeakCue PROVE RenderInv'
<1>0. RenderTypeOK /\ LaidOut /\ GapsKept
  BY DEF RenderInv
<1> DEFINE c == cues[next]
<1>1. /\ stage = "speak" /\ next <= Len(cues)
      /\ UNCHANGED <<case, cues, found, cut, time, pieces>>
  BY DEF SpeakCue
<1>2. PICK d \in Recording(c) :
        /\ clip' = [clip EXCEPT ![c.id] = d]
        /\ \/ /\ Fits(d, Budget(c)) /\ wav' = [wav EXCEPT ![c.id] = Min({d, Budget(c)})]
              /\ next' = next + 1 /\ UNCHANGED stage
           \/ /\ wav' = [wav EXCEPT ![c.id] = d]
              /\ next' = next + 1 /\ UNCHANGED stage
           \/ /\ wav' = [wav EXCEPT ![c.id] = Hurried(d)]
              /\ next' = next + 1 /\ UNCHANGED stage
           \/ stage' = "failed" /\ UNCHANGED <<wav, next>>
  BY DEF SpeakCue
<1>3. /\ Len(cues) \in Nat /\ \A k \in 1..Len(cues) : cues[k] \in Cued(P) /\ cues[k].id \in DOMAIN P.frags
      /\ next \in Nat \ {0} /\ clip \in [DOMAIN P.frags -> Nat] /\ wav \in [DOMAIN P.frags -> Nat]
      /\ case \in Cases
  BY <1>0, ProjectType DEF RenderTypeOK
<1>4. c \in Cued(P) /\ c.id \in DOMAIN P.frags
  <2>1. next \in 1..Len(cues)
    BY <1>1, <1>3
  <2> QED BY <1>3, <2>1
<1> HIDE DEF c
<1>5. d \in Nat \ {0}
  <2>1. case.clips \subseteq Nat \ {0}
    BY <1>3, CaseType
  <2>2. clip[c.id] \in Nat
    BY <1>3, <1>4
  <2>3. d \in (IF clip[c.id] = 0 THEN case.clips ELSE {clip[c.id]})
    BY <1>2 DEF Recording
  <2> QED BY <2>1, <2>2, <2>3
<1>6. Hurried(d) \in Nat \ {0} /\ (Fits(d, Budget(c)) => Min({d, Budget(c)}) \in Nat \ {0})
  BY <1>4, <1>5, FittedLength
<1>7. \/ \E w \in Nat \ {0} : /\ wav' = [wav EXCEPT ![c.id] = w] /\ next' = next + 1 /\ stage' = "speak"
      \/ stage' = "failed" /\ UNCHANGED <<wav, next>>
  BY <1>1, <1>2, <1>5, <1>6
<1>8. /\ clip' \in [DOMAIN P.frags -> Nat] /\ wav' \in [DOMAIN P.frags -> Nat] /\ next' \in Nat \ {0}
      /\ stage' \in {"speak", "failed"}
      /\ stage' = "speak" => next' = next + 1 /\ wav'[c.id] > 0
           /\ \A i \in DOMAIN P.frags : wav[i] > 0 => wav'[i] > 0
  <2>1. clip' \in [DOMAIN P.frags -> Nat]
    BY <1>2, <1>3, <1>5
  <2>2. CASE stage' = "failed" /\ UNCHANGED <<wav, next>>
    BY <1>3, <2>1, <2>2
  <2>3. ASSUME NEW w \in Nat \ {0}, wav' = [wav EXCEPT ![c.id] = w], next' = next + 1, stage' = "speak"
        PROVE  /\ wav' \in [DOMAIN P.frags -> Nat] /\ next' \in Nat \ {0}
               /\ wav'[c.id] > 0 /\ \A i \in DOMAIN P.frags : wav[i] > 0 => wav'[i] > 0
    <3>1. wav' \in [DOMAIN P.frags -> Nat]
      BY <1>3, <2>3
    <3>2. \A i \in DOMAIN P.frags : wav'[i] = IF i = c.id THEN w ELSE wav[i]
      BY <1>3, <2>3
    <3>3. w > 0
      OBVIOUS
    <3> QED BY <1>3, <1>4, <2>3, <3>1, <3>2, <3>3
  <2> QED BY <1>7, <2>1, <2>2, <2>3
<1>9. P' = P /\ Eps' = Eps /\ CutsBy(found)' = CutsBy(found)
  BY <1>1, SameCase
<1>10. RenderTypeOK'
  <2>1. stage' \in Stages
    BY <1>8 DEF Stages
  <2>2. cues' = cues /\ found' = found /\ cut' = cut /\ time' = time /\ pieces' = pieces /\ case' = case
    BY <1>1
  <2>3. /\ \A e \in Eps : CutSet(CutsBy(found)'[e]) /\ CutSet(Cuts(found'.intro, e)) /\ CutSet(cut'.of[e])
        /\ cues' \in Seq(Cued(P)) /\ time' \in Int /\ pieces' \in Seq(TrackPiece)
    BY <1>0, <1>9, <2>2 DEF RenderTypeOK
  <2> QED BY <1>0, <1>8, <2>1, <2>2, <2>3, SameTypes
<1>11. LaidOut'
  <2>1. pieces' = << >>
    BY <1>0, <1>1 DEF LaidOut
  <2>2. ASSUME stage' = "speak", NEW k \in 1..Len(cues), k < next' PROVE wav'[cues[k].id] > 0
    <3>1. CASE k = next
      BY <1>8, <2>2, <3>1 DEF c
    <3>2. CASE k # next
      <4>1. k < next
        BY <1>3, <1>8, <2>2, <3>2
      <4>2. wav[cues[k].id] > 0
        BY <1>0, <1>1, <4>1 DEF LaidOut
      <4> QED BY <1>3, <1>8, <2>2, <4>2
    <3> QED BY <3>1, <3>2
  <2>3. cues' = cues
    BY <1>1
  <2> QED BY <1>8, <2>1, <2>2, <2>3 DEF LaidOut
<1>12. GapsKept'
  BY <1>0, <1>1, <1>8, <1>9 DEF GapsKept
<1> QED BY <1>10, <1>11, <1>12 DEF RenderInv

\* A step that only stops the render, or begins it again.
LEMMA SpeechFailsKeeps == ASSUME RenderInv, SpeechFails PROVE RenderInv'
<1>0. RenderTypeOK
  BY DEF RenderInv
<1>1. stage' = "failed" /\ UNCHANGED <<case, cues, found, clip, wav, cut, next, time, pieces>>
  BY DEF SpeechFails
<1>2. RenderTypeOK'
  <2>1. stage' \in Stages
    BY <1>1 DEF Stages
  <2>2. CutsBy(found)' = CutsBy(found) /\ case' = case
    BY <1>1, SameCase
  <2>3. cues' = cues /\ found' = found /\ cut' = cut /\ time' = time /\ pieces' = pieces
        /\ clip' = clip /\ wav' = wav /\ next' = next
    BY <1>1
  <2>4. /\ \A e \in Eps : CutSet(CutsBy(found)'[e]) /\ CutSet(Cuts(found'.intro, e)) /\ CutSet(cut'.of[e])
        /\ cues' \in Seq(Cued(P)) /\ time' \in Int /\ pieces' \in Seq(TrackPiece)
        /\ clip' \in [DOMAIN P.frags -> Nat] /\ wav' \in [DOMAIN P.frags -> Nat] /\ next' \in Nat \ {0}
    BY <1>0, <2>2, <2>3 DEF RenderTypeOK
  <2> QED BY <1>0, <2>1, <2>2, <2>4, SameTypes
<1>3. LaidOut' /\ GapsKept'
  BY <1>1 DEF LaidOut, GapsKept
<1> QED BY <1>2, <1>3 DEF RenderInv

\* The next render begins with an empty timeline.
LEMMA AgainKeeps == ASSUME RenderInv, Again PROVE RenderInv'
<1>0. RenderTypeOK
  BY DEF RenderInv
<1>1. /\ stage' = "prepare" /\ wav' = [i \in DOMAIN wav |-> 0] /\ next' = 1 /\ time' = 0 /\ pieces' = << >>
      /\ cut' = Uncut /\ UNCHANGED <<case, cues, found, clip>>
  BY DEF Again
<1>2. RenderTypeOK'
  <2>1. stage' \in Stages
    BY <1>1 DEF Stages
  <2>2. CutsBy(found)' = CutsBy(found) /\ case' = case
    BY <1>1, SameCase
  <2>3. cues' = cues /\ found' = found /\ clip' = clip
    BY <1>1
  <2>4. /\ \A e \in Eps : CutSet(CutsBy(found)'[e]) /\ CutSet(Cuts(found'.intro, e))
        /\ cues' \in Seq(Cued(P)) /\ clip' \in [DOMAIN P.frags -> Nat]
    BY <1>0, <2>2, <2>3 DEF RenderTypeOK
  <2>5. \A e \in Eps : CutSet(cut'.of[e])
    <3>1. \A e \in Eps : cut'.of[e] = {}
      BY <1>1 DEF Uncut
    <3> QED BY <3>1, FS_EmptySet DEF CutSet
  <2>6. wav' \in [DOMAIN P.frags -> Nat]
    BY <1>0, <1>1 DEF RenderTypeOK
  <2>7. next' \in Nat \ {0} /\ time' \in Int /\ pieces' \in Seq(TrackPiece)
    BY <1>1, EmptySeq
  <2> QED BY <1>0, <2>1, <2>2, <2>4, <2>5, <2>6, <2>7, SameTypes
<1>3. LaidOut' /\ GapsKept'
  BY <1>1 DEF LaidOut, GapsKept
<1> QED BY <1>2, <1>3 DEF RenderInv

\* What is published is what was laid out.
LEMMA ReleaseKeeps == ASSUME RenderInv, Release PROVE RenderInv'
<1>0. RenderTypeOK /\ LaidOut /\ GapsKept
  BY DEF RenderInv
<1>1. /\ stage = "place" /\ next > P.eps /\ stage' = "done"
      /\ UNCHANGED <<case, cues, found, clip, wav, cut, next, time, pieces>>
  BY DEF Release
<1>2. CutsBy(found)' = CutsBy(found) /\ case' = case /\ P' = P /\ Eps' = Eps /\ \A e : Reached(e)' = Reached(e)
  BY <1>1, SameCase
<1>3. cues' = cues /\ found' = found /\ cut' = cut /\ time' = time /\ pieces' = pieces
        /\ clip' = clip /\ wav' = wav /\ next' = next
  BY <1>1
<1>4. RenderTypeOK'
  <2>1. stage' \in Stages
    BY <1>1 DEF Stages
  <2>4. /\ \A e \in Eps : CutSet(CutsBy(found)'[e]) /\ CutSet(Cuts(found'.intro, e)) /\ CutSet(cut'.of[e])
        /\ cues' \in Seq(Cued(P)) /\ time' \in Int /\ pieces' \in Seq(TrackPiece)
        /\ clip' \in [DOMAIN P.frags -> Nat] /\ wav' \in [DOMAIN P.frags -> Nat] /\ next' \in Nat \ {0}
    BY <1>0, <1>2, <1>3 DEF RenderTypeOK
  <2> QED BY <1>0, <1>2, <2>1, <2>4, SameTypes
<1>5. LaidOut'
  BY <1>0, <1>1, <1>2, <1>3 DEF LaidOut
<1>6. GapsKept'
  BY <1>0, <1>1, <1>2, <1>3 DEF GapsKept
<1> QED BY <1>4, <1>5, <1>6 DEF RenderInv

\* One episode more is laid out.
LEMMA PlaceKeeps == ASSUME RenderInv, Place PROVE RenderInv'
<1>0. RenderTypeOK /\ LaidOut /\ GapsKept
  BY DEF RenderInv
<1>1. /\ stage = "place" /\ next <= P.eps /\ stage' \in {"place", "failed"} /\ next' = next + 1
      /\ UNCHANGED <<case, cues, found, clip, wav, cut>>
  BY DEF Place
<1>2. /\ pieces' \in Seq(TrackPiece) /\ time' \in Int
      /\ \A e \in Eps : Plays(pieces', e, Reached(e)', cut.of[e])
  BY <1>0, PlaceLaysOut
<1>3. CutsBy(found)' = CutsBy(found) /\ case' = case /\ P' = P /\ Eps' = Eps
  BY <1>1, SameCase
<1>4. cues' = cues /\ found' = found /\ cut' = cut /\ clip' = clip /\ wav' = wav
  BY <1>1
<1>5. RenderTypeOK'
  <2>1. stage' \in Stages
    BY <1>1 DEF Stages
  <2>2. next' \in Nat \ {0}
    BY <1>0, <1>1 DEF RenderTypeOK
  <2>4. /\ \A e \in Eps : CutSet(CutsBy(found)'[e]) /\ CutSet(Cuts(found'.intro, e)) /\ CutSet(cut'.of[e])
        /\ cues' \in Seq(Cued(P))
        /\ clip' \in [DOMAIN P.frags -> Nat] /\ wav' \in [DOMAIN P.frags -> Nat]
    BY <1>0, <1>3, <1>4 DEF RenderTypeOK
  <2> QED BY <1>0, <1>2, <1>3, <2>1, <2>2, <2>4, SameTypes
<1>6. LaidOut'
  <2>1. \A k \in 1..Len(cues) : wav[cues[k].id] > 0
    BY <1>0, <1>1 DEF LaidOut
  <2> QED BY <1>1, <1>2, <1>3, <1>4, <2>1 DEF LaidOut
<1>7. GapsKept'
  BY <1>0, <1>1, <1>3, <1>4 DEF GapsKept
<1> QED BY <1>5, <1>6, <1>7 DEF RenderInv

\* An overlay that is cut in after all has no pause any more, and nothing is played yet.
LEMMA DemoteKeeps == ASSUME RenderInv, Demote PROVE RenderInv'
<1>0. RenderTypeOK /\ LaidOut /\ GapsKept
  BY DEF RenderInv
<1> DEFINE Settled(c) == Snap(IF c.policy \in Overlays /\ (Drifted(c) \/ c.gap[2] - c.gap[1] < wav[c.id])
                            THEN AlignInsert(P, c) ELSE c)
           told == [k \in DOMAIN cues |-> Settled(cues[k])]
<1>1. /\ stage = "speak" /\ next > Len(cues) /\ stage' = "place" /\ next' = 1
      /\ UNCHANGED <<case, found, clip, wav, time, pieces>>
  BY DEF Demote
<1>2. cues' = told /\ cut' = [ok |-> Edge(told).ok, of |-> Excluded(Edge(told))]
  BY DEF Demote
<1>3. /\ IsProject(P) /\ Len(cues) \in Nat /\ DOMAIN cues = 1..Len(cues)
      /\ \A k \in 1..Len(cues) : cues[k] \in Cued(P)
      /\ P.eps \in Nat \ {0} /\ next \in Nat
  BY <1>0, ProjectType DEF RenderTypeOK
<1>4. ASSUME NEW c \in Cued(P)
      PROVE  /\ Settled(c) \in Cued(P) /\ Settled(c).ep = c.ep /\ Settled(c).id = c.id /\ c.ep \in Eps
             /\ Settled(c).policy \in Overlays => c.policy \in Overlays /\ Settled(c).gap = c.gap
  <2> DEFINE a == AlignInsert(P, c)
             b == IF c.policy \in Overlays /\ (Drifted(c) \/ c.gap[2] - c.gap[1] < wav[c.id])
                  THEN a ELSE c
             d == Snap(b)
  <2>1. c \in CueSet(P) /\ c.ep \in Eps
    BY DEF Cued, CueSet, Eps
  <2>2. a \in Cued(P) /\ a.policy = Insert /\ a.ep = c.ep /\ a.id = c.id
    BY <1>3, <2>1, AlignInsertType
  <2>3. Insert \notin Overlays
    BY DEF Insert, Overlays
  <2>4. Settled(c) = d
    OBVIOUS
  <2> HIDE DEF a
  <2>5. /\ b \in Cued(P) /\ b.ep = c.ep /\ b.id = c.id
        /\ b.policy \in Overlays => b = c
    BY <2>2, <2>3
  <2> HIDE DEF b
  <2>6. d \in Cued(P) /\ d.ep = b.ep /\ d.id = b.id /\ d.policy = b.policy /\ d.gap = b.gap
    BY <1>3, <2>5, SnapType
  <2> HIDE DEF d, Settled
  <2> QED BY <2>1, <2>4, <2>5, <2>6
<1> HIDE DEF Settled
<1>5. /\ told \in Seq(Cued(P)) /\ Len(told) = Len(cues)
      /\ \A k \in 1..Len(cues) : told[k] = Settled(cues[k])
  <2>1. told = [k \in 1..Len(cues) |-> Settled(cues[k])]
    BY <1>3
  <2>2. \A k \in 1..Len(cues) : Settled(cues[k]) \in Cued(P)
    BY <1>3, <1>4
  <2>3. told \in Seq(Cued(P))
    BY <1>3, <2>1, <2>2, IsASeq
  <2>4. DOMAIN told = 1..Len(cues)
    BY <2>1
  <2> QED BY <1>3, <2>1, <2>3, <2>4, LenProperties
<1> HIDE DEF told
<1>6. ASSUME NEW e \in Eps PROVE CutSet(cut'.of[e])
  <2>1. 1 \in Eps
    BY <1>3 DEF Eps
  <2>2. CutSet(Cuts(found.intro, 1)) /\ CutSet(CutsBy(found)[e])
    BY <1>0, <2>1 DEF RenderTypeOK
  <2>3. CutSet(Excluded(Edge(told))[e])
    BY <1>3, <1>5, <2>2, ExcludedType
  <2> QED BY <1>2, <2>3
<1>7. P' = P /\ Eps' = Eps /\ CutsBy(found)' = CutsBy(found)
  BY <1>1, SameCase
<1>8. RenderTypeOK'
  <2>1. stage' \in Stages /\ next' \in Nat \ {0}
    BY <1>1 DEF Stages
  <2>2. clip' = clip /\ wav' = wav /\ time' = time /\ pieces' = pieces /\ found' = found /\ case' = case
    BY <1>1
  <2>3. /\ \A e \in Eps : CutSet(CutsBy(found)'[e]) /\ CutSet(Cuts(found'.intro, e))
        /\ clip' \in [DOMAIN P.frags -> Nat] /\ wav' \in [DOMAIN P.frags -> Nat]
        /\ time' \in Int /\ pieces' \in Seq(TrackPiece)
    BY <1>0, <1>7, <2>2 DEF RenderTypeOK
  <2>4. cues' \in Seq(Cued(P))
    BY <1>2, <1>5
  <2> QED BY <1>0, <1>6, <2>1, <2>2, <2>3, <2>4, SameTypes
<1>9. LaidOut'
  <2>1. pieces' = << >>
    BY <1>0, <1>1 DEF LaidOut
  <2>2. ASSUME NEW k \in 1..Len(cues') PROVE wav'[cues'[k].id] > 0
    <3>1. k \in 1..Len(cues) /\ cues'[k] = Settled(cues[k])
      BY <1>2, <1>5
    <3>2. cues'[k].id = cues[k].id
      BY <1>3, <1>4, <3>1
    <3>3. k < next
      BY <1>1, <1>3, <3>1
    <3>4. wav[cues[k].id] > 0
      BY <1>0, <1>1, <3>1, <3>3 DEF LaidOut
    <3> QED BY <1>1, <3>2, <3>4
  <2>3. ASSUME NEW e \in Eps PROVE Plays(pieces', e, Reached(e)', cut'.of[e])
    <3>1. e \in Nat /\ e >= 1
      BY <1>3 DEF Eps
    <3>2. Reached(e)' = 0
      BY <1>1, <3>1 DEF Reached
    <3>3. Plays(<< >>, e, 0, cut'.of[e])
      BY NothingPlayed
    <3> QED BY <2>1, <3>2, <3>3
  <2>4. \A e \in Eps' : Plays(pieces, e, Reached(e), cut.of[e])'
    BY <1>7, <2>3 DEF Plays, Forward, HeardOf, Stretches
  <2> QED BY <1>1, <2>2, <2>4 DEF LaidOut
<1>10. GapsKept'
  <2> SUFFICES ASSUME NEW k \in 1..Len(cues'), cues'[k].policy \in Overlays,
                      NEW iv \in CutsBy(found)'[cues'[k].ep]
               PROVE  ~Meets(cues'[k].gap, iv)
    BY DEF GapsKept, Overlays
  <2>1. k \in 1..Len(cues) /\ cues'[k] = Settled(cues[k])
    BY <1>2, <1>5
  <2>2. cues'[k].ep = cues[k].ep /\ cues[k].policy \in Overlays /\ cues'[k].gap = cues[k].gap
    BY <1>3, <1>4, <2>1
  <2>3. iv \in CutsBy(found)[cues[k].ep]
    BY <1>7, <2>2
  <2>4. \A jv \in CutsBy(found)[cues[k].ep] : ~Meets(cues[k].gap, jv)
    BY <1>0, <1>1, <2>1, <2>2 DEF GapsKept
  <2>5. ~Meets(cues[k].gap, iv)
    BY <2>3, <2>4
  <2> QED BY <2>2, <2>5
<1> QED BY <1>8, <1>9, <1>10 DEF RenderInv

\* Nothing changes.
LEMMA RenderStutters == ASSUME RenderInv, UNCHANGED rendervars PROVE RenderInv'
<1>0. RenderTypeOK /\ LaidOut /\ GapsKept
  BY DEF RenderInv
<1>1. UNCHANGED <<case, stage, cues, found, clip, wav, cut, next, time, pieces>>
  BY DEF rendervars
<1>2. CutsBy(found)' = CutsBy(found) /\ P' = P /\ Eps' = Eps /\ \A e : Reached(e)' = Reached(e)
  BY <1>1, SameCase
<1>3. stage' = stage /\ cues' = cues /\ found' = found /\ cut' = cut /\ time' = time /\ pieces' = pieces
        /\ clip' = clip /\ wav' = wav /\ next' = next /\ case' = case
  BY <1>1
<1>4. RenderTypeOK'
  BY <1>0, <1>2, <1>3 DEF RenderTypeOK
<1>5. LaidOut'
  BY <1>0, <1>2, <1>3 DEF LaidOut
<1>6. GapsKept'
  BY <1>0, <1>2, <1>3 DEF GapsKept
<1> QED BY <1>4, <1>5, <1>6 DEF RenderInv

\* The types hold, the timeline plays the source of every episode up to where it is laid out,
\* and no narration lies over a pause something is cut from, whatever the step (render_project).
THEOREM RenderInvariant == RenderSpec => []RenderInv
<1>1. RenderInit => RenderInv
  BY InitKeeps
<1>2. ASSUME RenderInv, [RenderNext]_rendervars PROVE RenderInv'
  <2>1. \/ WriteScript \/ Prepare \/ SpeakCue \/ SpeechFails \/ Demote \/ Place \/ Release \/ Again
        \/ UNCHANGED rendervars
    BY <1>2 DEF RenderNext
  <2>2. CASE WriteScript
    BY <1>2, <2>2, WriteScriptKeeps
  <2>3. CASE Prepare
    BY <1>2, <2>3, PrepareKeeps
  <2>4. CASE SpeakCue
    BY <1>2, <2>4, SpeakCueKeeps
  <2>5. CASE SpeechFails
    BY <1>2, <2>5, SpeechFailsKeeps
  <2>6. CASE Demote
    BY <1>2, <2>6, DemoteKeeps
  <2>7. CASE Place
    BY <1>2, <2>7, PlaceKeeps
  <2>8. CASE Release
    BY <1>2, <2>8, ReleaseKeeps
  <2>9. CASE Again
    BY <1>2, <2>9, AgainKeeps
  <2>10. CASE UNCHANGED rendervars
    BY <1>2, <2>10, RenderStutters
  <2> QED BY <2>1, <2>2, <2>3, <2>4, <2>5, <2>6, <2>7, <2>8, <2>9, <2>10
<1> QED BY <1>1, <1>2, PTL DEF RenderSpec

\* In every audio drama that is published the retained source of each episode is played once, in
\* order and without a hole (append_source and the cursor of render_project).
THEOREM RetainedSourceIsPlayed == RenderSpec => []SourceOnce
<1>1. RenderInv => SourceOnce
  <2> SUFFICES ASSUME RenderInv, stage = "done", NEW e \in Eps
               PROVE  PlayedOnce(e) /\ \A k \in 2..Len(Source(e)) : Source(e)[k].from >= Source(e)[k - 1].to
    BY DEF SourceOnce
  <2>0. RenderTypeOK /\ LaidOut
    BY DEF RenderInv
  <2>1. e \in Nat /\ P.length[e] \in Nat /\ P.eps \in Nat /\ e <= P.eps /\ next \in Nat
    BY <2>0, ProjectType DEF Eps, RenderTypeOK
  <2>2. next > P.eps /\ Plays(pieces, e, Reached(e), cut.of[e])
    BY <2>0 DEF LaidOut
  <2>3. Reached(e) = P.length[e]
    BY <2>1, <2>2 DEF Reached
  <2>4. pieces \in Seq(TrackPiece) /\ CutSet(cut.of[e])
    BY <2>0 DEF RenderTypeOK
  <2> QED BY <2>1, <2>2, <2>3, <2>4, PlaysOnce
<1> QED BY <1>1, RenderInvariant, PTL

-----------------------------------------------------------------------------
(* What the gate lets through. *)

\* What the gate asks of a timeline it lets through.
Voiced ==
    /\ {p.cue : p \in Voice} = {c.id : c \in Range(cues)}
    /\ \A c \in Range(cues) :
         Cardinality({k \in DOMAIN pieces : pieces[k].track = "narrator" /\ pieces[k].cue = c.id}) = 1
Unheard == \A c \in Range(cues) : c.policy \in Overlays => OverlaySafe(c)

\* What ReleasedIsClean asks of it.
Clean ==
    /\ \A c \in Range(cues) : Cardinality({k \in DOMAIN pieces : pieces[k].cue = c.id}) = 1
    /\ \A c \in Range(cues) : c.policy \in Overlays =>
         \A i \in Spoken(c.ep) : ~ Meets(<<i.from, i.to>>, <<VoiceOf(c).from, VoiceOf(c).to>>)
    /\ \A c \in Range(cues) : c.policy \in Overlays =>
         \A iv \in CutsBy(found)[c.ep] : ~ Meets(c.gap, iv)

\* If no check failed, those of the narrations held.
LEMMA ReportEmpty == ASSUME Report = {} PROVE Voiced /\ Unheard
<1> DEFINE passed == Checks
<1>1. DOMAIN passed = {"grounding", "timing", "source", "boundary", "intro", "ending", "bumper",
                       "proximity", "coverage", "rendered", "dialog", "inserts"}
  BY DEF Checks
<1>2. Report = {k \in DOMAIN passed : ~passed[k]}
  BY DEF Report
<1>3. /\ passed.rendered = (/\ Range(cues) # {} /\ {p.cue : p \in Voice} = {c.id : c \in Range(cues)}
                            /\ \A c \in Range(cues) :
                                 Cardinality({k \in DOMAIN pieces : pieces[k].track = "narrator" /\ pieces[k].cue = c.id}) = 1)
      /\ passed.dialog = (/\ \A c \in {c \in Range(cues) : c.policy \in Overlays} : OverlaySafe(c)
                          /\ \A c \in {c \in Range(cues) : c.policy \in {"after_aligned_speech_gap", "insert_for_dense_action"}} :
                               CutSafe(c))
  BY DEF Checks
<1> HIDE DEF passed
<1>4. passed["rendered"] /\ passed["dialog"]
  BY <1>1, <1>2
<1>5. Voiced
  BY <1>3, <1>4, Zenon DEF Voiced
<1>6. Unheard
  <2>1. \A c \in {c \in Range(cues) : c.policy \in Overlays} : OverlaySafe(c)
    BY <1>3, <1>4, Zenon
  <2> QED BY <2>1 DEF Unheard
<1> QED BY <1>5, <1>6

\* What the gate lets through is clean: the margin around speech is not negative.
LEMMA LetThroughIsClean == ASSUME RenderInv, stage = "place", Report = {} PROVE Clean
<1>0. RenderTypeOK /\ GapsKept
  BY DEF RenderInv
<1>1. Voiced /\ Unheard
  BY ReportEmpty
<1>2. /\ IsProject(P) /\ Len(cues) \in Nat /\ DOMAIN cues = 1..Len(cues)
      /\ \A k \in 1..Len(cues) : cues[k] \in Cued(P) /\ cues[k].id \in DOMAIN P.frags
      /\ DOMAIN P.frags \subseteq Nat \ {0}
  BY <1>0, ProjectType
<1>3. \A c \in Range(cues) : c \in Cued(P) /\ c.id \in Nat \ {0}
  BY <1>2 DEF Range
<1>4. Len(pieces) \in Nat /\ DOMAIN pieces = 1..Len(pieces)
      /\ \A k \in 1..Len(pieces) : pieces[k] \in TrackPiece
  BY <1>0, LenProperties, ElementOfSeq DEF RenderTypeOK
<1>5. ASSUME NEW c \in Range(cues) PROVE Cardinality({k \in DOMAIN pieces : pieces[k].cue = c.id}) = 1
  <2>1. ASSUME NEW k \in DOMAIN pieces, pieces[k].cue = c.id PROVE pieces[k].track = "narrator"
    BY <1>3, <1>4, <2>1 DEF TrackPiece
  <2>2. {k \in DOMAIN pieces : pieces[k].cue = c.id}
          = {k \in DOMAIN pieces : pieces[k].track = "narrator" /\ pieces[k].cue = c.id}
    BY <2>1
  <2> QED BY <1>1, <2>2 DEF Voiced
<1>6. ASSUME NEW c \in Range(cues), c.policy \in Overlays, NEW i \in Spoken(c.ep)
      PROVE  ~ Meets(<<i.from, i.to>>, <<VoiceOf(c).from, VoiceOf(c).to>>)
  <2> DEFINE v == VoiceOf(c)
             f == i.from
             t == i.to
  <2>1. PICK p \in Voice : p.cue = c.id
    <3>1. c.id \in {p.cue : p \in Voice}
      BY <1>1 DEF Voiced
    <3> QED BY <3>1
  <2>2. v \in Voice
    BY <2>1 DEF VoiceOf
  <2>3. v.from \in Int /\ v.to \in Int
    BY <1>4, <2>2 DEF Voice, Range, TrackPiece
  <2>4. f \in Int /\ t \in Int
    <3>1. i \in Item
      BY <1>2, ItemsType DEF Spoken
    <3> QED BY <3>1 DEF Item
  <2>5. OverlaySafe(c)
    BY <1>1, <1>6 DEF Unheard
  <2>6. ~ Meets(<<f - CheckMargin, t + CheckMargin>>, <<v.from, v.to>>)
    BY <2>5 DEF OverlaySafe
  <2>7. CheckMargin \in Nat
    BY RenderBounds
  <2> DEFINE x == v.from
             y == v.to
  <2>8. x \in Int /\ y \in Int /\ ~ Meets(<<f - CheckMargin, t + CheckMargin>>, <<x, y>>)
    BY <2>3, <2>6
  <2> HIDE DEF v, f, t, x, y
  <2>9. ~ Meets(<<f, t>>, <<x, y>>)
    BY <2>4, <2>7, <2>8 DEF Meets
  <2> QED BY <2>9 DEF v, f, t, x, y
<1>7. ASSUME NEW c \in Range(cues), c.policy \in Overlays, NEW iv \in CutsBy(found)[c.ep]
      PROVE  ~ Meets(c.gap, iv)
  <2>1. PICK k \in 1..Len(cues) : c = cues[k]
    BY <1>2 DEF Range
  <2> QED BY <1>0, <1>7, <2>1 DEF GapsKept
<1> QED BY <1>5, <1>6, <1>7 DEF Clean

\* Only a release ends a render.
LEMMA OnlyReleaseEnds ==
    ASSUME WriteScript \/ Prepare \/ SpeakCue \/ SpeechFails \/ Demote \/ Place \/ Again
    PROVE  stage' # "done"
<1>1. CASE WriteScript
  <2>1. stage' = "prepare" \/ stage' = "refused"
    BY <1>1 DEF WriteScript
  <2> QED BY <2>1
<1>2. CASE Prepare
  <2>1. stage' = "failed" \/ stage' = "speak"
    BY <1>2 DEF Prepare
  <2> QED BY <2>1
<1>3. CASE SpeakCue
  <2>1. stage' = "speak" \/ stage' = "failed"
    BY <1>3 DEF SpeakCue
  <2> QED BY <2>1
<1>4. CASE SpeechFails
  BY <1>4 DEF SpeechFails
<1>5. CASE Demote
  BY <1>5 DEF Demote
<1>6. CASE Place
  <2>1. stage' = "place" \/ stage' = "failed"
    BY <1>6 DEF Place
  <2> QED BY <2>1
<1>7. CASE Again
  BY <1>7 DEF Again
<1> QED BY <1>1, <1>2, <1>3, <1>4, <1>5, <1>6, <1>7

\* A timeline the gate lets through: each narration of the script is heard exactly once, nobody
\* talks where a narration is laid over the original, and no narration is laid over a pause
\* something is cut from (build_automatic_quality_report, reanchor_cues_outside_intros).
THEOREM ReleasedStaysClean == RenderSpec => []ReleasedIsClean
<1>1. RenderInit => ReleasedIsClean
  BY DEF RenderInit, ReleasedIsClean
<1>2. ASSUME RenderInv, ReleasedIsClean, [RenderNext]_rendervars PROVE ReleasedIsClean'
  <2>0. (stage = "done" /\ failing = {} => Clean) /\ ((stage' = "done" /\ failing' = {} => Clean') => ReleasedIsClean')
    BY <1>2 DEF ReleasedIsClean, Clean
  <2>1. ASSUME UNCHANGED <<case, cues, found, clip, wav, cut, next, time, pieces>> PROVE Clean => Clean'
    <3>1. CutsBy(found)' = CutsBy(found) /\ P' = P
      BY <2>1, SameCase
    <3>2. cues' = cues /\ pieces' = pieces
      BY <2>1
    <3>3. Voice' = Voice
      BY <3>2 DEF Voice
    <3>4. \A c : VoiceOf(c)' = VoiceOf(c)
      BY <3>3 DEF VoiceOf
    <3>5. \A e : Spoken(e)' = Spoken(e)
      BY <3>1 DEF Spoken
    <3> QED BY <3>1, <3>2, <3>4, <3>5 DEF Clean
  <2>2. CASE Release
    <3>1. stage = "place" /\ failing' = Report /\ UNCHANGED <<case, cues, found, clip, wav, cut, next, time, pieces>>
      BY <2>2 DEF Release
    <3>2. failing' = {} => Clean
      BY <1>2, <3>1, LetThroughIsClean
    <3> QED BY <2>0, <2>1, <3>1, <3>2
  <2>3. CASE UNCHANGED rendervars
    <3>1. /\ stage' = stage /\ failing' = failing
          /\ UNCHANGED <<case, cues, found, clip, wav, cut, next, time, pieces>>
      BY <2>3 DEF rendervars
    <3> QED BY <2>0, <2>1, <3>1
  <2>4. CASE WriteScript \/ Prepare \/ SpeakCue \/ SpeechFails \/ Demote \/ Place \/ Again
    BY <2>0, <2>4, OnlyReleaseEnds
  <2> QED BY <1>2, <2>2, <2>3, <2>4 DEF RenderNext
<1> QED BY <1>1, <1>2, RenderInvariant, PTL DEF RenderSpec

=============================================================================
