----------------------------- MODULE HsAlignment -----------------------------
(***************************************************************************)
(* Writing and repairing the script of an audio drama: rewrite_narration,  *)
(* the packages of research_scene_alignment with their checkpoints, and    *)
(* apply_researched_scene_alignment (hoerspiele/engine.py).                *)
(*                                                                         *)
(* A run is one thread; HsRuns shows that a project has one at a time. The *)
(* agent's own repair loop is AgentRepair: here an answer keeps the        *)
(* package's contract, or the agent fails, or its retries have lost the    *)
(* locked comments.                                                        *)
(***************************************************************************)
EXTENDS HsPackages

CONSTANTS
    Offers(_),     \* the lines the agent would put a passage's comment at
    Edges,         \* the passages that open and close the book
    Requests,      \* the sets of cues a user may ask to have rewritten
    HeardCut,      \* the moments the audio turns out to repeat
    LosesLocks,    \* BOOLEAN: the agent may forget what is locked
    MaxRuns        \* bound

VARIABLES
    script,     \* project["cues"]
    intros,     \* project["character_introductions"]
    lexicon,    \* project["narration_name_lexicon"]: the spellings that are respelt
    heard,      \* the audio of all episodes is there: cuts are looked for in it
    run,        \* the run
    files,      \* the checkpoints
    begun,      \* how many runs there were
    broken      \* the package the last run failed in, with what it was asked

vars == <<script, intros, lexicon, heard, run, files, begun, broken>>

Cuts == IF heard THEN HeardCut ELSE {}
Idle == [stage |-> "idle"]
NotBroken == [scope |-> {}, next |-> 0]

Init ==
    /\ script = {} /\ intros = {} /\ lexicon = {} /\ heard = FALSE
    /\ run = Idle /\ files = {} /\ begun = 0 /\ broken = NotBroken

(***************************************************************************)
(* Starting a run.  A run of the whole script locks nothing.               *)
(***************************************************************************)
Begin(raws, asked, locked, lockedIntros, repairing, reason) ==
    LET placed == Positioned(raws, locked) IN
    run' = [stage |-> "writing", raws |-> placed, asked |-> asked, locked |-> locked,
            intros |-> lockedIntros, repairing |-> repairing, reason |-> reason,
            packages |-> Packages(placed, locked, Cuts), next |-> 1,
            done |-> << >>, told |-> {}, found |-> {}]

Task == [raws |-> run.raws, asked |-> run.asked, locked |-> run.locked,
         repairing |-> run.repairing, reason |-> run.reason, cuts |-> Cuts]

Failed ==
    /\ run' = Idle
    /\ broken' = [scope |-> {Task}, next |-> run.next]
    /\ UNCHANGED <<script, intros, lexicon, heard, files, begun>>

Ready == run.stage = "idle" /\ begun < MaxRuns

Rewrite ==
    /\ Ready /\ begun' = begun + 1
    /\ Begin(FreshRaws \cup FigureRaws(script, intros, FALSE, FALSE), {}, {}, {}, FALSE, <<FALSE, FALSE, 0>>)
    /\ UNCHANGED <<script, intros, lexicon, heard, files, broken>>

(***************************************************************************)
(* repair_from_quality_report: the cues a user names, or those the report  *)
(* of the rendered timeline complains about.                               *)
(***************************************************************************)
OpenGaps == Stretches(script, Cuts)
FigureCues == {i.cue : i \in intros} \cup {c.id : c \in {c \in script : c.figure # Nobody}}
Misintroduced == \E f \in Figures : Cardinality({i \in intros : i.figure = f}) # 1

\* quality_repair_targets: the comments around an open stretch, but for the introductions
GapTargets ==
    {c.id : c \in {c \in script : c.id \notin {i.cue : i \in intros} /\
                      \E w \in OpenGaps : c.at \in {w[1], w[2]}}}
IntroTargets == IF Misintroduced THEN FigureCues ELSE {}

Wanted(request, preserve) ==
    LET named == request \cap Ids(script) IN
    IF named # {} THEN named
    ELSE IF preserve THEN IntroTargets ELSE GapTargets \cup IntroTargets

Repair(request, preserve) ==
    /\ Ready /\ script # {}
    /\ LET wanted == Wanted(request, preserve) IN
       /\ wanted # {} \/ OpenGaps # {} \/ Misintroduced
       /\ run' = [stage |-> "queued", wanted |-> wanted, coverage |-> OpenGaps # {},
                  introductions |-> Misintroduced]
    /\ begun' = begun + 1
    /\ UNCHANGED <<script, intros, lexicon, heard, files, broken>>

(***************************************************************************)
(* The repair part of rewrite_narration: what is asked for, what is        *)
(* locked.                                                                 *)
(***************************************************************************)
Untouched == {c \in script : c.id \notin run.wanted}
RepairRaws ==
    WithClones(FreshRaws \cup FigureRaws(script, intros, TRUE, run.introductions), script)
    \cup (IF run.coverage THEN GapRaws(script, Cuts) ELSE {})

Open(id) == id \in run.wanted \/ (OfGap(id) /\ id \notin Ids(script))
            \/ (run.introductions /\ OfFigure(id) /\ id \notin Ids(Untouched))

\* Nothing left to ask for, like a stretch no line is in reach of, ends the run.
PlanRepair ==
    /\ run.stage = "queued" /\ ~ (run.coverage /\ Unreachable(script, Cuts))
    /\ \E raws \in {RepairRaws} :
       \E asked \in {{id \in Ids(raws) : Open(id)}} :
       \E more \in {IF run.coverage
                    THEN UNION {CoverageIds(ep, raws, Untouched) : ep \in Episodes} \ asked ELSE {}} :
       \E kept \in {{c \in Untouched : c.id \notin more}} :
         IF asked \cup more = {} THEN run' = Idle
         ELSE Begin(raws, asked \cup more, kept, {i \in intros : i.cue \in Ids(Untouched)}, TRUE,
                    <<run.coverage, run.introductions, Cardinality(more)>>)
    /\ UNCHANGED <<script, intros, lexicon, heard, files, begun, broken>>

PlanFails ==
    /\ run.stage = "queued" /\ run.coverage /\ Unreachable(script, Cuts)
    /\ run' = Idle
    /\ UNCHANGED <<script, intros, lexicon, heard, files, begun, broken>>

(***************************************************************************)
(* One package.                                                            *)
(***************************************************************************)
Package == run.packages[run.next]
Working == run.stage = "writing" /\ run.next <= Len(run.packages)
PackageIds == Ids(Package.cues)
Asked == IF run.repairing THEN PackageIds \cap run.asked ELSE PackageIds

Placed(c) == [id |-> c.id, at |-> c.at, words |-> c.words]
\* A locked cue whose line is cut by now is not passed on.
Locked == {Placed(c) : c \in {c \in run.locked : c.id \in PackageIds /\ c.at \notin Cuts}}
LockedIntros == {i \in run.intros : i.cue \in PackageIds \ Asked}

\* Mutant of Payload: the settings of the run are part of the digest.
PayloadOfRun ==
    [package |-> Package, locked |-> Locked, intros |-> LockedIntros, asked |-> Asked,
     names |-> lexicon, reason |-> <<run.reason, begun>>]

\* What the digest of a checkpoint is taken of.
Payload ==
    [package |-> Package, locked |-> Locked, intros |-> LockedIntros, asked |-> Asked,
     names |-> lexicon, reason |-> run.reason]

RawOf(id) == CHOOSE r \in run.raws : r.id = id
OrderedIds(a, b) == Before(RawOf(a), RawOf(b))

\* chronological_alignments
Chronological(items) ==
    Sorted(items, LAMBDA y, x : y.at < x.at \/ (y.at = x.at /\ OrderedIds(y.id, x.id)))

Accept(items, told, names) ==
    run' = [run EXCEPT !.next = @ + 1, !.done = @ \o items, !.told = @ \cup told,
                       !.found = @ \cup names]

\* Nothing to repair: the package is put together from its locked cues.
Unchanged ==
    /\ Working /\ run.repairing /\ Asked = {}
    /\ Accept(Chronological(Locked), LockedIntros, {})
    /\ UNCHANGED <<script, intros, lexicon, heard, files, begun, broken>>

\* Mutant of Enforced: a lock the answer left out is not put back.
EnforcedIfAnswered(answer) ==
    LET given == {x \in answer.cut : x.id \notin Ids(Locked)}
        kept == {x \in Locked : x.id \in Ids(answer.cut)} IN
    [answer EXCEPT !.cut = given \cup kept]

\* enforce_locked_alignments
Enforced(answer) ==
    LET figures == {i.figure : i \in LockedIntros} IN
    IF ~run.repairing \/ Locked = {} THEN answer
    ELSE [cut |-> {x \in answer.cut : x.id \notin Ids(Locked)} \cup Locked,
          told |-> {i \in answer.told : i.figure \notin figures /\ i.cue \notin Ids(Locked)}
                   \cup LockedIntros,
          names |-> answer.names]

Take(answer) ==
    LET result == Enforced(answer) IN Accept(Chronological(result.cut), result.told, result.names)

\* The places an asked comment may get: a new one only where it is missing.
PlacesOf(id) ==
    LET r == RawOf(id) IN
    Package.window \cap
        (IF OfGap(id) THEN {r.home} ELSE IF OfPassage(id) THEN Offers(id)
         ELSE {s \in Moments : r.home - 1 <= s /\ s <= r.home})

\* The contract of a package, as far as it is about more than one comment.
Kept(items, told) ==
    /\ \A x, y \in items : x.id # y.id => x.at # y.at
    /\ \A x, y \in items :
          /\ OrderedIds(x.id, y.id) /\ ~ ({x, y} \subseteq Locked)
          /\ \A i \in told : i.cue \notin {x.id, y.id}
          => x.at < y.at
    /\ \A x, y \in items :
          y.at - x.at > MaxGap /\ (\A z \in items : z.at <= x.at \/ y.at <= z.at) =>
            \A r \in Package.cues : r.figure = Nobody /\ x.at < r.home /\ r.home < y.at =>
                r.id \in Ids(items)

\* A comment has the names its passages have.
Written(id) == [by |-> begun, names |-> Spelt(RawOf(id))]
Comments(ids, at) == {[id |-> id, at |-> at[id], words |-> Written(id)] : id \in ids} \cup Locked

Alignments ==
    LET Mentions(id) == {f \in Package.figures :
                            IF \E r \in Package.cues : r.figure = f THEN RawOf(id).figure = f
                            ELSE f \in Named(RawOf(id))}
        missing == Package.figures \ {i.figure : i \in LockedIntros}
        must == {id \in Asked : OfGap(id) \/ id \in Edges} IN
    UNION {UNION {{[cut |-> Comments(ids, at),
                    told |-> {[figure |-> f, cue |-> who[f]] : f \in missing} \cup LockedIntros] :
                at \in {g \in [ids -> Package.window] : \A id \in ids : g[id] \in PlacesOf(id)}} :
                who \in {w \in [missing -> ids] : \A f \in missing : f \in Mentions(w[f])}} :
            ids \in {S \in SUBSET Asked : must \subseteq S}}

\* An answer may find some of the names of its passages to be spelt otherwise in the
\* recordings.
Clues == UNION {Spelt(r) : r \in Package.cues}
Answers ==
    {[cut |-> a.cut, told |-> a.told, names |-> names] : a \in Alignments, names \in SUBSET Clues}

Good == {a \in Answers : Kept(a.cut, a.told)}
\* What comes of it when the locks were lost on the way.
Lossy == IF LosesLocks /\ Locked # {} THEN {[a EXCEPT !.cut = @ \ Locked] : a \in Good} ELSE {}

Stored == {f \in files : f.payload = Payload}

Ask ==
    /\ Working /\ Asked # {} /\ Stored = {}
    /\ \E a \in Good \cup Lossy :
        /\ files' = files \cup {[payload |-> Payload, answer |-> a]}
        /\ Take(a)
    /\ UNCHANGED <<script, intros, lexicon, heard, begun, broken>>

Reuse ==
    /\ Working /\ Asked # {} /\ Stored # {}
    /\ \E f \in Stored : Take(f.answer)
    /\ UNCHANGED <<script, intros, lexicon, heard, files, begun, broken>>

AgentFails == Working /\ Asked # {} /\ Stored = {} /\ Failed

(***************************************************************************)
(* apply_researched_scene_alignment and the checks behind it.              *)
(***************************************************************************)
\* An alignment at a line that is cut, or before the one in front of it, is dropped.
Applied ==
    LET last[k \in 0..Len(run.done)] ==
            IF k = 0 THEN 0
            ELSE IF run.done[k].at \in Cuts THEN last[k - 1] ELSE Max({last[k - 1], run.done[k].at}) IN
    {run.done[k] : k \in {k \in DOMAIN run.done :
                             run.done[k].at \notin Cuts /\ run.done[k].at >= last[k - 1]}}

\* canonicalize_narration_names: every comment is spelt as the recordings are, as far as
\* that is known by now.
Respelt(text, known) == [text EXCEPT !.names = @ \ known]

Cue(x) ==
    LET r == RawOf(x.id) IN
    [id |-> x.id, at |-> x.at, words |-> Respelt(x.words, lexicon \cup run.found),
     src |-> r.src, figure |-> r.figure]

Enough(cues) ==
    LET eps == {EpOf(r) : r \in run.raws} IN
    /\ \A i \in run.told : i.cue \in Ids(cues)
    /\ Cardinality(cues) >= Min({Cardinality(run.raws), Max({3, 2 * Cardinality(eps)})})
    /\ \A ep \in eps : \E c \in cues : EpisodeOf[c.at] = ep
    /\ Edges \subseteq Ids(cues)

Combined == run.stage = "writing" /\ run.next > Len(run.packages)

Apply ==
    /\ Combined /\ Enough(Applied)
    /\ script' = {Cue(x) : x \in Applied}
    /\ intros' = run.told /\ lexicon' = lexicon \cup run.found
    /\ run' = [stage |-> "rendering"]
    /\ broken' = NotBroken
    /\ UNCHANGED <<heard, files, begun>>

Reject == Combined /\ ~Enough(Applied) /\ Failed

\* reanchor_cues_outside_intros: a cue inside a cut is moved to the next line that sounds, at
\* the end of an episode to the last one; one before the first line of a cut may stay. A
\* render that finds no such line fails.
Near(at) == {s \in Lines(HeardCut) : EpisodeOf[s] = EpisodeOf[at]}
Outward(at) ==
    LET later == {s \in Near(at) : at < s} IN
    IF later # {} THEN Min(later) ELSE Max(Near(at))

Render ==
    /\ run.stage = "rendering"
    /\ \E stay \in SUBSET {c.id : c \in {c \in script : c.at \in HeardCut /\ c.at - 1 \notin HeardCut}} :
         /\ \A c \in script : c.at \in HeardCut /\ c.id \notin stay => Near(c.at) # {}
         /\ script' = {IF c.at \in HeardCut /\ c.id \notin stay
                       THEN [c EXCEPT !.at = Outward(c.at)] ELSE c : c \in script}
    /\ heard' = TRUE /\ run' = Idle
    /\ UNCHANGED <<intros, lexicon, files, begun, broken>>

\* The audio was cut out of the episodes, the rest failed.
RenderFails ==
    /\ run.stage = "rendering" /\ heard' = TRUE /\ run' = Idle
    /\ UNCHANGED <<script, intros, lexicon, files, begun, broken>>

Next ==
    \/ Rewrite
    \/ \E request \in Requests, preserve \in BOOLEAN : Repair(request, preserve)
    \/ PlanRepair \/ PlanFails
    \/ Unchanged \/ Ask \/ Reuse \/ AgentFails
    \/ Apply \/ Reject \/ Render \/ RenderFails

Spec == Init /\ [][Next]_vars

(***************************************************************************)
(* Properties.                                                             *)
(***************************************************************************)
\* A repair "leaves all others as they are": a comment that was not asked for, at a line
\* that still sounds, is in the repaired script, at its line, word for word but for the names
\* that are respelt, and so is its introduction, also when the agent forgot what was locked.
LockedStay ==
    [][Apply /\ run.repairing =>
         /\ \A c \in run.locked :
               c.at \notin Cuts => [c EXCEPT !.words = Respelt(@, lexicon')] \in script'
         /\ \A i \in run.intros :
               (\E c \in run.locked : c.id = i.cue /\ c.at \notin Cuts) => i \in intros']_vars

\* "Word for word": it does not hold, a repair spells the names of locked comments as well
\* as its answers have found them to be spelt.
LockedWordForWord ==
    [][Apply /\ run.repairing => \A c \in run.locked : c.at \notin Cuts => c \in script']_vars

\* No alignment slips behind one of the package before: of what the packages deliver
\* nothing is dropped, whichever of them were asked, reused or put together locally.
NothingDropped ==
    Combined => \A k \in DOMAIN run.done : run.done[k] \in Applied

\* A repair of open stretches alone closes them all.
GapsClosed ==
    [][Apply /\ run.repairing /\ run.reason[1] /\ ~run.reason[2]
             /\ run.asked \cap Ids(script) = {}
             /\ (\A c \in script : c.at \notin Cuts) =>
         Stretches(script', Cuts) = {}]_vars

\* A run that failed and is started again with the same task does not ask for a package
\* that was finished: it goes on where it broke.
RetryContinues ==
    [][Ask /\ Task \in broken.scope => run.next >= broken.next]_vars

\* "One required introduction per character across the whole book".
OneIntroduction ==
    run.stage = "rendering" =>
        \A f \in Figures : Cardinality({i \in intros : i.figure = f}) <= 1
=============================================================================
