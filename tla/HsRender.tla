------------------------------- MODULE HsRender -------------------------------
(***************************************************************************)
(* The render of an audio drama: the plan of the narration is written, the *)
(* title sequence, the bumper and the ending are found and cut, the cues   *)
(* that lie there are moved, every narration is spoken and fitted, and the *)
(* timeline is laid out episode by episode and judged by the quality gate. *)
(* A render may be repeated on the cues the last one left behind.          *)
(*                                                                         *)
(* A millisecond is a sample here. What the speech synthesis returns and   *)
(* what the agent answers are inputs; time stretching is exact.            *)
(***************************************************************************)
EXTENDS HsDetect, HsPlan

CONSTANTS
  Cases,       \* [project, prints, answer, clips]: prints maps intro, bumper and ending to fingerprints
  ClipLimit,   \* longest narration of the editorial contract (and its 2 s)
  CadenceIn, CadenceOut, EndPause,   \* silence around an insertion and after an episode
  CheckMargin, \* distance from speech the gate asks for (250 ms)
  MaxSilence,  \* longest stretch without narration the gate accepts
  MaxRenders   \* renders looked at

ASSUME RenderBounds ==
  {ClipLimit, CadenceIn, CadenceOut, EndPause, CheckMargin, MaxSilence, MaxRenders} \subseteq Nat

ASSUME CasesAssumption ==
  \A c \in Cases :
    /\ IsProject(c.project)
    /\ \A fps \in {c.prints.intro, c.prints.bumper, c.prints.ending} :
         DOMAIN fps = 1..c.project.eps /\ IsPrints(fps)
    /\ c.answer \in Seq(Range(c.answer)) /\ \A m \in Range(c.answer) : IsMatch(c.project, m)
    /\ c.clips \subseteq Nat \ {0}

VARIABLES
  case, stage, cues, found, \* found: the three detections
  clip,      \* the cached narration of a cue: its length, 0 before it was spoken
  wav,       \* its length in this render, after fitting
  cut,       \* what is cut from each episode, and whether the book's edges were found
  next,      \* the cue being spoken, the episode being laid out
  time,      \* the length of the timeline
  pieces,    \* the timeline: [track, cue, ep, from, to, start]
  reason,    \* why the render failed
  failing,   \* the checks of the gate that failed
  before,    \* where an earlier completed render put the cues
  renders
rendervars == <<case, stage, cues, found, clip, wav, cut, next, time, pieces, reason, failing, before, renders>>

P == case.project
Eps == 1..P.eps
Unsearched == [intro |-> Undetected("none"), bumper |-> Undetected("none"), ending |-> Undetected("none")]
CutsBy(f) == [e \in Eps |-> Cuts(f.intro, e) \cup Cuts(f.bumper, e) \cup Cuts(f.ending, e)]
Bumper == DetectSafeBumper(case.prints.bumper, P.lines)
Ending == DetectEnding(case.prints.ending)

\* what is cut from episode e: the findings and the edges of the book
Edge(told) == BookBoundary(P, Cuts(found.intro, 1), told)
Excluded(edge) == [e \in Eps |-> CutsBy(found)[e] \cup (IF e = 1 THEN edge.head ELSE {})
                                                 \cup (IF e = P.eps THEN edge.tail ELSE {})]
Uncut == [ok |-> TRUE, of |-> [e \in Eps |-> {}]]

RenderInit ==
  /\ case \in Cases
  /\ stage = "script" /\ cues = << >> /\ found = Unsearched
  /\ clip = [f \in DOMAIN P.frags |-> 0] /\ wav = clip /\ cut = Uncut
  /\ next = 1 /\ time = 0 /\ pieces = << >>
  /\ reason = "none" /\ failing = {} /\ before = << >> /\ renders = 0

\* The script run: the bumper and the ending are looked for first when the audio is there.
WriteScript ==
  /\ stage = "script"
  /\ \E early \in {Unsearched, [Unsearched EXCEPT !.bumper = Bumper, !.ending = Ending]} :
     \E cuts \in {CutsBy(early)} :
     \E raw \in {Generate(P, cuts)} :
     \E applied \in {Apply(P, cuts, raw, case.answer)} :
       IF raw # << >> /\ applied.ok /\ BookBoundary(P, {}, applied.cues).ok
       THEN stage' = "prepare" /\ cues' = applied.cues /\ found' = early
       ELSE stage' = "refused" /\ UNCHANGED <<cues, found>>
  /\ UNCHANGED <<case, clip, wav, cut, next, time, pieces, reason, failing, before, renders>>

\* A cue in removed material moves to the next line, at the end to the last one before.
Reanchor(cuts, c) ==
  LET hit == {iv \in cuts[c.ep] : Within(c.at, iv) \/ (c.gap # << >> /\ Meets(c.gap, iv))}
      first == InOrder(hit)[1]
      kept == Range(KeptLines(P, cuts, c.ep))
      later == {k \in kept : P.lines[k].from >= first[2]}
      earlier == {k \in kept : P.lines[k].to <= first[1]}
      k == IF later # {} THEN Min(later) ELSE Max(earlier)
  IN IF hit = {} THEN c
     ELSE AlignInsert(P, [c EXCEPT !.anchor = k, !.start = P.lines[k].from, !.side = "after"])

Stranded(cuts, c) ==
  \E iv \in cuts[c.ep] :
    /\ Within(c.at, iv) \/ (c.gap # << >> /\ Meets(c.gap, iv))
    /\ \A k \in Range(KeptLines(P, cuts, c.ep)) : P.lines[k].from < iv[2] /\ P.lines[k].to > iv[1]

Realign(c) == IF c.policy = Insert THEN AlignInsert(P, c) ELSE c

Snap(c) ==
  IF c.policy = "overlay_speech_free" THEN c
  ELSE [c EXCEPT !.at = SafeInsert(@, Speech(P, c.ep)), !.bound = SafeInsert(@, Speech(P, c.ep))]

Prepare ==
  /\ stage = "prepare"
  /\ \E all \in {[intro |-> DetectRepeated(case.prints.intro, MinIntro), bumper |-> Bumper, ending |-> Ending]} :
     \E cuts \in {CutsBy(all)} :
       /\ found' = all
       /\ IF \E c \in Range(cues) : Stranded(cuts, c)
          THEN stage' = "failed" /\ reason' = "stranded" /\ UNCHANGED cues
          ELSE /\ stage' = "speak" /\ UNCHANGED reason
               /\ cues' = [k \in DOMAIN cues |-> Snap(Realign(Reanchor(cuts, cues[k])))]
  /\ UNCHANGED <<case, clip, wav, cut, next, time, pieces, failing, before, renders>>

\* fit_narration_to_duration succeeds: at most a quarter faster
Fits(d, max) == d <= max \/ (max > 0 /\ 4 * d <= 5 * max)
Hurried(d) == Max({1, RoundDiv(4 * d, 5)})
Budget(c) == IF c.policy \in Overlays THEN Min({ClipLimit, c.gap[2] - c.gap[1]}) ELSE ClipLimit

\* Mutant of Recording: every render asks the speech synthesis again
RecordingAnew(c) == case.clips

\* the narration of a cue: what the synthesis returns, later what the cache holds
Recording(c) == IF clip[c.id] = 0 THEN case.clips ELSE {clip[c.id]}

\* The next narration is spoken, or taken from the cache, and fitted.
SpeakCue ==
  /\ stage = "speak" /\ next <= Len(cues)
  /\ \E d \in Recording(cues[next]) :
       LET c == cues[next] IN
       /\ clip' = [clip EXCEPT ![c.id] = d]
       /\ \/ /\ Fits(d, Budget(c))
             /\ wav' = [wav EXCEPT ![c.id] = Min({d, Budget(c)})]
             /\ next' = next + 1 /\ UNCHANGED <<stage, reason>>
          \/ /\ ~ Fits(d, Budget(c)) /\ c.policy \in Overlays
             /\ wav' = [wav EXCEPT ![c.id] = d]
             /\ next' = next + 1 /\ UNCHANGED <<stage, reason>>
          \/ /\ ~ Fits(d, Budget(c)) /\ c.policy \notin Overlays /\ Fits(d, Hurried(d))
             /\ wav' = [wav EXCEPT ![c.id] = Hurried(d)]
             /\ next' = next + 1 /\ UNCHANGED <<stage, reason>>
          \/ /\ ~ Fits(d, Budget(c)) /\ c.policy \notin Overlays /\ ~ Fits(d, Hurried(d))
             /\ stage' = "failed" /\ reason' = "clip" /\ UNCHANGED <<wav, next>>
  /\ UNCHANGED <<case, cues, found, cut, time, pieces, failing, before, renders>>

\* A voice engine fails; there is no other, and no silent replacement.
SpeechFails ==
  /\ stage = "speak" /\ next <= Len(cues) /\ clip[cues[next].id] = 0
  /\ stage' = "failed" /\ reason' = "speech"
  /\ UNCHANGED <<case, cues, found, clip, wav, cut, next, time, pieces, failing, before, renders>>

\* an overlay no longer next to its line
Drifted(c) ==
  LET edge == Boundary(P, c) IN
  /\ c.policy = "overlay_speech_free"
  /\ \/ c.side = "before" /\ (c.gap[2] > edge \/ edge - c.gap[2] > MaxLead)
     \/ c.side = "after" /\ (c.gap[1] < edge \/ c.gap[1] - edge > MaxAnchor)

\* Overlays that drifted or do not fit are cut in at the boundary of their scene.
Demote ==
  /\ stage = "speak" /\ next > Len(cues)
  /\ \E told \in {[k \in DOMAIN cues |->
                     LET c == cues[k] IN
                     Snap(IF c.policy \in Overlays /\ (Drifted(c) \/ c.gap[2] - c.gap[1] < wav[c.id])
                          THEN AlignInsert(P, c) ELSE c)]} :
     \E edge \in {Edge(told)} : cues' = told /\ cut' = [ok |-> edge.ok, of |-> Excluded(edge)]
  /\ stage' = "place" /\ next' = 1
  /\ UNCHANGED <<case, found, clip, wav, time, pieces, reason, failing, before, renders>>

\* closest_overlay_start_sample
OverlayStart(c, lo, hi) ==
  LET latest == hi - wav[c.id]
      wished == CASE c.side = "before" -> latest
                  [] c.side = "after" -> lo
                  [] OTHER -> c.at - wav[c.id] \div 2
  IN Max({lo, Min({wished, latest})})

Piece(track, id, e, from, to, start) ==
  [track |-> track, cue |-> id, ep |-> e, from |-> from, to |-> to, start |-> start]

\* a stretch of the source goes to the end of the timeline
Play(acc, e, r) == [acc EXCEPT !.pieces = Append(@, Piece("source", 0, e, r[1], r[2], acc.time)),
                               !.time = @ + r[2] - r[1]]

\* the source from the cursor up to a place, without what is cut
AppendSource(acc, e, to) ==
  FoldLeft(LAMBDA a, r : Play(a, e, r), [acc EXCEPT !.cursor = Max({acc.cursor, to})],
           IF to > acc.cursor THEN SourceRanges(acc.cursor, to, cut.of[e]) ELSE << >>)

PlaceOverlay(acc, e, c) ==
  LET lo == Max({acc.cursor, c.gap[1]})
      hi == Min({P.length[e], c.gap[2]})
      from == OverlayStart(c, lo, hi)
      to == from + wav[c.id]
      up == AppendSource(acc, e, from)
  IN IF hi - lo < wav[c.id] THEN [acc EXCEPT !.reason = "pause"]
     ELSE IF \E iv \in cut.of[e] : Meets(<<from, to>>, iv) THEN [acc EXCEPT !.reason = "cut"]
     ELSE [up EXCEPT !.cursor = to, !.time = @ + wav[c.id],
             !.pieces = Append(Append(@, Piece("source", 0, e, from, to, up.time)),
                               Piece("narrator", c.id, e, from, to, up.time))]

\* Mutant of PlaceInsert: the source goes back to the insertion point after an overlay
PlaceInsertBack(acc, e, c) ==
  LET at == Min({P.length[e], c.at})
      up == [AppendSource(acc, e, at) EXCEPT !.cursor = at]
      start == up.time + CadenceIn
  IN [up EXCEPT !.time = start + wav[c.id] + CadenceOut,
                !.pieces = Append(@, Piece("narrator", c.id, e, at, at + wav[c.id], start))]

\* a cue put between two pieces of the source, with silence around it
PlaceInsert(acc, e, c) ==
  LET at == Max({acc.cursor, Min({P.length[e], c.at})})
      up == AppendSource(acc, e, at)
      start == up.time + CadenceIn
  IN [up EXCEPT !.time = start + wav[c.id] + CadenceOut,
                !.pieces = Append(@, Piece("narrator", c.id, e, at, at + wav[c.id], start))]

\* the next cue of an episode, unless one before it could not be placed
Put(acc, e, c) == IF acc.reason # "none" THEN acc
                  ELSE IF c.policy \in Overlays THEN PlaceOverlay(acc, e, c)
                  ELSE PlaceInsert(acc, e, c)

\* The next episode is laid out.
Place ==
  /\ stage = "place" /\ next <= P.eps
  /\ LET e == next
         placed == ByPlace(cues)
         mine == Only(placed, {k \in DOMAIN placed : placed[k].ep = e})
         empty == [cursor |-> 0, time |-> time, pieces |-> pieces, reason |-> "none"]
         laid == FoldLeft(LAMBDA acc, c : Put(acc, e, c), empty, mine)
         ended == AppendSource(laid, e, P.length[e])
     IN /\ reason' = laid.reason
        /\ stage' = IF laid.reason = "none" THEN "place" ELSE "failed"
        /\ pieces' = ended.pieces
        /\ time' = IF laid.cursor < P.length[e] THEN ended.time + EndPause ELSE ended.time
  /\ next' = next + 1
  /\ UNCHANGED <<case, cues, found, clip, wav, cut, failing, before, renders>>

Source(e) == Only(pieces, {k \in DOMAIN pieces : pieces[k].track = "source" /\ pieces[k].ep = e})
Voice == {p \in Range(pieces) : p.track = "narrator"}
VoiceOf(c) == CHOOSE p \in Voice : p.cue = c.id
Spoken(e) == {i \in Items(P, e) : i.spoken /\ i.to > i.from}

\* _source_coverage_result: nothing of an episode is played twice, nothing cut is played, and
\* nothing else is missing
PlayedOnce(e) ==
  LET got == {<<p.from, p.to>> : p \in Range(Source(e))} IN
  /\ \A a, b \in DOMAIN Source(e) :
       a # b => ~ Meets(<<Source(e)[a].from, Source(e)[a].to>>, <<Source(e)[b].from, Source(e)[b].to>>)
  /\ Merged(got) = SourceRanges(0, P.length[e], cut.of[e])
SourceWhole == \A e \in Eps : Source(e) # << >> /\ PlayedOnce(e)

\* _intro_removal_result, _commercial_bumper_removal_result and _ending_removal_result
Removed(d, least) ==
  \/ P.eps < 3
  \/ /\ d.status = "detected" /\ Cardinality({o.ep : o \in Range(d.occ)}) >= least
     /\ \A o \in Range(d.occ) : \A p \in Range(Source(o.ep)) : ~ Meets(<<p.from, p.to>>, <<o.from, o.to>>)

\* Mutant of OverlaySafe: the pause of the plan is trusted
OverlaySafeByPause(c) == c.gap[1] <= VoiceOf(c).from /\ VoiceOf(c).to <= c.gap[2]

\* _overlay_safety_result for one cue
OverlaySafe(c) ==
  LET v == VoiceOf(c) IN
  /\ c.gap[1] <= v.from /\ v.to <= c.gap[2]
  /\ \A i \in Spoken(c.ep) : ~ Meets(<<i.from - CheckMargin, i.to + CheckMargin>>, <<v.from, v.to>>)

\* narration_speech_cut_collisions for one cue
CutSafe(c) == /\ c.gap[1] < c.at /\ c.at < c.gap[2]
              /\ \A i \in Spoken(c.ep) : ~ (i.from - CheckMargin <= c.at /\ c.at <= i.to + CheckMargin)

\* _narration_anchor_proximity_result for one cue
NearAnchor(c) ==
  LET v == VoiceOf(c)
      edge == Boundary(P, c)
      far == CASE c.policy = Insert -> Abs(v.from - edge)
               [] c.policy # Insert /\ c.side = "before" -> edge - v.to
               [] OTHER -> v.from - edge
  IN c.policy = "overlay_opening_gap" \/ (0 <= far /\ far <= MaxAnchor)

\* _aligned_scene_insert_result
InsertExact(c) ==
  LET edge == Boundary(P, c) IN
  c.policy = Insert => VoiceOf(c).from \in {edge, SafeInsert(edge, Speech(P, c.ep))}

\* _forced_insert_spacing_result
ForcedApart ==
  LET forced == {c \in Range(cues) : c.policy = "insert_for_dense_action"} IN
  \A c, d \in forced : c.ep = d.ep /\ c # d => Abs(VoiceOf(c).from - VoiceOf(d).from) >= ForcedSpacing

\* rendered_narration_gap_measurements: no stretch of the result without narration is too long
Accompanied ==
  LET ends == {0} \cup {p.start + p.to - p.from : p \in Voice}
      starts == {time} \cup {p.start : p \in Voice}
      Heard(t) == \E p \in Voice : p.start <= t /\ t < p.start + p.to - p.from
  IN \A t \in ends : t < time /\ ~ Heard(t) => Min({s \in starts : s >= t}) - t <= MaxSilence

\* _character_introduction_timing_result: what the policy of an introduction asks of its place,
\* if `book` is where the book begins
SpotOn(c, book) ==
  LET v == VoiceOf(c)
      edge == Boundary(P, c)
      heard == IF c.policy = Insert THEN <<v.from, v.from + 1>> ELSE <<v.from, v.to>>
  IN /\ c.policy \in Overlays \cup {Insert}
     /\ InsertExact(c)
     /\ c.policy = "overlay_speech_free" => v.to <= edge + 1 /\ edge - v.to <= MaxLead
     /\ c.policy = "overlay_opening_gap" =>
          c.id = book.id /\ c.gap[1] <= v.from /\ v.to <= c.gap[2] + 1 /\ c.gap[2] - v.to <= MaxLead
     /\ \A iv \in cut.of[c.ep] : ~ Meets(iv, heard)

\* and what is asked of every introduction: before its line and not before the book
Timely(c) ==
  LET first == {d \in Range(cues) : Min(Edges(P)) \in d.frags}
      book == CHOOSE d \in first : \A o \in first : ~ Earlier(<<o.ep, o.start>>, <<d.ep, d.start>>)
      begin == IF book.policy = Insert /\ book.side = "before"
               THEN SafeInsert(book.start, Speech(P, book.ep)) ELSE book.start
  IN /\ c.side = "before"
     /\ SpotOn(c, book)
     /\ c.ep = book.ep => VoiceOf(c).from >= begin

\* build_automatic_quality_report: the checks of the gate
Checks ==
  LET told == Range(cues)
      Of(policies) == {c \in told : c.policy \in policies}
  IN [grounding  |-> \A c \in told : c.sure,
      timing     |-> \A c \in told : c.purpose = "character_introduction" => Timely(c),
      source     |-> SourceWhole,
      boundary   |-> cut.ok,
      intro      |-> Removed(found.intro, Required(P.eps)),
      ending     |-> Removed(found.ending, P.eps),
      bumper     |-> Removed(found.bumper, P.eps),
      proximity  |-> \A c \in told : NearAnchor(c),
      coverage   |-> Accompanied,
      rendered   |-> /\ told # {} /\ {p.cue : p \in Voice} = {c.id : c \in told}
                     /\ \A c \in told :
                          Cardinality({k \in DOMAIN pieces : pieces[k].track = "narrator" /\ pieces[k].cue = c.id}) = 1,
      dialog     |-> /\ \A c \in Of(Overlays) : OverlaySafe(c)
                     /\ \A c \in Of({"after_aligned_speech_gap", "insert_for_dense_action"}) : CutSafe(c),
      inserts    |-> ForcedApart /\ \A c \in told : InsertExact(c)]

\* the names of those that failed
Report == LET passed == Checks IN {k \in DOMAIN passed : ~ passed[k]}

Places == [c \in {c.id : c \in Range(cues)} |-> (CHOOSE p \in Voice : p.cue = c).from]

\* The gate judges the timeline and the render is published.
Release ==
  /\ stage = "place" /\ next > P.eps
  /\ stage' = "done" /\ failing' = Report
  /\ UNCHANGED <<case, cues, found, clip, wav, cut, next, time, pieces, reason, before, renders>>

\* The audio drama is rendered once more; what the last render left in the cues stays.
Again ==
  /\ stage \in {"done", "failed"} /\ renders < MaxRenders - 1
  /\ stage' = "prepare" /\ renders' = renders + 1
  /\ wav' = [i \in DOMAIN wav |-> 0] /\ next' = 1 /\ time' = 0 /\ pieces' = << >>
  /\ reason' = "none" /\ failing' = {} /\ cut' = Uncut
  /\ before' = IF stage = "done" THEN Places ELSE before
  /\ UNCHANGED <<case, cues, found, clip>>

RenderNext == WriteScript \/ Prepare \/ SpeakCue \/ SpeechFails \/ Demote \/ Place \/ Release \/ Again
RenderSpec == RenderInit /\ [][RenderNext]_rendervars
-----------------------------------------------------------------------------
(* What a render keeps. *)

\* Whatever is inserted, laid over or cut: a published timeline plays the retained source of
\* every episode once, in order and without a hole (append_source and the cursor of
\* render_project).
SourceOnce ==
  stage = "done" =>
    \A e \in Eps : /\ PlayedOnce(e)
                   /\ \A k \in 2..Len(Source(e)) : Source(e)[k].from >= Source(e)[k - 1].to

\* A timeline the gate releases lets nobody talk over a line that is heard, and each narration
\* of the script is heard exactly once (build_automatic_quality_report). The pauses are chosen
\* before the title sequence is known: no narration is laid over one that has material cut
\* from it since (reanchor_cues_outside_intros).
ReleasedIsClean ==
  stage = "done" /\ failing = {} =>
    /\ \A c \in Range(cues) : Cardinality({k \in DOMAIN pieces : pieces[k].cue = c.id}) = 1
    /\ \A c \in Range(cues) : c.policy \in Overlays =>
         \A i \in Spoken(c.ep) : ~ Meets(<<i.from, i.to>>, <<VoiceOf(c).from, VoiceOf(c).to>>)
    /\ \A c \in Range(cues) : c.policy \in Overlays =>
         \A iv \in CutsBy(found)[c.ep] : ~ Meets(c.gap, iv)

\* A render changes the cues it works on. Repeated without an edit it puts a narration at the
\* same place of its episode again, unless that place lies in material that is cut
\* (render_only after render_project).
RerenderIsStable ==
  stage = "done" /\ before # << >> =>
    \A c \in Range(cues) :
      (\A iv \in CutsBy(found)[c.ep] : ~ Within(before[c.id], iv)) => Places[c.id] = before[c.id]

\* Every insertion starts again at its own scene in the next render (render_project).
InsertsStartAtTheirScene ==
  stage = "done" /\ before # << >> =>
    \A c \in Range(cues) : c.policy = Insert => Places[c.id] = before[c.id]

\* An insertion never cuts an utterance the gate does not report (speech_safe_insert_ms).
LongCutsAreReported ==
  stage = "done" /\ failing = {} =>
    \A c \in Range(cues) : c.policy = Insert =>
      \A i \in Spoken(c.ep) : ~ (i.from < VoiceOf(c).from /\ VoiceOf(c).from < i.to)

\* A narration that is too long does not make the render fail (render_project).
LengthNeverFails == reason # "clip"
=============================================================================
