--------------------------- MODULE AlignmentContract ---------------------------
(***************************************************************************)
(* The contract a scene alignment has to keep: research_scene_alignment of *)
(* vocarium-agent/runner.py after the provider has answered, for a package *)
(* of one episode in the density audio_drama.                              *)
(*                                                                         *)
(* The cues of a package are numbered in the order of the novel and the    *)
(* subtitle segments in the order of time; 0 is a segment that does not    *)
(* exist.  A cue that is selected gets a segment and a text.  Of a text    *)
(* only the verdict of the rules for texts is kept:                        *)
(*   "scene"  passes them                                                  *)
(*   "bad"    keeps too little of its passage                              *)
(*   "told"   repeats what is said in some segments, which near them is    *)
(*            audible                                                      *)
(*   "long"   takes longer than its purpose allows                         *)
(*   "terse"  is enough in a pause of the dialogue, too little elsewhere   *)
(*   "echo"   tells what every other such text tells                       *)
(*   "bare"   names no picture it keeps: a form error, reported alone      *)
(*   "intro"  passes them and introduces the figure the package introduces *)
(*   "dated"  passed the rules of an earlier run and fails today's         *)
(* (No older result is started from that holds an "echo" or a "bare" text.) *)
(***************************************************************************)
EXTENDS Integers, FiniteSets, FiniteSetsExt, Functions

CONSTANTS
    Cues,    \* the candidates of the package, numbered in the order of the novel
    Segs,    \* its subtitle segments, numbered in the order of time
    EchoWindow,      \* CROSS_CUE_REPETITION_WINDOW_MS, in segments
    AudibleWindow,   \* window_ms of native_audio_repetition_findings, in segments
    NoCue

ASSUME PackageAssumption ==
    /\ Cues \subseteq Nat \ {0} /\ Segs \subseteq Nat \ {0} /\ NoCue \notin Cues
    /\ EchoWindow \in Nat /\ AudibleWindow \in Nat

Texts == {"scene", "bad", "long", "terse", "told", "echo", "bare", "intro", "dated"}
Alignment == [at : Segs \cup {0}, text : Texts]

(***************************************************************************)
(* A request p:                                                            *)
(*   edges     the cues that carry the book's first or last passage        *)
(*   start     the cue of the first passage, or NoCue                      *)
(*   side      which of the episode's ends the book cuts: "start", "end",  *)
(*             "both" or "none"                                            *)
(*   home      where each cue's passage was found                          *)
(*   said      the segments a text may repeat                              *)
(*   pauses    the cues with a pause near it that holds a terse text       *)
(*   window    the cues that close a measured gap, and the stretch of it   *)
(*   locked    alignments of an earlier run, with their introduction       *)
(*   asked     the cues the engine wants repaired, none in a fresh request *)
(*   seed      an older result to start from, or the empty answer          *)
(*   min, max  how many cues are to be selected, and the longest stretch   *)
(*   gap       without one; an accepted gap is never longer than bound     *)
(*   spent     homes of candidates that were given up                      *)
(*   needed    a figure has to be introduced, in the cue dedicated to it   *)
(*   dedicated if there is one; naming are the cues whose source names it, *)
(*   naming    seen the segment whose text names it first, or 0            *)
(*   seen                                                                  *)
(*   waived    a missing introduction is accepted                          *)
(*   concise   the researched description makes a text that passes         *)
(***************************************************************************)
Placements == UNION {[cs -> Alignment] : cs \in SUBSET Cues}

RequestType ==
    [edges : SUBSET Cues, start : Cues \cup {NoCue}, side : {"start", "end", "both", "none"},
     home : [Cues -> Nat], said : SUBSET Segs, pauses : SUBSET Cues,
     window : UNION {[cs -> SUBSET Segs] : cs \in SUBSET Cues},
     locked : Placements, lockedFormal : Cues \cup {NoCue}, asked : SUBSET Cues,
     seed : [cut : Placements, formal : Cues \cup {NoCue}],
     min : Nat, max : Nat, gap : Nat, bound : Nat, spent : SUBSET Nat, needed : BOOLEAN,
     dedicated : Cues \cup {NoCue}, naming : SUBSET Cues, seen : Segs \cup {0},
     waived : BOOLEAN, concise : BOOLEAN,
     providers : Nat \ {0}, offers : [Cues -> SUBSET Alignment]]

Unplaced == << >>
Answer(cut, formal) == [cut |-> cut, formal |-> formal]
EmptyAnswer == Answer(Unplaced, NoCue)

Selected(a) == DOMAIN a.cut
EngineLocked(p) == DOMAIN p.locked
Without(a, cs) == Restrict(a.cut, Selected(a) \ cs)
Relabelled(a, c, text) ==
    [a EXCEPT !.cut[c] = [at |-> a.cut[c].at, text |-> text]]

\* The segment nearest to a cue's home, the earlier of two.
Distance(x, y) == IF x < y THEN y - x ELSE x - y
Nearest(home) ==
    CHOOSE s \in Segs : \A t \in Segs :
        \/ Distance(s, home) < Distance(t, home)
        \/ Distance(s, home) = Distance(t, home) /\ s <= t

(***************************************************************************)
(* An answer is completed by what the repair must not touch.               *)
(***************************************************************************)
\* restore_anchor_only_alignment_content: a cue that had only to move keeps its text.
RestoreTexts(still, a) ==
    [a EXCEPT !.cut = [c \in Selected(a) |->
        IF c \in DOMAIN still THEN [at |-> a.cut[c].at, text |-> still[c].text] ELSE a.cut[c]]]

\* Which cues an answer may speak of, once others are locked.
RepairScope(c) == IF c.asked # {} THEN c.asked ELSE Cues \ DOMAIN c.locked

\* Mutant of Merge: the answer wins over the locked alignments.
MergeOverwriting(c, answer) ==
    LET a == RestoreTexts(c.still, answer) IN
    IF c.locked = Unplaced THEN a
    ELSE Answer([x \in Selected(a) \cup DOMAIN c.locked |->
                   IF x \in Selected(a) THEN a.cut[x] ELSE c.locked[x]],
                IF a.formal \in RepairScope(c) THEN a.formal ELSE c.formal)

Merge(c, answer) ==
    LET a == RestoreTexts(c.still, answer)
        fresh == Restrict(a.cut, Selected(a) \cap RepairScope(c)) IN
    IF c.locked = Unplaced THEN a
    ELSE Answer([x \in DOMAIN fresh \cup DOMAIN c.locked |->
                   IF x \in DOMAIN c.locked THEN c.locked[x] ELSE fresh[x]],
                IF a.formal \in RepairScope(c) THEN a.formal ELSE c.formal)

(***************************************************************************)
(* What the validator mends itself.                                        *)
(***************************************************************************)
\* reconcile_grounded_character_introductions: the row of an introduction only one cue proves.
Reconcile(p, a) ==
    LET proving == {c \in Selected(a) : a.cut[c].text = "intro" /\ a.cut[c].at \in Segs} IN
    IF p.needed /\ a.formal = NoCue /\ Cardinality(proving) = 1
    THEN Answer(a.cut, CHOOSE c \in proving : TRUE) ELSE a

\* An edge is labelled as one, unless it opens the book with the formal introduction.
RelabelEdges(p, a) ==
    [a EXCEPT !.cut = [c \in Selected(a) |->
        IF c \in p.edges /\ a.cut[c].text = "intro" /\ ~(c = p.start /\ c = a.formal)
        THEN [at |-> a.cut[c].at, text |-> "scene"] ELSE a.cut[c]]]

(***************************************************************************)
(* Errors.  All but "plain" and "empty" carry the answer they complain     *)
(* about; invalid are the cues to rewrite, required those that are missing *)
(* or stand in the wrong place.                                            *)
(***************************************************************************)
Complaint(kind, a, invalid, required) ==
    [kind |-> kind, cut |-> a.cut, formal |-> a.formal, invalid |-> invalid,
     required |-> required, failed |-> FALSE]
Bare(kind) == Complaint(kind, EmptyAnswer, {}, {})
Accepted(a) == Complaint("ok", a, {}, {})

\* AlignmentValidationError
Partial(e) == e.kind \notin {"ok", "plain", "empty", "provider", "none"}
\* The errors that are mended by moving cues, their texts being kept.
Movable(e) == e.kind \in {"chronology", "duplicate", "drift", "gap"}

\* validate_coverage_repair_windows
OutsideWindow(p, a) ==
    {c \in DOMAIN p.window : c \notin Selected(a) \/ a.cut[c].at \notin p.window[c]}

Drifting(p, a) == {c \in p.edges : a.cut[c].at # Nearest(p.home[c])}

Duplicated(a) == {c \in Selected(a) : \E d \in Selected(a) \ {c} : a.cut[c].at = a.cut[d].at}

\* Narration follows the novel; an introduction waits for the figure to appear.
Crossing(p, a) ==
    LET plot == {c \in Selected(a) : a.cut[c].text # "intro"}
        crossed(c, d) == c < d /\ a.cut[c].at > a.cut[d].at
                         /\ ~({c, d} \subseteq EngineLocked(p)) IN
    {c \in plot : \E d \in plot : crossed(c, d) \/ crossed(d, c)}

FormErrors(p, a) == {c \in Selected(a) : a.cut[c].text = "bare"} \ EngineLocked(p)
\* The form error that is met first when the cues are taken in the order of time.
FirstInTime(a, cs) ==
    CHOOSE c \in cs : \A d \in cs :
        \/ a.cut[c].at < a.cut[d].at
        \/ a.cut[c].at = a.cut[d].at /\ c <= d

\* A comment written for a pause counts as one that stops the episode if the cue has none.
BudgetErrors(p, a) ==
    {c \in Selected(a) : \/ a.cut[c].text = "long"
                         \/ a.cut[c].text = "terse" /\ c \notin p.pauses} \ EngineLocked(p)

TextErrors(p, a) == {c \in Selected(a) : a.cut[c].text \in {"bad", "dated"}} \ EngineLocked(p)

\* native_audio_repetition_findings: what a text repeats is audible where it stands.
Audible(p, at) == \E s \in p.said : Distance(at, s) <= AudibleWindow

RepetitionErrors(p, a) ==
    {c \in Selected(a) : a.cut[c].text = "told" /\ Audible(p, a.cut[c].at)} \ EngineLocked(p)

\* Of two comments that tell the same within the window both are to be rewritten, where
\* they may be; a comment is held against the first of those before it.
Repeated(p, a, c) ==
    {d \in Selected(a) \ {c} :
        /\ {a.cut[c].text, a.cut[d].text} = {"echo"}
        /\ FirstInTime(a, {c, d}) = d
        /\ Distance(a.cut[c].at, a.cut[d].at) <= EchoWindow
        /\ ~({c, d} \subseteq EngineLocked(p))}

Repetitions(p, a) ==
    UNION {{c, FirstInTime(a, Repeated(p, a, c))} \ EngineLocked(p) :
             c \in {c \in Selected(a) : Repeated(p, a, c) # {}}}

ExtraIntroductions(p, a) ==
    {c \in Selected(a) : a.cut[c].text = "intro" /\ c # a.formal} \ EngineLocked(p)

\* Everything that can be told of the cues one by one or in pairs.
ContractErrors(p, a) ==
    LET rules == {r \in {<<"duplicate", Duplicated(a)>>, <<"chronology", Crossing(p, a)>>,
                         <<"texts", BudgetErrors(p, a) \cup TextErrors(p, a)
                                     \cup RepetitionErrors(p, a) \cup Repetitions(p, a)
                                     \cup ExtraIntroductions(p, a)>>} :
                    r[2] # {}}
        invalid == UNION {r[2] : r \in rules} \ EngineLocked(p) IN
    IF rules = {} THEN Accepted(a)
    ELSE Complaint(IF Cardinality(rules) = 1 THEN (CHOOSE r \in rules : TRUE)[1] ELSE "mixed",
                   a, invalid, {})

(***************************************************************************)
(* validate_alignment_density: enough cues, and no stretch without one     *)
(* where the novel still has something to tell.                            *)
(***************************************************************************)
Least(x, y) == IF x < y THEN x ELSE y
Greatest(x, y) == IF x < y THEN y ELSE x

Minimum(p) == Least(Cardinality(Cues), p.min)
Maximum(p) ==
    Greatest(Minimum(p), Least(Cardinality(Cues), IF p.max = 0 THEN 12 ELSE p.max))

\* The candidates for a stretch: an introduction has no place of its own in the novel.
Sourced(p) == Cues \ {p.dedicated}

\* The stretches between two comments, from the first candidate to the last one; a stretch
\* that the book's first or last passage borders on is no gap.
Stretches(p, a) ==
    LET anchors == {a.cut[c].at : c \in Selected(a)}
        homes == {p.home[c] : c \in Sourced(p)}
        opens == p.side \in {"start", "both"}
        closes == p.side \in {"end", "both"}
        tail == IF opens /\ Cardinality(anchors) > 1 THEN anchors \ {Min(anchors)} ELSE anchors
        inner == IF closes /\ Cardinality(tail) > 1 THEN tail \ {Max(tail)} ELSE tail
        neighbours == {s \in inner \X inner :
                          s[1] < s[2] /\ \A x \in inner : x <= s[1] \/ s[2] <= x} IN
    neighbours \cup (IF opens THEN {} ELSE {<<Min(homes), Min(inner)>>})
               \cup (IF closes THEN {} ELSE {<<Max(inner), Max(homes)>>})

\* Who could fill a stretch: an unused candidate, or one that was placed elsewhere.
Fillers(p, a, s) ==
    {c \in Sourced(p) :
        /\ p.home[c] \notin p.spent
        /\ s[1] < p.home[c] /\ p.home[c] < s[2]
        /\ \/ c \notin Selected(a)
           \/ ~\E d \in Selected(a) : s[1] < a.cut[d].at /\ a.cut[d].at < s[2]}

Gaps(p, a) ==
    IF Sourced(p) = {} THEN {}
    ELSE {s \in Stretches(p, a) : s[2] - s[1] > p.gap /\ Fillers(p, a, s) # {}}

DensityErrors(p, a) ==
    LET n == Cardinality(Selected(a)) IN
    IF n < Minimum(p) THEN Complaint("count", a, Cues \ Selected(a), {})
    ELSE IF n > Maximum(p) THEN Bare("plain")
    ELSE IF Gaps(p, a) # {}
    THEN Complaint("gap", a, {}, UNION {Fillers(p, a, s) : s \in Gaps(p, a)})
    ELSE Accepted(a)

(***************************************************************************)
(* The formal introduction, judged last.                                   *)
(***************************************************************************)
Introduces(p, a) ==
    /\ a.formal \in Selected(a)
    /\ p.dedicated # NoCue => a.formal = p.dedicated
    /\ a.cut[a.formal].text = "intro"
    /\ p.start \in Selected(a) => a.cut[a.formal].at >= a.cut[p.start].at

\* The selected cues that speak of the figure or whose source does.
Naming(p, a) ==
    {c \in Selected(a) \ EngineLocked(p) : a.cut[c].text = "intro" \/ c \in p.naming}

\* What is opened for the retry: the cue that is mapped, one that could be, or all of them.
IntroductionMissing(p, a) ==
    LET open == Cues \ EngineLocked(p)
        wanted == {p.dedicated} \ {NoCue}
        named == Naming(p, a) IN
    [Complaint("introduction", a,
        CASE a.formal \in open -> {a.formal}
          [] a.formal \notin open /\ named # {} -> {FirstInTime(a, named)}
          [] a.formal \notin open /\ named = {} /\ wanted = {} -> open \cap Selected(a)
          [] OTHER -> {},
        IF a.formal \notin open /\ named = {} /\ wanted = {} THEN open \ Selected(a) ELSE wanted)
     EXCEPT !.failed = TRUE]

IntroductionErrors(p, a) ==
    IF ~p.needed
    THEN IF a.formal = NoCue THEN Accepted(a) ELSE Complaint("introduction", a, {a.formal}, {})
    ELSE IF p.waived \/ Introduces(p, a) THEN Accepted(a)
    ELSE IntroductionMissing(p, a)

(***************************************************************************)
(* The validator: the first rule that is broken decides.                   *)
(***************************************************************************)
Judge(p, answer) ==
    LET a == RelabelEdges(p, Reconcile(p, answer))
        outside == OutsideWindow(p, answer) IN
    IF Selected(answer) = {} THEN Bare("empty")
    ELSE IF outside # {} THEN Complaint("window", answer, outside, outside)
    ELSE IF ~(p.edges \subseteq Selected(a)) THEN Bare("plain")
    ELSE IF \E c \in Selected(a) : a.cut[c].at \notin Segs THEN Bare("plain")
    ELSE IF Drifting(p, a) # {} THEN Complaint("drift", a, p.edges, {})
    ELSE IF FormErrors(p, a) # {}
    THEN Complaint("form", a, {FirstInTime(a, FormErrors(p, a))}, {})
    ELSE IF ContractErrors(p, a).kind # "ok" THEN ContractErrors(p, a)
    ELSE IF DensityErrors(p, a).kind # "ok" THEN DensityErrors(p, a)
    ELSE IntroductionErrors(p, a)

(***************************************************************************)
(* clean_scene_alignment_seed: an older result is brought up to the rules  *)
(* before it is judged.  A text may lose the sentences that were already   *)
(* audible, which mends it, or gain some of its passage (cleaned), and the *)
(* figure's introduction is rebuilt from what names it.                    *)
(***************************************************************************)
SeedTexts(a, cleaned) ==
    [a EXCEPT !.cut = [c \in Selected(a) |->
        IF c \in cleaned /\ a.cut[c].text \in {"bad", "long", "told"}
        THEN [at |-> a.cut[c].at, text |-> "scene"]
        ELSE a.cut[c]]]

\* The carrier moves to the scene that names the figure if nobody stands there and the
\* order of the cues allows it.
MoveToSeen(p, a, c) ==
    LET others == Selected(a) \ {c}
        before == {d \in others : d < c}
        behind == {d \in others : d > c}
        fits == /\ \A d \in others : a.cut[d].at # p.seen
                /\ before # {} => a.cut[Max(before)].at <= p.seen
                /\ behind # {} => p.seen <= a.cut[Min(behind)].at IN
    IF fits THEN [a EXCEPT !.cut[c] = [at |-> p.seen, text |-> a.cut[c].text]] ELSE a

\* A cue whose text or source names the figure; else the one nearest to the scene that
\* does; else one that claims to introduce somebody.
SeedCarrier(p, a) ==
    LET plain == Selected(a) \ p.edges
        naming == plain \cap Naming(p, a)
        near == {c \in plain : \A d \in plain :
                    Distance(a.cut[c].at, p.seen) <= Distance(a.cut[d].at, p.seen)}
        claiming == {c \in Selected(a) : a.cut[c].text = "intro"} IN
    IF naming # {} THEN Min(naming)
    ELSE IF p.seen # 0 /\ near # {} THEN Min(near)
    ELSE IF claiming # {} THEN Min(claiming) ELSE NoCue

\* The description goes in front of a text that does not introduce anybody yet.
SeedText(p, text) ==
    IF text = "intro" \/ (text = "scene" /\ p.concise) THEN "intro" ELSE "bad"

CleanSeed(p, cleaned) ==
    LET a == SeedTexts(p.seed, cleaned)
        c == SeedCarrier(p, a)
        named == Naming(p, a) \ p.edges # {}
        moved == IF ~named /\ p.seen # 0 /\ c \notin p.edges THEN MoveToSeen(p, a, c) ELSE a IN
    IF ~p.needed \/ c = NoCue THEN Answer(a.cut, NoCue)
    ELSE Answer(Relabelled(moved, c, SeedText(p, a.cut[c].text)).cut, c)

(***************************************************************************)
(* What is tried once repairing has failed.  Each takes the request and an *)
(* error and gives a lighter request and answer to judge again, or nothing *)
(* (refused).                                                              *)
(***************************************************************************)
Refused == Bare("none")
Survivors(e) == DOMAIN e.cut \ e.invalid
Rest(e) == Restrict(e.cut, Survivors(e))
FormalRest(e) == IF e.formal \in e.invalid THEN NoCue ELSE e.formal
Spend(p, e) == p.spent \cup {p.home[c] : c \in e.invalid}

\* salvage_optional_audio_drama_result: beats nobody depends on are dropped.
Optional(p, e) ==
    /\ p.asked = {} /\ Partial(e) /\ e.invalid # {} /\ e.required = {}
    /\ e.invalid \cap (p.edges \cup {e.formal}) = {}
    /\ \A c \in e.invalid \cap DOMAIN e.cut : e.cut[c].text # "intro"
    /\ Cardinality(Survivors(e)) >= Least(4, p.min)

DropOptional(p, e) ==
    IF Optional(p, e)
    THEN Judge([p EXCEPT !.spent = Spend(p, e),
                         !.min = Greatest(Least(4, @), @ - Cardinality(e.invalid))],
               Answer(Rest(e), e.formal))
    ELSE Refused

\* salvage_introduction_gaps_after_exhaustion: the figure stays without an introduction.
WaiveIntroduction(p, e) ==
    IF Partial(e) /\ e.failed /\ DOMAIN e.cut # {} /\ e.invalid \cap p.edges = {}
    THEN Judge([p EXCEPT !.waived = TRUE], Answer(Rest(e), NoCue))
    ELSE Refused

\* salvage_after_exhaustion: everything that is still complained about goes.
Unbounded == 1000
DropInvalid(p, e) ==
    IF Partial(e) /\ e.invalid # {} /\ e.invalid \cap p.edges = {} /\ Survivors(e) # {}
    THEN Judge([p EXCEPT !.waived = TRUE, !.spent = Spend(p, e), !.gap = Unbounded,
                         !.min = Greatest(1, Least(Greatest(1, @), Cardinality(Survivors(e))))],
               Answer(Rest(e), FormalRest(e)))
    ELSE Refused

\* repair_researched_character_introductions: the mapped cue gets the researched description.
RewriteIntroduction(p, e) ==
    IF /\ Partial(e) /\ e.kind \in {"introduction", "form"}
       /\ p.needed /\ p.concise /\ e.formal \in e.invalid /\ e.formal \in DOMAIN e.cut
    THEN Judge(p, Relabelled(Answer(e.cut, e.formal), e.formal, "intro"))
    ELSE Refused
=============================================================================
