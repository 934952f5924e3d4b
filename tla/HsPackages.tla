------------------------------ MODULE HsPackages ------------------------------
(***************************************************************************)
(* How the audio drama's script is divided among calls of the agent: which *)
(* candidates a run offers, which of them a repair has rewritten, where    *)
(* new comments are asked for, and the packages all this is cut into       *)
(* (hoerspiele/engine.py).                                                 *)
(*                                                                         *)
(* Time runs over the moments of all episodes, in order; a comment is      *)
(* placed at a moment with a line of the transcript. A candidate is a      *)
(* record                                                                  *)
(*   id       the same in every run for the same passages or figure        *)
(*   home     the moment it is proposed at                                 *)
(*   src      the novel's passages it retells, none for a figure's own     *)
(*   figure   the figure it is made to introduce, or Nobody                *)
(*   words    its text: the run that wrote it, 0 for the novel itself, and *)
(*            the names it has in another spelling than the recordings       *)
(* and a cue of the script is one with the moment "at" it is placed at.    *)
(***************************************************************************)
EXTENDS Integers, Sequences, FiniteSets, FiniteSetsExt, Functions

CONSTANTS
    EpisodeOf,     \* of each moment its episode, a sequence that never falls
    Mute,          \* the moments without a line of the transcript
    Homes,         \* of each passage, the moment it is proposed at
    Naming,        \* of each passage, the figures it names
    Aliases,       \* of each passage, the names it has in a spelling of its own
    FirstSeen,     \* of each figure, the episode that has to introduce her
    HintAt,        \* of each figure, where a candidate of her own is proposed
    MaxGap,        \* narration_max_gap_ms, in moments
    Floor,         \* the least number of comments of an episode, 4 in the code
    MaxCues,       \* SCENE_ALIGNMENT_MAX_CUES
    MaxIntros      \* SCENE_ALIGNMENT_MAX_INTROS

Moments == 1..Len(EpisodeOf)
Passages == 1..Len(Homes)
Episodes == Range(EpisodeOf)
Figures == DOMAIN FirstSeen
Nobody == "nobody"

\* Two figures are not proposed at one line as long as the episode has another one.
ASSUME PackageAssumption ==
    /\ MaxGap \in Nat /\ MaxGap > 2 /\ MaxCues \in Nat \ {0} /\ MaxIntros \in Nat \ {0}
    /\ EpisodeOf \in Seq(Nat) /\ \A s, t \in Moments : s <= t => EpisodeOf[s] <= EpisodeOf[t]
    /\ Homes \in Seq(Moments)
    /\ \A p \in Passages : Naming[p] \subseteq Figures
    /\ \A f \in Figures : HintAt[f] \in Moments /\ EpisodeOf[HintAt[f]] = FirstSeen[f]
    /\ \A f, g \in Figures : HintAt[f] = HintAt[g] => f = g

\* The numbers of the candidates: of the passages, the figures' own ones, those of gaps.
FigureIds == Len(Homes)
GapIds == FigureIds + Len(EpisodeOf)
OfPassage(id) == id <= FigureIds
OfFigure(id) == FigureIds < id /\ id <= GapIds
OfGap(id) == GapIds < id

Raw(id, home, src, figure, words) ==
    [id |-> id, home |-> home, src |-> src, figure |-> figure, words |-> words]
EpOf(raw) == EpisodeOf[raw.home]
Ids(raws) == {r.id : r \in raws}
Named(raw) == UNION {Naming[p] : p \in raw.src}
Spelt(raw) == UNION {Aliases[p] : p \in raw.src}
Original == [by |-> 0, names |-> {}]
Before(a, b) == a.home < b.home \/ (a.home = b.home /\ a.id < b.id)
\* The elements of a small set in an order.
Sorted(S, Under(_, _)) ==
    [k \in 1..Cardinality(S) |-> CHOOSE x \in S : Cardinality({y \in S : Under(y, x)}) = k - 1]

(***************************************************************************)
(* The candidates.                                                         *)
(***************************************************************************)
FreshRaws == {Raw(p, Homes[p], {p}, Nobody, Original) : p \in Passages}

FigureId(f) == FigureIds + HintAt[f]

\* A candidate of her own for a figure no passage of the episode names; a repair of the
\* introductions makes one for every figure that has none, and a repair of gaps leaves a
\* figure alone that a passage introduces already.
FigureRaws(script, intros, repairing, force) ==
    LET CueOf(i) == CHOOSE c \in script : c.id = i.cue
        done(f) == {i \in intros : i.figure = f /\ i.cue \in Ids(script)
                                    /\ EpisodeOf[CueOf(i).at] = FirstSeen[f]}
        kept(f) == \E i \in done(f) : CueOf(i).figure = Nobody
        named(f) == \E p \in Passages : EpisodeOf[Homes[p]] = FirstSeen[f] /\ f \in Naming[p]
        wanted == {f \in Figures : ~(repairing /\ ~force /\ kept(f))
                                     /\ ((force /\ done(f) = {}) \/ ~named(f))} IN
    {Raw(FigureId(f), HintAt[f], {}, f, Original) : f \in wanted}

\* locked_alignments_for_repair: a cue no fresh candidate answers to stands for itself.
WithClones(raws, script) ==
    raws \cup {Raw(c.id, c.at, c.src, c.figure, c.words) : c \in {c \in script : c.id \notin Ids(raws)}}

\* A candidate whose cue is locked is proposed where that cue is.
Positioned(raws, locked) ==
    {IF r.id \in Ids(locked)
     THEN [r EXCEPT !.home = (CHOOSE c \in locked : c.id = r.id).at] ELSE r : r \in raws}

(***************************************************************************)
(* The stretches of the rendered audio drama without a comment. What is    *)
(* cut does not sound; the ends of the book count.                         *)
(***************************************************************************)
Lines(cuts) == Moments \ (cuts \cup Mute)
Heard(s, cuts) == Cardinality({t \in Moments \ cuts : t < s})

Stretches(script, cuts) ==
    LET ends == {c.at : c \in script} \cup {0, Len(EpisodeOf) + 1} IN
    {w \in ends \X ends :
        w[1] < w[2] /\ (\A e \in ends : e <= w[1] \/ w[2] <= e)
          /\ Heard(w[2], cuts) - Heard(w[1], cuts) > MaxGap}

\* timeline_gap_repair_candidates: the last line still in reach, again and again. The code
\* leaves a margin on either side; 0 stands for a stretch that has no line in reach.
\* Mutant of Closing: a stretch gets one comment and no more.
ClosingOnce(stretch, taken, cuts) ==
    LET reach == {s \in Lines(cuts) \ taken :
                    stretch[1] < s /\ s < stretch[2]
                      /\ Heard(s, cuts) <= Heard(stretch[1], cuts) + MaxGap - 2} IN
    IF reach = {} THEN {0} ELSE {Max(reach)}

Closing(stretch, taken, cuts) ==
    LET Reach(from) == {s \in Lines(cuts) \ taken :
                          from < s /\ s < stretch[2]
                            /\ Heard(s, cuts) <= Heard(from, cuts) + MaxGap - 2}
        fill[from \in 0..Len(EpisodeOf)] ==
            IF Heard(stretch[2], cuts) - Heard(from, cuts) <= MaxGap - 1 THEN {}
            ELSE IF Reach(from) = {} THEN {0}
            ELSE {Max(Reach(from))} \cup fill[Max(Reach(from))] IN
    fill[stretch[1]]

\* What a new comment retells: all from the first to the last passage of the comments beside
\* it, else of the two nearest ones of the episode, else the passages of the episode.
Retold(s, stretch, script) ==
    LET here == {c \in script : EpisodeOf[c.at] = EpisodeOf[s] /\ c.src # {}}
        beside == {c \in here : c.at \in {stretch[1], stretch[2]}}
        far(c) == IF c.at < s THEN s - c.at ELSE c.at - s
        near == {c \in here : Cardinality({d \in here : far(d) < far(c)}) < 2}
        of == UNION {c.src : c \in IF beside # {} THEN beside ELSE near}
        ids == IF of # {} THEN of ELSE {p \in Passages : EpisodeOf[Homes[p]] = EpisodeOf[s]} IN
    IF ids = {} THEN {} ELSE Min(ids)..Max(ids)

Taken(script) == {c.at : c \in script}
Unreachable(script, cuts) ==
    \E w \in Stretches(script, cuts) : 0 \in Closing(w, Taken(script), cuts)
\* A line without any passage of the novel stays without a comment.
GapRaws(script, cuts) ==
    {r \in UNION {{Raw(GapIds + s, s, Retold(s, w, script), Nobody, Original) :
                      s \in Closing(w, Taken(script), cuts)} : w \in Stretches(script, cuts)} :
        r.src # {}}

(***************************************************************************)
(* coverage_gap_repair_ids: which candidates are needed as well, judged by *)
(* where the locked cues are and where the candidates would be.            *)
(***************************************************************************)
\* An episode: its candidates, those of its cues that are locked, and whether these open and
\* close the book.
View(ep, raws, locked) ==
    LET mine == {r \in raws : EpOf(r) = ep}
        set == {c \in locked : c.id \in Ids(mine)}
        holds(p) == \E c \in set : p \in c.src IN
    [mine |-> mine, set |-> set,
     opens |-> (\A r \in raws : ep <= EpOf(r)) /\ holds(Min(Passages)),
     closes |-> (\A r \in raws : ep >= EpOf(r)) /\ holds(Max(Passages))]

\* What a stretch may begin and end at; the first and the last comment of the book are not
\* looked at again. A place is the [id, at] of a comment that is there or has been chosen.
Marks(view, place) ==
    LET all == {r.home : r \in view.mine} \cup {q.at : q \in place}
        without(S, drop, x) == IF drop /\ Cardinality(S) > 1 THEN S \ {x} ELSE S
        tail(T) == without(T, view.closes, Max(T))
        inner(S) == tail(without(S, view.opens, Min(S))) IN
    inner({q.at : q \in place}) \cup (IF view.opens THEN {} ELSE {Min(all)})
                                \cup (IF view.closes THEN {} ELSE {Max(all)})

Between(view, chosen, w) ==
    {r \in view.mine : r.figure = Nobody /\ w[1] < r.home /\ r.home < w[2] /\ r.id \notin chosen}

Wide(view, s) ==
    LET marks == Marks(view, s.place) IN
    {w \in marks \X marks : w[2] - w[1] > MaxGap /\ (\A x \in marks : x <= w[1] \/ w[2] <= x)
                              /\ Between(view, s.chosen, w) # {}}

\* The first stretch gets the last candidate in reach, one without a cue if there is one.
Pick(view, s) ==
    LET w == CHOOSE w \in Wide(view, s) : \A v \in Wide(view, s) : w[1] <= v[1]
        inside == Between(view, s.chosen, w)
        reach == {r \in inside : r.home - w[1] <= MaxGap}
        free == {r \in reach : r.id \notin Ids(view.set)}
        best == IF free # {} THEN free ELSE reach IN
    IF best = {} THEN CHOOSE r \in inside : \A q \in inside : ~Before(q, r)
    ELSE CHOOSE r \in best : \A q \in best : ~Before(r, q)

Choose(s, r) == [place |-> {q \in s.place : q.id # r.id} \cup {[id |-> r.id, at |-> r.home]},
                 chosen |-> s.chosen \cup {r.id}]

Narrowed(view) ==
    LET step[n \in 0..Cardinality(view.mine)] ==
            IF n = 0 THEN [place |-> {[id |-> c.id, at |-> c.at] : c \in view.set}, chosen |-> {}]
            ELSE IF Wide(view, step[n - 1]) = {} THEN step[n - 1]
            ELSE Choose(step[n - 1], Pick(view, step[n - 1])) IN
    step[Cardinality(view.mine)]

\* The candidate farthest from every comment, until the episode has enough of them.
Loneliest(left, place) ==
    LET far(r, q) == IF q.at < r.home THEN r.home - q.at ELSE q.at - r.home
        lone(r) == IF place = {} THEN 0 ELSE Min({far(r, q) : q \in place}) IN
    CHOOSE r \in left : \A q \in left \ {r} :
        lone(r) > lone(q) \/ (lone(r) = lone(q) /\ Before(r, q))

Filled(view) ==
    LET fill[n \in 0..Cardinality(view.mine)] ==
            IF n = 0 THEN Narrowed(view)
            ELSE LET s == fill[n - 1]
                     left == {r \in view.mine : r.id \notin Ids(s.place)} IN
                 IF left = {} \/ Cardinality(s.place) >= Floor THEN s
                 ELSE Choose(s, Loneliest(left, s.place)) IN
    fill[Cardinality(view.mine)]

CoverageIds(ep, raws, locked) == Filled(View(ep, raws, locked)).chosen

(***************************************************************************)
(* scene_alignment_packages: an episode's candidates in the order of their *)
(* lines, cut where a package would get too many, or too many figures.     *)
(***************************************************************************)
\* The candidate that can introduce a figure, none if there is none.
Carriers(rows, f) ==
    LET own == {r \in rows : r.figure = f}
        tell == {r \in rows : r.figure = Nobody /\ f \in Named(r)}
        from == IF own # {} THEN own ELSE tell IN
    {r \in from : \A q \in from : ~Before(q, r)}

\* Mutant of Windows: the agent sees the whole episode.
WindowsWhole(parts, ep, locked, cuts) ==
    [k \in DOMAIN parts |-> {s \in Lines(cuts) : EpisodeOf[s] = ep}]

\* The lines of a package: up to the middle between it and the next one, and beyond over
\* the cues that are locked.
Windows(parts, ep, locked, cuts) ==
    LET held(k) == {c.at : c \in {c \in locked : c.id \in Ids(parts[k])}} \cap Lines(cuts)
        last(k) == Max({r.home : r \in parts[k]})
        first(k) == Min({r.home : r \in parts[k]}) IN
    [k \in DOMAIN parts |->
        {s \in Lines(cuts) :
            /\ EpisodeOf[s] = ep
            /\ k = 1 \/ 2 * s >= last(k - 1) + first(k) \/ \E a \in held(k) : a <= s
            /\ k = Len(parts) \/ 2 * s < last(k) + first(k + 1) \/ \E a \in held(k) : s <= a}]

\* Where the package of each row begins: at the row itself when the package before it has
\* enough of them, or would introduce too many figures.
Starts(load) ==
    LET start[i \in DOMAIN load] ==
            IF i = 1 THEN 1
            ELSE LET s == start[i - 1] IN
                 IF i - s >= MaxCues \/ Cardinality(UNION {load[j] : j \in s..i}) > MaxIntros
                 THEN i ELSE s IN
    start

Parts(rows, start) ==
    LET begins == Sorted(Range(start), LAMBDA a, b : a < b) IN
    [k \in DOMAIN begins |-> {rows[i] : i \in {i \in DOMAIN rows : start[i] = begins[k]}}]

EpisodePackages(ep, raws, locked, cuts) ==
    LET mine == {r \in raws : EpOf(r) = ep}
        rows == Sorted(mine, Before)
        required == {f \in Figures : FirstSeen[f] = ep}
        carried(r) == {f \in required : r \in Carriers(mine, f)}
        parts == Parts(rows, Starts([i \in DOMAIN rows |-> carried(rows[i])]))
        window == Windows(parts, ep, locked, cuts)
        orphans == {f \in required : Carriers(mine, f) = {}} IN
    {[cues |-> parts[k], window |-> window[k],
      figures |-> UNION {carried(r) : r \in parts[k]} \cup (IF k = 1 THEN orphans ELSE {})] :
        k \in DOMAIN parts}

\* The packages of all episodes, in order; one without a line to place a comment at is left out.
Packages(raws, locked, cuts) ==
    Sorted({p \in UNION {EpisodePackages(ep, raws, locked, cuts) : ep \in Episodes} : p.window # {}},
           LAMBDA p, q : \A r \in p.cues, x \in q.cues : Before(r, x))
=============================================================================
