------------------------------- MODULE HsPlan -------------------------------
(***************************************************************************)
(* From the book and the transcript to the plan of the narration: which    *)
(* passages are told, at which line of which episode, in which pause.      *)
(*                                                                         *)
(* A project P is a record                                                 *)
(*   eps    the number of mapped episodes, numbered in their order         *)
(*   length [1..eps -> Nat]                                                *)
(*   lines  the transcript, in order: [ep, from, to, spoken, toks, n]      *)
(*   words  recognised words: a set of [ep, from, to, spoken]              *)
(*   frags  the book in order: [chapter, narrative, toks]                  *)
(*   home   [chapter -> the sequence of episodes it is mapped to]          *)
(* and cuts maps an episode to its excluded intervals. toks stands for the *)
(* words that count for a comparison, n for the number of words.           *)
(*                                                                         *)
(* A cue is [id, frags, ep, anchor, start, at, bound, gap, policy, side,       *)
(* purpose, pause, est, sure]: the passages it tells, its line, that       *)
(* line's start, the insertion point, the scene boundary, its pause <<>>   *)
(* or <<a, b>>, whether it asked for a pause at the boundary, its length   *)
(* as estimated, and whether its confidence reaches the minimum.           *)
(***************************************************************************)
EXTENDS HsIntervals, Functions

CONSTANTS
  Interval,      \* one raw cue per this much of an episode (60 s)
  Window,        \* how far from its target a line may lie at first (120 s)
  Spacing,       \* distance of narrations in pauses (30 s)
  GapCap,        \* a pause longer than this is no better (10 s)
  OpenFrom, OpenTo, OpenGap, OpenMin, OpenWords,  \* the opening block (30 s, 180 s, 6 s, 8 s, 10)
  OpenSlack,     \* what an opening pause must have to spare (1.15 s)
  SlackPlan,     \* what a planned pause must have to spare (1 s)
  MaxLead,       \* a narration ends at most this long before its line (4 s)
  MaxAnchor,     \* and begins at most this long after it (6 s)
  SpeechMargin,  \* distance of a forced insertion from the edge of its pause (300 ms)
  ForcedSpacing, \* distance of forced insertions (240 s)
  Context, MinPrefix, MinSuffix,  \* the book's edges: 30 s kept, cuts from 180 s and 90 s
  MinDetail,     \* a chapter is cut elsewhere for this many more common words (3)
  EstPer, EstMin, EstCap, \* length of a narration: per passage, at least, at most
  OpeningCap     \* length an opening is planned for at most (24 s)

ASSUME PlanBounds ==
  /\ {Interval, Window} \subseteq Nat \ {0}
  /\ {Spacing, GapCap, OpenFrom, OpenTo, OpenGap, OpenMin, OpenWords, OpenSlack, SlackPlan, MaxLead,
      MaxAnchor, SpeechMargin, ForcedSpacing, Context, MinPrefix, MinSuffix, MinDetail,
      EstPer, EstMin, EstCap, OpeningCap} \subseteq Nat

\* P is a project
IsProject(P) ==
  /\ P.eps \in Nat \ {0} /\ P.length \in [1..P.eps -> Nat]
  /\ P.lines \in Seq(Range(P.lines))
  /\ \A l \in Range(P.lines) : /\ l.ep \in 1..P.eps /\ l.from \in Int /\ l.to \in Int
                              /\ l.spoken \in BOOLEAN /\ l.n \in Nat /\ IsFiniteSet(l.toks)
  /\ IsFiniteSet(P.words)
  /\ \A w \in P.words : w.from \in Int /\ w.to \in Int /\ w.spoken \in BOOLEAN
  /\ P.frags \in Seq(Range(P.frags))
  /\ \A f \in Range(P.frags) : f.narrative \in BOOLEAN /\ IsFiniteSet(f.toks)
  /\ P.home \in Seq(Seq(1..P.eps))

\* m is an answer of the scene alignment
IsMatch(P, m) ==
  /\ m.anchor \in DOMAIN P.lines /\ m.side \in {"before", "after"} /\ m.est \in Int
  /\ m.purpose \in STRING /\ {m.pause, m.dense, m.sure, m.believed} \subseteq BOOLEAN

Insert == "insert_at_aligned_scene_boundary"
Overlays == {"overlay_speech_free", "overlay_intro_music", "overlay_opening_gap"}
Abs(n) == IF n < 0 THEN -n ELSE n

AsItem(i) == [from |-> i.from, to |-> i.to, spoken |-> i.spoken]
Items(P, e) == {AsItem(l) : l \in {l \in Range(P.lines) : l.ep = e}}
                 \cup {AsItem(w) : w \in {w \in P.words : w.ep = e}}
Speech(P, e) == MergedSpeech(Items(P, e))
GapsOf(P, cuts, e) == RetainedGaps(Items(P, e), P.length[e], cuts[e])

\* the lines of an episode outside the cuts, in order
KeptLines(P, cuts, e) ==
  Sorted({k \in DOMAIN P.lines : P.lines[k].ep = e /\ Outside(P.lines[k], cuts[e])}, <)

\* _split_evenly: the parts of 1..n for count groups
SplitEvenly(n, count) ==
  LET c == Clamp(count, 1, n)
      Edge(i) == RoundDiv(i * n, c)
  IN IF n = 0 THEN << >> ELSE [k \in 1..c |-> (Edge(k - 1) + 1)..Edge(k)]

\* source_fragment_groups_for_episodes: which of eps tells which passage (an assignment)
Assignment(P, cuts, frags, eps) ==
  LET n == Len(frags)
      groups == SplitEvenly(n, Len(eps))
      balanced == [f \in 1..n |-> CHOOSE k \in DOMAIN groups : f \in groups[k]]
      Corpus(k) == UNION {P.lines[l].toks : l \in Range(KeptLines(P, cuts, eps[k]))}
      own == [k \in DOMAIN eps |->
                Corpus(k) \ UNION {Corpus(o) : o \in DOMAIN eps \ {k}}]
      Score(f, k) == Cardinality(P.frags[frags[f]].toks \cap own[k])
      first == [k \in DOMAIN eps |-> [score |-> Score(1, k), near |-> -Abs(k - balanced[1]), path |-> <<k>>]]
      Beats(a, b) == a.score > b.score \/ (a.score = b.score /\ a.near > b.near)
      BestUpTo(states, k) ==
        LET i == CHOOSE i \in 1..k : \A j \in 1..k :
                   \/ Beats(states[i], states[j])
                   \/ ~ Beats(states[j], states[i]) /\ i <= j
        IN states[i]
      Extend(states, f) ==
        [k \in DOMAIN eps |-> LET b == BestUpTo(states, k) IN
           [score |-> b.score + Score(f, k), near |-> b.near - Abs(k - balanced[f]),
            path  |-> Append(b.path, k)]]
      last == FoldLeft(Extend, first, [f \in 1..(n - 1) |-> f + 1])
      best == BestUpTo(last, Len(eps))
      baseline == Total([f \in 1..n |-> Score(f, balanced[f])], 1..n)
      needed == Max({MinDetail, (baseline * 15 + 99) \div 100})
  IN IF \/ Len(eps) < 2 \/ n = 0
        \/ \E k \in DOMAIN eps : Corpus(k) = {}
        \/ best.score - baseline < needed
     THEN balanced ELSE best.path

\* the opening block: the lines before which the opening narration is told
OpeningBlock(P, kept) ==
  LET early == Only(kept, {j \in DOMAIN kept : OpenFrom <= P.lines[kept[j]].from
                                              /\ P.lines[kept[j]].from <= OpenTo})
      Joined(j) == \A i \in 2..j : P.lines[early[i]].from - P.lines[early[i - 1]].to <= OpenGap
      size == Max({j \in DOMAIN early : Joined(j)})
      block == SubSeq(early, 1, size)
      words == Total([i \in 1..size |-> P.lines[block[i]].n], 1..size)
  IN IF \/ early = << >> \/ size < 2 \/ words < OpenWords
        \/ P.lines[block[size]].to - P.lines[block[1]].from < OpenMin
     THEN << >> ELSE block

\* the pause of the opening narration: [k, at, gap], k = 0 when there is none
OpeningGap(gaps, est) ==
  LET Usable(g) == Min({g[2], OpenTo}) - g[1]
      fit == {k \in DOMAIN gaps : gaps[k][1] < OpenTo /\ Usable(gaps[k]) >= est + OpenSlack}
      k == Min(fit)
  IN IF fit = {} THEN [k |-> 0, at |-> 0, gap |-> << >>]
     ELSE [k |-> k, at |-> gaps[k][1] + Usable(gaps[k]) \div 2,
           gap |-> <<gaps[k][1], Min({gaps[k][2], OpenTo})>>]

\* what an episode's narrations have taken: pauses, insertion points, forced insertions
Free == [gaps |-> {}, at |-> {}, forced |-> {}]
Middle(g) == HalfEven(g[1] + g[2])

\* select_safe_narration_gap: the number of the pause taken, 0 when none fits
SelectGap(gaps, taken, edge, target, minimum, side, limit) ==
  LET Distance(g) == IF side = "before" THEN edge - g[2] ELSE g[1] - edge
      fit == {k \in DOMAIN gaps :
                /\ k \notin taken.gaps
                /\ gaps[k][2] - gaps[k][1] >= minimum
                /\ \A a \in taken.at : Abs(Middle(gaps[k]) - a) >= Spacing
                /\ Distance(gaps[k]) >= 0 /\ Distance(gaps[k]) <= limit}
      Rank(k) == 65 * Abs(Middle(gaps[k]) - target) + 35 * Abs(Middle(gaps[k]) - edge)
      Room(k) == Min({gaps[k][2] - gaps[k][1], GapCap})
      Above(a, b) == \/ Rank(a) < Rank(b)
                     \/ Rank(a) = Rank(b) /\ (Room(a) > Room(b) \/ (Room(a) = Room(b) /\ a <= b))
  IN IF fit = {} THEN 0 ELSE CHOOSE k \in fit : \A o \in fit : Above(k, o)


Take(taken, gaps, k) ==
  IF k = 0 THEN taken ELSE [taken EXCEPT !.gaps = @ \cup {k}, !.at = @ \cup {Middle(gaps[k])}]

\* the edge of its line a cue belongs to
Boundary(P, c) == IF c.side = "before" THEN P.lines[c.anchor].from ELSE P.lines[c.anchor].to

AlignInsert(P, c) ==
  [c EXCEPT !.at = Boundary(P, c), !.bound = Boundary(P, c), !.policy = Insert, !.gap = << >>]

EstOf(P, S) ==
  Clamp(EstPer * Cardinality({f \in S : P.frags[f].narrative}), EstMin, EstCap)

\* the passages each episode tells, in the order of the book
Told(P, cuts) ==
  LET In(c) == Sorted({f \in DOMAIN P.frags : P.frags[f].chapter = c}, <)
      Share(c, e) ==
        LET fs == In(c)
            path == Assignment(P, cuts, fs, P.home[c])
            mine == {k \in DOMAIN fs : P.home[c][path[k]] = e}
        IN IF fs = << >> THEN << >> ELSE Only(fs, mine)
  IN [e \in 1..P.eps |-> FlattenSeq([c \in DOMAIN P.home |-> Share(c, e)])]

\* the opening narration, when the episode begins with a block and a pause has room for it:
\* its cue, the lines and passages it takes, where it ends and what it occupies
NoOpening == [cues |-> << >>, lines |-> {}, told |-> 0, end |-> 0, taken |-> Free]
Opening(P, e, told, kept, gaps) ==
  LET narrated == Sorted({k \in DOMAIN told : P.frags[told[k]].narrative}, <)
      chosen == IF narrated = << >> THEN <<1>> ELSE SubSeq(narrated, 1, Min({3, Len(narrated)}))
      opened == {told[k] : k \in Range(chosen)}
      est == Min({EstOf(P, opened), OpeningCap})
      Cue(block, pause) ==
        [id |-> Min(opened), frags |-> opened, ep |-> e, anchor |-> block[1], start |-> 0,
         at |-> pause.at, bound |-> 0, gap |-> pause.gap, policy |-> "overlay_opening_gap",
         side |-> "none", purpose |-> "none", pause |-> FALSE, est |-> est, sure |-> TRUE]
      Opened(block, pause) ==
        IF block = << >> \/ pause.k = 0 THEN NoOpening
        ELSE [cues  |-> <<Cue(block, pause)>>, lines |-> Range(block), told |-> Last(chosen),
              end   |-> P.lines[Last(block)].to,
              taken |-> [Free EXCEPT !.gaps = {pause.k}, !.at = {pause.at}]]
  IN Opened(IF e = 1 THEN OpeningBlock(P, kept) ELSE << >>, OpeningGap(gaps, est))

\* the line of the pool that tells most of toks and lies nearest to the target, and whether
\* it tells any of it
BestLine(P, toks, target, pool) ==
  LET Common(k) == Cardinality(toks \cap P.lines[k].toks)
      Far(k) == Abs(P.lines[k].from - target)
      Rank(k) == (4200 * Common(k)) \div Max({1, Cardinality(P.lines[k].toks)})
                   + (1800 * (Window - Min({Window, Far(k)}))) \div Window
      Above(a, b) == \/ Rank(a) > Rank(b)
                     \/ Rank(a) = Rank(b) /\ (Far(a) < Far(b) \/ (Far(a) = Far(b) /\ a <= b))
      Best(S) == CHOOSE k \in S : \A o \in S : Above(k, o)
      Chosen(related) == [k |-> Best(IF related # {} THEN related ELSE pool), sure |-> related # {}]
  IN Chosen({k \in pool : Common(k) > 0})

\* the lines the next cue may be told at
Pool(P, regular, final, acc, target) ==
  LET later == {k \in Range(regular) : P.lines[k].from > acc.last /\ k \notin acc.used /\ k # Last(regular)}
      close == {k \in later : Abs(P.lines[k].from - target) <= Window}
  IN CASE final /\ regular # << >> -> {Last(regular)}
       [] ~ final /\ close # {} -> close
       [] ~ final /\ close = {} -> later
       [] OTHER -> {}

\* the passages told become a cue at that line, in a pause after it when there is one
Tell(P, e, gaps, told, target, acc, line) ==
  LET l == P.lines[line.k]
      cue == [id |-> Min(told), frags |-> told, ep |-> e, anchor |-> line.k, start |-> l.from,
              at |-> 0, bound |-> l.to, gap |-> << >>, policy |-> "after_aligned_speech_gap",
              side |-> "none", purpose |-> "none", pause |-> FALSE, est |-> EstOf(P, told),
              sure |-> line.sure]
      Put(p) ==
        [cues  |-> Append(acc.cues, IF p = 0 THEN AlignInsert(P, cue)
                                    ELSE [cue EXCEPT !.at = Middle(gaps[p]), !.gap = gaps[p]]),
         used  |-> acc.used \cup {line.k},
         taken |-> Take(acc.taken, gaps, p),
         last  |-> l.from]
  IN Put(SelectGap(gaps, acc.taken, l.to, target, 0, "after", P.length[e]))

\* the passages of a group are told near their share of the episode; w is what the cues are
\* written from: the episode, its pauses, the lines after the opening, the passages left, their
\* groups and where the narration begins
TellGroup(P, w, acc, g) ==
  LET told == {w.rest[k] : k \in w.groups[g]}
      target == w.begin + RoundDiv(g * (P.length[w.ep] - w.begin), Len(w.groups) + 1)
      pool == Pool(P, w.regular, w.ep = P.eps /\ g = Len(w.groups), acc, target)
  IN IF (\A f \in told : ~ P.frags[f].narrative) \/ pool = {} THEN acc
     ELSE Tell(P, w.ep, w.gaps, told, target, acc,
               BestLine(P, UNION {P.frags[f].toks : f \in told}, target, pool))
TellAll(P, w, zero) ==
  FoldLeft(LAMBDA acc, g : TellGroup(P, w, acc, g), zero, [g \in DOMAIN w.groups |-> g])

\* the raw cues of episode e, which tells the passages told
RawCues(P, cuts, e, told) ==
  LET number == Min({Len(told), Max({3, (P.length[e] + Interval - 1) \div Interval})})
      Write(gaps, kept, open, rest) ==
        TellAll(P, [ep |-> e, gaps |-> gaps, rest |-> rest,
                    regular |-> Only(kept, {j \in DOMAIN kept : /\ kept[j] \notin open.lines
                                                                /\ P.lines[kept[j]].from > open.end}),
                    groups |-> SplitEvenly(Len(rest), number - Len(open.cues)),
                    begin |-> IF open.end > 0 THEN open.end ELSE Min({P.lines[k].from : k \in Range(kept)})],
                [cues |-> open.cues, used |-> {}, taken |-> open.taken, last |-> open.end]).cues
      After(gaps, kept, open) == Write(gaps, kept, open, SubSeq(told, open.told + 1, Len(told)))
      Begin(gaps, kept) ==
        IF told = << >> \/ kept = << >> THEN << >>
        ELSE After(gaps, kept, Opening(P, e, told, kept, gaps))
  IN Begin(GapsOf(P, cuts, e), KeptLines(P, cuts, e))

\* by episode and insertion point; equal ones keep their order
ByPlace(cues) ==
  LET Before(i, j) == \/ cues[i].ep < cues[j].ep
                      \/ cues[i].ep = cues[j].ep
                           /\ (cues[i].at < cues[j].at \/ (cues[i].at = cues[j].at /\ i < j))
      order == Sorted(DOMAIN cues, Before)
  IN [k \in DOMAIN cues |-> cues[order[k]]]

\* generate_narration_cues
Generate(P, cuts) ==
  LET told == Told(P, cuts)
  IN ByPlace(FlattenSeq([e \in 1..P.eps |-> RawCues(P, cuts, e, told[e])]))

\* one answer of the scene alignment applied: a match is
\* [cue, anchor, side, est, purpose, pause, dense, sure, believed], cue the number of a raw cue
Align(P, cuts, raw, m, acc) ==
  LET old == raw[m.cue]
      cue == [old EXCEPT !.est = m.est, !.purpose = m.purpose, !.pause = m.pause, !.sure = m.sure]
      line == P.lines[m.anchor]
      taken == acc.taken[line.ep]
      placed == [cue EXCEPT !.ep = line.ep, !.anchor = m.anchor, !.start = line.from, !.side = m.side,
                            !.policy = "overlay_speech_free"]
      edge == Boundary(P, placed)
      place == <<line.ep, line.from>>
      Apart(x) == \A f \in taken.forced : Abs(x - f) >= ForcedSpacing
      Quiet(gaps) == IF m.pause THEN 0
                     ELSE SelectGap(gaps, taken, edge, edge, m.est + SlackPlan, m.side,
                                    IF m.side = "before" THEN MaxLead ELSE MaxAnchor)
      Forcing(quiet) == /\ quiet = 0 /\ ~ m.pause /\ m.dense /\ m.side = "after"
                        /\ m.purpose \notin {"character_introduction", "book_boundary"}
                        /\ Apart(line.from)
      Margin(g) == Min({g[1] + SpeechMargin, Max({g[1] + 1, g[2] - 1})})
      Add(result, used) == [cues |-> Append(acc.cues, result), last |-> place,
                            taken |-> [acc.taken EXCEPT ![line.ep] = used]]
      Choose(gaps, quiet, room) ==
        CASE quiet > 0 ->
               Add([placed EXCEPT !.at = Middle(gaps[quiet]), !.gap = gaps[quiet], !.bound = edge],
                   Take(taken, gaps, quiet))
          [] quiet = 0 /\ room > 0 /\ Apart(Middle(gaps[room])) ->
               Add([placed EXCEPT !.at = Margin(gaps[room]), !.gap = gaps[room], !.bound = edge,
                                  !.policy = "insert_for_dense_action"],
                   [Take(taken, gaps, room) EXCEPT !.forced = @ \cup {Margin(gaps[room])}])
          [] OTHER -> Add(AlignInsert(P, placed), Take(taken, gaps, room))
      Force(gaps, quiet) ==
        Choose(gaps, quiet,
               IF Forcing(quiet) THEN SelectGap(gaps, taken, edge, edge, 0, "after", MaxAnchor) ELSE 0)
      Look(gaps) == Force(gaps, Quiet(gaps))
  IN IF old.policy \in Overlays
     THEN [acc EXCEPT !.cues = Append(@, [cue EXCEPT !.side = m.side]),
                      !.taken[old.ep].at = @ \cup {old.at}]
     ELSE IF ~ m.believed \/ ~ Outside(line, cuts[line.ep]) \/ Earlier(place, acc.last) THEN acc
     ELSE Look(GapsOf(P, cuts, line.ep))

\* apply_researched_scene_alignment: only raw cues are answered, answered introductions must
\* survive and every proposed episode too
Apply(P, cuts, raw, answer) ==
  LET zero == [cues |-> << >>, last |-> <<0, 0>>, taken |-> [e \in 1..P.eps |-> Free]]
      cues == FoldLeft(LAMBDA acc, m : Align(P, cuts, raw, m, acc), zero, answer).cues
      proposed == {raw[k].ep : k \in DOMAIN raw}
      told == {c.id : c \in Range(cues)}
      lost == {m \in Range(answer) : m.purpose = "character_introduction" /\ raw[m.cue].id \notin told}
  IN [ok   |-> /\ \A m \in Range(answer) : m.cue \in DOMAIN raw
               /\ lost = {}
               /\ Len(cues) >= Min({Len(raw), Max({3, 2 * Cardinality(proposed)})})
               /\ \A e \in proposed : \E c \in Range(cues) : c.ep = e,
      cues |-> ByPlace(cues)]

\* the passages that count as edges of the book
Edges(P) == {f \in DOMAIN P.frags : P.frags[f].narrative}

\* book_boundary_plan: [ok, cuts], the cuts before the first and after the last told passage
BookBoundary(P, intro, cues) ==
  LET Tells(f, e) == {k \in DOMAIN cues : f \in cues[k].frags /\ cues[k].ep = e}
      head == Tells(Min(Edges(P)), 1)
      tail == Tells(Max(Edges(P)), P.eps)
      first == Min({cues[k].start : k \in head})
      introEnd == Max({iv[2] : iv \in intro} \cup {0})
      last == CHOOSE k \in tail : \A o \in tail :
                \/ cues[k].start > cues[o].start \/ (cues[k].start = cues[o].start /\ k <= o)
      end == P.lines[cues[last].anchor].to
      prefix == <<introEnd, Max({introEnd, first - Context})>>
      suffix == <<Min({P.length[P.eps], end + Context}), P.length[P.eps]>>
  IN [ok   |-> head # {} /\ tail # {},
      head |-> IF head # {} /\ first - introEnd >= MinPrefix /\ prefix[2] > prefix[1] THEN {prefix} ELSE {},
      tail |-> IF tail # {} /\ P.length[P.eps] - end >= MinSuffix /\ suffix[2] > suffix[1] THEN {suffix} ELSE {}]
=============================================================================
