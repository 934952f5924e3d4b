----------------------------- MODULE HsIntervals -----------------------------
(***************************************************************************)
(* The interval arithmetic of the audio drama: which parts of an episode   *)
(* survive the cuts, where somebody speaks, where a narration may go.      *)
(*                                                                         *)
(* An episode is the points 0 .. its length - 1; milliseconds and samples  *)
(* are one unit. An interval <<a, b>> is half open. A spoken item (a line  *)
(* of the transcript or a recognised word) is a record [from, to, spoken]; *)
(* spoken is FALSE for a line that is only a stage direction.              *)
(***************************************************************************)
EXTENDS Integers, Sequences, FiniteSets, FiniteSetsExt, SequencesExt

CONSTANTS
  GapMargin,   \* silence kept around speech when pauses are looked for (300 ms)
  MinGap,      \* shortest pause that counts (900 ms)
  SnapMargin,  \* distance from an utterance a cut is moved to (120 ms)
  MaxShift     \* longest way a cut is moved (4 s)

ASSUME IntervalBounds == {GapMargin, MinGap, SnapMargin, MaxShift} \subseteq Nat

Clamp(x, lo, hi) == Max({lo, Min({x, hi})})
Within(x, iv) == iv[1] <= x /\ x < iv[2]
Meets(a, b) == a[1] < b[2] /\ a[2] > b[1]
Earlier(a, b) == a[1] < b[1] \/ (a[1] = b[1] /\ a[2] < b[2])
\* the elements of S in the order Before
Sorted(S, Before(_, _)) ==
  [k \in 1..Cardinality(S) |-> CHOOSE x \in S : Cardinality({y \in S : Before(y, x)}) = k - 1]
InOrder(S) == Sorted(S, Earlier)
\* the elements of s whose numbers are in T
Only(s, T) == LET order == Sorted(T, <) IN [k \in 1..Cardinality(T) |-> s[order[k]]]
\* the sum of what f gives for the elements of S
Total(f, S) == MapThenSumSet(LAMBDA x : f[x], S)
\* the stretches long enough to count as a pause
Pauses(gaps) == Only(gaps, {k \in DOMAIN gaps : gaps[k][2] - gaps[k][1] >= MinGap})

\* round(a / b): a tie goes to the even neighbour
RoundDiv(a, b) == LET q == a \div b
                      r == 2 * (a % b)
                  IN IF r > b \/ (r = b /\ q % 2 = 1) THEN q + 1 ELSE q
HalfEven(n) == RoundDiv(n, 2)

\* the source is kept up to an interval, which is skipped
Skip(acc, iv, limit) ==
  LET s == Clamp(iv[1], acc.cursor, limit)
      e == Clamp(iv[2], s, limit)
  IN [cursor |-> Max({acc.cursor, e}),
      kept   |-> IF s > acc.cursor THEN Append(acc.kept, <<acc.cursor, s>>) ELSE acc.kept]

\* what is left of [start, end) when the intervals of excl are taken out
SourceRanges(start, end, excl) ==
  LET first == Max({0, start})
      limit == Max({first, end})
      cut == FoldLeft(LAMBDA acc, iv : Skip(acc, iv, limit), [cursor |-> first, kept |-> << >>], InOrder(excl))
  IN IF cut.cursor < limit THEN Append(cut.kept, <<cut.cursor, limit>>) ELSE cut.kept


\* an item belongs to the episode proper when its middle is in no exclusion
Outside(item, excl) ==
  \A iv \in excl : ~ (2 * iv[1] <= item.from + item.to /\ item.from + item.to < 2 * iv[2])

\* an interval is joined to the last one when it overlaps or touches that
Join(acc, iv) ==
  IF acc # << >> /\ iv[1] <= Last(acc)[2]
  THEN [acc EXCEPT ![Len(acc)] = <<@[1], Max({@[2], iv[2]})>>]
  ELSE Append(acc, iv)

\* overlapping and touching intervals joined, in order
Merged(S) == FoldLeft(Join, << >>, InOrder(S))

\* every item, stage directions too: what a cut must not run into
MergedSpeech(items) == Merged({<<i.from, i.to>> : i \in {i \in items : i.to > i.from}})

\* the pauses of an episode of the given length
SpeechFreeGaps(items, length) ==
  LET spoken == {i \in items : i.spoken /\ i.to > i.from}
      busy == Merged({<<Max({0, i.from - GapMargin}), Min({length, i.to + GapMargin})>> : i \in spoken})
      ends == <<0>> \o [k \in DOMAIN busy |-> busy[k][2]]
      gaps == [k \in 1..(Len(busy) + 1) |->
                 <<Max({ends[j] : j \in 1..k}), IF k > Len(busy) THEN length ELSE busy[k][1]>>]
  IN Pauses(gaps)

\* the pauses that survive the exclusions
RetainedGaps(items, length, excl) ==
  LET gaps == SpeechFreeGaps({i \in items : Outside(i, excl)}, length)
  IN Pauses(FlattenSeq([k \in DOMAIN gaps |-> SourceRanges(gaps[k][1], gaps[k][2], excl)]))

\* a cut moved out of a running utterance to its nearer edge
SafeInsert(at, speech) ==
  LET hit == {k \in DOMAIN speech : Within(at, speech[k])}
      k == CHOOSE k \in hit : TRUE
      before == at - speech[k][1]
      after == speech[k][2] - at
      early == speech[k][1] - SnapMargin
      late == speech[k][2] + SnapMargin
      Ahead == IF k > 1 /\ early <= speech[k - 1][2]
               THEN (speech[k - 1][2] + speech[k][1]) \div 2 ELSE early
      Behind == IF k < Len(speech) /\ late >= speech[k + 1][1]
                THEN (speech[k][2] + speech[k + 1][1]) \div 2 ELSE late
  IN CASE hit = {} -> at
       [] hit # {} /\ Min({before, after}) > MaxShift -> at
       [] OTHER -> Max({0, IF before <= after THEN Ahead ELSE Behind})

=============================================================================
