------------------------------ MODULE HsDetect ------------------------------
(***************************************************************************)
(* Finding what the episodes of a series have in common: the title         *)
(* sequence, the closing block and the commercial bumper, by comparing     *)
(* audio fingerprints. What is found is cut out of the audio drama.        *)
(*                                                                         *)
(* fps maps an episode (1 .. the number of episodes, in the order of their *)
(* identifiers) to [frames, at, length]: the values of the searched        *)
(* window, where the window begins and how long the episode is. One frame  *)
(* is one unit of time in every episode. Two values are compared by        *)
(* Near (few differing bits) and by the number of equal bytes.             *)
(***************************************************************************)
EXTENDS HsIntervals, Functions

CONSTANTS
  Near(_, _),      \* at most INTRO_MAX_FINGERPRINT_BIT_DISTANCE differing bits
  SameBands(_, _), \* how many of the four bytes are equal
  MaxOffsets,      \* offsets looked at per pair (32)
  MatchGap,        \* frames a match may skip (6)
  SpanGap,         \* frames the consensus may skip (2)
  Pad,             \* frames searched around the median match (12)
  Radius,          \* smoothing radius (4)
  MinIntro, MinEnding, MinBumper,   \* shortest findings
  ClusterRadius    \* distance of bumper matches that belong together (30 s)

ASSUME DetectionBounds == /\ {MinIntro, MinEnding, MinBumper} \subseteq Nat \ {0}
                          /\ {MaxOffsets, MatchGap, SpanGap, Pad, Radius, ClusterRadius} \subseteq Nat

\* fps are fingerprints
IsPrints(fps) ==
  /\ IsFiniteSet(DOMAIN fps) /\ DOMAIN fps \subseteq Nat
  /\ \A e \in DOMAIN fps :
       fps[e].frames \in Seq(Range(fps[e].frames)) /\ fps[e].at \in Int /\ fps[e].length \in Int
  /\ \A a, b \in DOMAIN fps : \A x \in Range(fps[a].frames), y \in Range(fps[b].frames) :
       SameBands(x, y) \in Nat

\* twice the median of the values of f
Median2(f) ==
  LET n == Cardinality(DOMAIN f)
      Kth(k) == Min({v \in Range(f) : Cardinality({x \in DOMAIN f : f[x] <= v}) >= k})
  IN Kth((n + 1) \div 2) + Kth(n \div 2 + 1)

\* the longest stretch of good frames with holes of less than gap, the first of equals
LongestRun(good, gap) ==
  LET Opens(a) == a \in good /\ \A x \in good : x < a => a - x > gap
      Closes(b) == b \in good /\ \A x \in good : x > b => x - b > gap
      runs == {r \in good \X good : /\ r[1] <= r[2] /\ Opens(r[1]) /\ Closes(r[2])
                                    /\ ~ \E c \in good : r[1] <= c /\ c < r[2] /\ Closes(c)}
      Best(S) == CHOOSE r \in S : \A o \in S :
                   \/ r[2] - r[1] > o[2] - o[1]
                   \/ r[2] - r[1] = o[2] - o[1] /\ r[1] <= o[1]
      Run(r) == [from |-> r[1], to |-> r[2] + 1,
                 matched |-> Cardinality({x \in good : r[1] <= x /\ x <= r[2]})]
  IN IF good = {} THEN [from |-> 0, to |-> 0, matched |-> 0] ELSE Run(Best(runs))


NoMatch == [from |-> 0, to |-> 0, matched |-> 0, offset |-> 0, hits |-> 0]

\* what the equal bytes of two fingerprints say about how they are shifted
Votes(left, right) ==
  LET pairs == {p \in (DOMAIN left) \X (DOMAIN right) : SameBands(left[p[1]], right[p[2]]) > 0}
      bands == [p \in pairs |-> SameBands(left[p[1]], right[p[2]])]
      At(o) == {p \in pairs : p[2] - p[1] = o}
  IN {[offset |-> o, seen |-> Min({p[1] : p \in At(o)}), hits |-> Total(bands, At(o))] :
        o \in {p[2] - p[1] : p \in pairs}}

\* the shift most bytes speak for comes first, of equals the one seen first
Likelier(a, b) == \/ a.hits > b.hits
                  \/ a.hits = b.hits /\ (a.seen < b.seen \/ (a.seen = b.seen /\ a.offset < b.offset))

\* the longest stretch two fingerprints share at one shift
Span(left, right, v) ==
  LET start == Max({0, -v.offset})
      overlap == Min({Len(left) - start, Len(right) - start - v.offset})
      good == {f \in 0..(overlap - 1) : Near(left[start + f + 1], right[start + v.offset + f + 1])}
      Found(run) == [from |-> start + run.from, to |-> start + run.to, matched |-> run.matched,
                     offset |-> v.offset, hits |-> v.hits]
  IN Found(LongestRun(good, MatchGap))

\* the better of two matches, the one before of equals
Better(best, m) ==
  IF m.to > m.from /\ (m.matched > best.matched \/ (m.matched = best.matched /\ m.hits > best.hits))
  THEN m ELSE best

\* the stretch two fingerprints share best; [from, to) counts frames of the left one
BestMatch(left, right) ==
  LET First(common) == SubSeq(common, 1, Min({MaxOffsets, Len(common)}))
  IN FoldLeft(LAMBDA best, v : Better(best, Span(left, right, v)), NoMatch,
              First(Sorted(Votes(left, right), Likelier)))

Good82(m) == m.to > m.from /\ m.matched * 100 >= 82 * (m.to - m.from)

\* the matches of all pairs, each computed once and seen from both of its episodes
Matches(fps) ==
  LET Seen(a, b, m) ==
        {[ep |-> a, other |-> b, from |-> m.from, to |-> m.to, offset |-> m.offset, matched |-> m.matched],
         [ep |-> b, other |-> a, from |-> m.from + m.offset, to |-> m.to + m.offset,
          offset |-> -m.offset, matched |-> m.matched]}
  IN UNION {Seen(p[1], p[2], BestMatch(fps[p[1]].frames, fps[p[2]].frames)) :
              p \in {p \in (DOMAIN fps) \X (DOMAIN fps) : p[1] < p[2]}}

\* at least three episodes and six in ten
Required(n) == Max({3, (n * 6 + 9) \div 10})

\* Mutant of Agreement: one episode that agrees with the reference is enough
AgreementOfSome(fps, offsets, frame) ==
  LET inside == {e \in DOMAIN offsets : frame + offsets[e] \in 0..(Len(fps[e].frames) - 1)}
      Value(e) == fps[e].frames[frame + offsets[e] + 1]
  IN IF \E p \in inside \X inside : p[1] < p[2] /\ Near(Value(p[1]), Value(p[2])) THEN 60 ELSE 0

\* agreement of the episodes at one frame of the reference, in sixtieths
Agreement(fps, offsets, frame) ==
  LET inside == {e \in DOMAIN offsets : frame + offsets[e] \in 0..(Len(fps[e].frames) - 1)}
      Value(e) == fps[e].frames[frame + offsets[e] + 1]
      pairs == {p \in inside \X inside : p[1] < p[2]}
      near == {p \in pairs : Near(Value(p[1]), Value(p[2]))}
  IN IF pairs = {} THEN 0 ELSE (60 * Cardinality(near)) \div Cardinality(pairs)


Nothing == [occ |-> << >>, weight |-> 0, pairs |-> 0]

\* the frames of [start, end) about which the episodes agree, smoothed
Steady(agree, start, end) ==
  LET Nearby(f) == Max({start, f - Radius})..Min({end - 1, f + Radius})
  IN {f \in start..(end - 1) :
        10 * Total(agree, Nearby(f)) >= 8 * 60 * Cardinality(Nearby(f))}

\* the stretch of the reference its matches agree on: offsets of the episodes that have one
Stretch(fps, offsets, start, end, min) ==
  LET Occurrence(e, from, to) ==
        [ep |-> e, from |-> from, to |-> Max({from, Min({Len(fps[e].frames), to + offsets[e]})})]
      At(e, from, to) == Occurrence(e, Clamp(from + offsets[e], 0, Len(fps[e].frames)), to)
      Found(agree, eps, from, to) ==
        IF to - from < min THEN Nothing
        ELSE [occ    |-> [k \in DOMAIN eps |-> At(eps[k], from, to)],
              weight |-> Total(agree, from..(to - 1)),
              pairs  |-> Len(eps) - 1]
      Longest(agree, run) == Found(agree, Sorted(DOMAIN offsets, <), start + run.from, start + run.to)
      Judge(agree) ==
        Longest(agree, LongestRun({f - start : f \in Steady(agree, start, end)}, SpanGap))
  IN Judge([f \in start..(end - 1) |-> Agreement(fps, offsets, f)])

\* the candidate of one reference episode
Consensus(fps, matches, ref, min) ==
  LET own == {m \in matches : m.ep = ref /\ m.to - m.from >= min /\ Good82(m)}
      others == {m.other : m \in own}
      offsets == [e \in others \cup {ref} |->
                    IF e = ref THEN 0 ELSE (CHOOSE m \in own : m.other = e).offset]
      start == Max({0, HalfEven(Median2([m \in own |-> m.from])) - Pad})
      end == Min({Len(fps[ref].frames), HalfEven(Median2([m \in own |-> m.to])) + Pad})
  IN IF Cardinality(others) + 1 < Required(Cardinality(DOMAIN fps)) THEN Nothing
     ELSE Stretch(fps, offsets, start, end, min)

Undetected(status) == [status |-> status, occ |-> << >>]

\* the greater of two ranks of three numbers
Above(a, b) == \E i \in 1..3 : a[i] > b[i] /\ \A j \in 1..(i - 1) : a[j] = b[j]

\* detect_repeated_intro_fingerprints: the candidate with most episodes, then the weightiest
DetectRepeated(fps, min) ==
  LET eps == DOMAIN fps
      Key(c) == <<Len(c.occ), c.weight, c.pairs>>
      Best(found, candidates) == CHOOSE e \in candidates : \A o \in candidates :
                 Above(Key(found[e]), Key(found[o])) \/ (Key(found[e]) = Key(found[o]) /\ e <= o)
      Judge(found) ==
        LET candidates == {e \in eps : found[e].occ # << >>} IN
        IF candidates = {} THEN Undetected("not_detected")
        ELSE [status |-> "detected", occ |-> found[Best(found, candidates)].occ]
      Search(matches) == Judge([e \in eps |-> Consensus(fps, matches, e, min)])
  IN IF Cardinality(eps) < 3 THEN Undetected("not_applicable") ELSE Search(Matches(fps))

\* the closing theme, and everything after it
DetectEnding(fps) ==
  LET Block(o) == LET f == fps[o.ep] IN
                  [o EXCEPT !.from = Min({f.length, f.at + o.from}), !.to = f.length]
  IN [DetectRepeated(fps, MinEnding) EXCEPT !.occ = [k \in DOMAIN @ |-> Block(@[k])]]

Centre(i) == i.from + i.to
Leftmost(a, b) == Centre(a) < Centre(b) \/ (Centre(a) = Centre(b) /\ a.other < b.other)

\* a match joins the first cluster it lies near to, or begins one
Gather(cs, i) ==
  LET Near2(c) == LET d == 2 * Centre(i) - Median2([j \in c |-> Centre(j)])
                  IN d <= 4 * ClusterRadius /\ -d <= 4 * ClusterRadius
      near == {k \in DOMAIN cs : Near2(cs[k])}
  IN IF near = {} THEN Append(cs, {i}) ELSE [cs EXCEPT ![Min(near)] = @ \cup {i}]

\* what clusters are ranked by
Weight(c) == <<Cardinality(c), Median2([i \in c |-> i.to - i.from]),
               Total([i \in c |-> (840 * i.matched) \div (i.to - i.from)], c)>>

\* the matches of one episode that lie about the same place: those of most partners
Cluster(found) ==
  LET Best(cs) == cs[CHOOSE k \in DOMAIN cs : \A o \in DOMAIN cs :
                 Above(Weight(cs[k]), Weight(cs[o])) \/ (Weight(cs[k]) = Weight(cs[o]) /\ k <= o)]
  IN IF found = {} THEN {} ELSE Best(FoldLeft(Gather, << >>, Sorted(found, Leftmost)))

\* how many speak for a cluster, and where it lies
Spot(c) == [partners |-> Cardinality(c), from |-> HalfEven(Median2([i \in c |-> i.from])),
            to |-> HalfEven(Median2([i \in c |-> i.to]))]

\* detect_repeated_commercial_bumper_fingerprints: every episode must have one
Bumpers(fps, spots) ==
  LET Listed(sure, order) ==
        [status |-> IF sure = DOMAIN fps THEN "detected" ELSE "not_detected",
         occ |-> [k \in DOMAIN order |-> [ep |-> order[k], from |-> fps[order[k]].at + spots[order[k]].from,
                                          to |-> fps[order[k]].at + spots[order[k]].to]]]
      Judge(sure) == Listed(sure, Sorted(sure, <))
  IN Judge({e \in DOMAIN spots : spots[e].partners >= 2 /\ spots[e].to - spots[e].from >= MinBumper})

DetectBumper(fps) ==
  LET eps == DOMAIN fps
      Found(matches, e) == {m \in matches : m.ep = e /\ m.to - m.from >= MinBumper /\ Good82(m)}
      Clustered(matches) == [e \in eps |-> Cluster(Found(matches, e))]
      Spots(clusters) == [e \in {e \in eps : clusters[e] # {}} |-> Spot(clusters[e])]
  IN IF Cardinality(eps) < 3 THEN Undetected("not_applicable")
     ELSE Bumpers(fps, Spots(Clustered(Matches(fps))))

\* detect_project_commercial_bumpers: the bumper gives way to the lines of the transcript
DetectSafeBumper(fps, lines) ==
  LET Talk(e) == {<<l.from, l.to>> : l \in {l \in Range(lines) : l.ep = e /\ l.to > l.from}}
      Longest(f) == f[CHOOSE k \in DOMAIN f : \A j \in DOMAIN f :
                        \/ f[k][2] - f[k][1] > f[j][2] - f[j][1]
                        \/ f[k][2] - f[k][1] = f[j][2] - f[j][1] /\ k <= j]
      Rest(o, free) == IF free = << >> THEN << >> ELSE <<[ep |-> o.ep, from |-> Longest(free)[1],
                                                          to |-> Longest(free)[2]]>>
      Safe(occ) == FlattenSeq([k \in DOMAIN occ |->
                                 Rest(occ[k], SourceRanges(occ[k].from, occ[k].to, Talk(occ[k].ep)))])
      Long(occ) == Only(occ, {k \in DOMAIN occ : occ[k].to - occ[k].from >= MinBumper})
      Judge(clear) == [status |-> IF Len(clear) = Cardinality(DOMAIN fps) THEN "detected" ELSE "not_detected",
                       occ |-> clear]
      Give(d) == IF d.status # "detected" \/ \A l \in Range(lines) : l.to <= l.from THEN d
                 ELSE Judge(Long(Safe(d.occ)))
  IN Give(DetectBumper(fps))


\* the cuts a finding makes in an episode: none unless it is sure
Cuts(d, e) == IF d.status # "detected" THEN {}
              ELSE {<<o.from, o.to>> : o \in {o \in Range(d.occ) : o.ep = e /\ o.to > o.from}}
=============================================================================
