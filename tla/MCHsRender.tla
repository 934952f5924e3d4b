------------------------------ MODULE MCHsRender ------------------------------
(* One episode with two transcripts, and a series of four short episodes     *)
(* with a title sequence, an ending and a bumper planted in them.            *)
EXTENDS HsRender, TLC

\* fingerprint values are equal in every bit or differ in most; 0 matches nothing
MCNear(a, b) == a = b /\ a # 0
MCSameBands(a, b) == IF a = b /\ a # 0 THEN 4 ELSE 0

Line(e, from, to, spoken) ==
  [ep |-> e, from |-> from, to |-> to, spoken |-> spoken, toks |-> {from}, n |-> to - from]
Passage(c) == [chapter |-> c, narrative |-> TRUE, toks |-> {}]
Sound(frames, at, length) == [frames |-> frames, at |-> at, length |-> length]
Silence(n) == [e \in 1..n |-> Sound(<< >>, 0, 0)]
Match(cue, anchor, side, purpose) ==
  [cue |-> cue, anchor |-> anchor, side |-> side, est |-> 2, purpose |-> purpose,
   pause |-> FALSE, dense |-> cue = 3, sure |-> TRUE, believed |-> TRUE]
Never == [Match(2, 2, "after", "scene") EXCEPT !.believed = FALSE]

\* one episode, three passages
Single(lines, words) ==
  [eps |-> 1, length |-> <<40>>, lines |-> lines, words |-> words,
   frags |-> <<Passage(1), Passage(1), Passage(1)>>, home |-> << <<1>> >>]
Alone(lines, words, clips, answers) ==
  {[project |-> Single(lines, words), clips |-> clips, answer |-> a, planted |-> << >>,
    prints |-> [intro |-> Silence(1), bumper |-> Silence(1), ending |-> Silence(1)]] : a \in answers}

Calm == <<Line(1, 4, 6, TRUE), Line(1, 12, 14, TRUE), Line(1, 20, 22, TRUE), Line(1, 30, 33, TRUE)>>
\* dense talk, an utterance too long to be left, and a stage direction in a pause
Dense == <<Line(1, 2, 4, TRUE), Line(1, 5, 9, TRUE), Line(1, 15, 16, FALSE), Line(1, 22, 31, TRUE),
           Line(1, 35, 37, TRUE)>>
Talk == {[ep |-> 1, from |-> 8, to |-> 11, spoken |-> TRUE]}
\* somebody talks through the middle of the long utterance's neighbours
Through == {[ep |-> 1, from |-> 20, to |-> 38, spoken |-> TRUE]}

Answers(places, last) ==
  {<<Match(1, a[1], s[1], "scene"), Match(2, a[2], s[2], "character_introduction"),
     Match(3, last, s[3], "scene")>> :
     a \in {a \in places \X places : a[1] <= a[2]}, s \in [1..3 -> {"before", "after"}]}
Plain == <<Match(1, 1, "before", "scene"), Match(2, 2, "before", "scene"), Match(3, 4, "after", "scene")>>

\* four episodes; the frames of the title sequence stand at a place or are missing
Theme == <<1, 2, 3, 4, 5>>
Titles(at, recap) ==
  [f \in 1..9 |-> IF at >= 0 /\ f > at /\ f <= at + 5 THEN Theme[f - at]
                  ELSE IF recap /\ f >= 7 THEN 10 + f ELSE 0]
SeriesLines ==
  FlattenSeq([e \in 1..4 |-> <<Line(e, 1, 3, TRUE), Line(e, 5, 7, TRUE), Line(e, 11, 13, TRUE), Line(e, 16, 18, TRUE)>>])
Show == [eps |-> 4, length |-> [e \in 1..4 |-> 24], lines |-> SeriesLines, words |-> {},
         frags |-> [f \in 1..8 |-> Passage((f + 1) \div 2)], home |-> [c \in 1..4 |-> <<c>>]]
Replies(anchors) ==
  [k \in DOMAIN anchors |-> [Match(k, anchors[k], "before", "scene") EXCEPT !.dense = FALSE]]
Blocks(at, size) == [e \in 1..4 |-> Sound(<<0>> \o [f \in 1..size |-> 20 + f] \o <<0>>, at, 24)]
Series(lines, at, anchors, bumper, ending) ==
  [project |-> [Show EXCEPT !.lines = lines], clips |-> {2}, answer |-> Replies(anchors), planted |-> at,
   prints |-> [intro |-> [e \in 1..4 |-> Sound(Titles(at[e], e < 3), 0, 24)],
               bumper |-> bumper, ending |-> ending]]
Early == <<1, 5, 10, 13, 15>>
Late == <<2, 6, 11, 14, 16>>
\* the last line runs into the ending and is dropped from the search for pauses
Into == [k \in DOMAIN SeriesLines |->
           IF SeriesLines[k].from = 16 THEN Line(SeriesLines[k].ep, 17, 22, TRUE) ELSE SeriesLines[k]]
Quiet == [k \in 1..5 |-> [Replies(<<3, 7, 11, 15, 15>>)[k] EXCEPT !.side = "after"]]
\* a bumper takes the end of a long pause
Wide == [k \in DOMAIN SeriesLines |->
           IF SeriesLines[k].from = 11 THEN Line(SeriesLines[k].ep, 13, 15, TRUE) ELSE SeriesLines[k]]
\* the lines of the second episode all lie where the titles are
Covered == [k \in DOMAIN SeriesLines |->
              IF SeriesLines[k].ep = 2 THEN Line(2, (k - 3) \div 2, (k - 1) \div 2, TRUE) ELSE SeriesLines[k]]

MCCases ==
  UNION {Alone(Calm, {}, {2, 6}, Answers({1, 2, 3}, 4)), Alone(Dense, Talk, {2, 6}, Answers({2, 3, 4}, 5)),
         Alone(Calm, Through, {2, 6}, Answers({2, 3}, 4)), Alone(Calm, {}, {9}, {Plain}),
         Alone(Calm, {}, {2}, {[Plain EXCEPT ![2] = Never]})}
  \cup {Series(SeriesLines, at, a, Blocks(7, 3), Blocks(17, 4)) : at \in [1..4 -> {-1, 0, 2}], a \in {Early, Late}}
  \cup {Series(SeriesLines, <<0, 2, 1, 0>>, a, Blocks(8, 3), Silence(4)) : a \in {Early, Late}}
  \cup {[Series(Into, <<0, 0, 0, 0>>, Early, Blocks(7, 3), Blocks(17, 4)) EXCEPT !.answer = Quiet, !.clips = {2, 4}]}
  \cup {Series(Wide, <<0, 0, 0, 0>>, <<2, 3, 6, 7, 10, 11, 14, 15>>, Blocks(10, 3), Silence(4))}
  \cup {Series(Covered, <<0, 0, 0, 0>>, Early, Silence(4), Silence(4))}

\* The titles of three episodes or more are cut, up to the smoothing at their edges, and
\* nothing else is: not what two episodes share, not an episode that has no titles
\* (detect_repeated_intro_fingerprints).
OnlyTitlesAreCut ==
  case.planted # << >> /\ stage = "speak" =>
    LET have == {e \in Eps : case.planted[e] >= 0} IN
    /\ \A e \in Eps : \A iv \in Cuts(found.intro, e) :
         case.planted[e] >= 0 /\ case.planted[e] <= iv[1] /\ iv[2] <= case.planted[e] + 5
    /\ Cardinality(have) >= 3 =>
         \A e \in have : \E iv \in Cuts(found.intro, e) :
           iv[1] <= case.planted[e] + Radius /\ case.planted[e] + 5 - Radius <= iv[2]
=============================================================================
