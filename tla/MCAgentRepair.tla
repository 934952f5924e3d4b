----------------------------- MODULE MCAgentRepair -----------------------------
(* Packages of three cues, two providers. *)
EXTENDS AgentRepair, TLC

MCCues == 1..3
MCSegs == 1..5

A(at, text) == [at |-> at, text |-> text]

WideOffers ==
    <<{A(1, "scene"), A(1, "intro"), A(2, "scene")},
      {A(3, "scene"), A(3, "intro"), A(2, "bad")},
      {A(5, "scene"), A(5, "bare"), A(2, "scene")}>>
NarrowOffers ==
    <<{A(1, "scene")}, {A(3, "intro"), A(3, "bad")}, {A(5, "scene"), A(2, "scene"), A(0, "scene")}>>
\* Short comments, long ones, and such that tell the same.
BudgetOffers ==
    <<{A(1, "scene"), A(1, "echo")}, {A(2, "echo"), A(3, "long"), A(3, "terse")},
      {A(5, "echo"), A(5, "terse")}>>
\* Texts that repeat the dialogue, where it is audible and elsewhere.
ToldOffers ==
    <<{A(1, "scene")}, {A(2, "told"), A(3, "told"), A(3, "scene")}, {A(5, "scene"), A(5, "told"), A(3, "told")}>>
RepairOffers == <<{A(1, "scene")}, {A(3, "scene"), A(5, "scene"), A(3, "bad")}, {A(5, "scene")}>>

\* A fresh package with the book's first passage and a figure cue 2 could introduce.
Opening ==
    [edges |-> {1}, start |-> 1, side |-> "start", home |-> <<1, 3, 5>>, window |-> Unplaced,
     locked |-> Unplaced, lockedFormal |-> NoCue, asked |-> {}, seed |-> EmptyAnswer,
     min |-> 2, max |-> 3, gap |-> 3, bound |-> 3, spent |-> {}, needed |-> TRUE,
     dedicated |-> NoCue, naming |-> {2}, seen |-> 3, waived |-> FALSE, concise |-> TRUE, pauses |-> {2}, said |-> {3},
     providers |-> 1, offers |-> WideOffers]

\* A middle package; the figure has a cue of its own and no short description.
Middle ==
    [Opening EXCEPT !.edges = {}, !.start = NoCue, !.side = "none", !.dedicated = 2,
                    !.naming = {}, !.concise = FALSE]

\* Nobody to introduce; a gap of four segments may be accepted.
Plain == [Middle EXCEPT !.needed = FALSE, !.dedicated = NoCue, !.bound = 4]

\* A figure nobody names, and a gap that may be accepted.
Unnamed == [Middle EXCEPT !.dedicated = NoCue, !.bound = 4]

\* The engine wants the gap around segment 3 closed and keeps what was there.
GapRepair ==
    [Plain EXCEPT !.locked = 1 :> A(1, "scene") @@ 3 :> A(5, "dated"), !.asked = {2},
                  !.window = 2 :> 2..4, !.min = 3]

\* The engine wants two cues rewritten around a locked introduction.
TextRepair ==
    [Opening EXCEPT !.locked = 1 :> A(1, "intro"), !.lockedFormal = 1, !.asked = {2, 3}]

\* The engine wants a comment back that tells what a locked one tells.
EchoRepair ==
    [Plain EXCEPT !.locked = 1 :> A(1, "echo") @@ 3 :> A(5, "scene"), !.asked = {2}]

\* An older result to start from.
Seeded ==
    [Opening EXCEPT !.naming = {},
        !.seed = Answer(1 :> A(1, "scene") @@ 2 :> A(2, "bad") @@ 3 :> A(5, "scene"), NoCue)]

Chained(p, offers) == [p EXCEPT !.providers = 2, !.offers = offers]

MCRequests ==
    {Opening, Middle, Plain, Unnamed, GapRepair, TextRepair, Seeded,
     [Opening EXCEPT !.offers = BudgetOffers], Chained(Plain, BudgetOffers),
     [Opening EXCEPT !.offers = ToldOffers],
     [EchoRepair EXCEPT !.offers = BudgetOffers],
     Chained(Opening, NarrowOffers), Chained(Middle, NarrowOffers), Chained(Plain, NarrowOffers),
     Chained(GapRepair, RepairOffers), Chained(TextRepair, NarrowOffers)}
=============================================================================
