---------------------------- MODULE MCHsAlignment ----------------------------
(* Two episodes, five passages, two figures: Ann is named by two passages, Bob by none, *)
(* and a third name is spelt in the first one as the recordings do not. The second passage's *)
(* comment leaves a stretch that can be closed, or one that cannot. *)
EXTENDS HsAlignment, TLC

MCEpisodeOf == [s \in 1..15 |-> IF s <= 12 THEN 1 ELSE 2]
MCMute == {2, 5, 6}
MCHomes == <<1, 8, 9, 11, 14>>
MCNaming == <<{"ann"}, {"ann"}, {}, {}, {}>>
MCAliases == <<{"goku"}, {}, {}, {}, {}>>
MCFirstSeen == [ann |-> 1, bob |-> 1]
MCHintAt == [ann |-> 1, bob |-> 10]
MCOffers(p) == <<{1}, {7, 8}, {7, 9}, {10, 11}, {14}>>[p]
MCEdges == {1, 5}
MCRequests == {{}, {2}, {3, 15}}
MCHeardCut == {4, 10}
=============================================================================
