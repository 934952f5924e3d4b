-------------------------- MODULE MCPodcastProduction ---------------------------
(* Small instances of PodcastProduction. *)
EXTENDS PodcastProduction

CONSTANTS s1, a1, a2, e1, t1

MCOneScript == {s1}
MCAudios == {a1, a2}
MCOneEditor == {e1}
MCTakes == {Legacy, t1}
MCNobody == {}
=============================================================================
