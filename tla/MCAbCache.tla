------------------------------ MODULE MCAbCache -------------------------------
(* Small instances of AbCache: a batch generation and listeners of one book, *)
(* or two books that are linked to the same store book.                      *)
EXTENDS AbCache, TLC

CONSTANTS b1, b2, l1, l2, l3

MCSegs == {1, 2}

MCOneBook == {b1}
MCListeners == {l1, l2, l3}
MCBookOfL == [l \in MCListeners |-> b1]
MCSegOfL == (l1 :> 1) @@ (l2 :> 1) @@ (l3 :> 2)

MCTwoBooks == {b1, b2}
MCNobody == {}
MCNoBookOfL == [l \in MCNobody |-> b1]
MCNoSegOfL == [l \in MCNobody |-> 1]
=============================================================================
