------------------------------ MODULE MCAbQueue -------------------------------
(* Small instances of AbQueue: books of one or two segments, one or two rows. *)
EXTENDS AbQueue, TLC

CONSTANTS b1, b2, r1, r2, u1, p1, p2

MCSegs == {1, 2}
MCScopes == {{1, 2}, {2}}

\* One book and two rows for the same work, one of which waits for the night.
MCOneBooks == {b1}
MCOneOwner == b1 :> u1
MCSameReqs == {r1, r2}
MCSameBook == (r1 :> b1) @@ (r2 :> b1)
MCSameScope == (r1 :> {1, 2}) @@ (r2 :> {1, 2})
MCSamePriority == (r1 :> 5) @@ (r2 :> 8)

\* Two books with a row each; the second waits for the night.
MCTwoBooks == {b1, b2}
MCTwoOwner == (b1 :> u1) @@ (b2 :> u1)
MCTwoReqs == {r1, r2}
MCTwoBook == (r1 :> b1) @@ (r2 :> b2)
MCTwoScope == (r1 :> {1, 2}) @@ (r2 :> {2})
MCTwoPriority == (r1 :> 5) @@ (r2 :> 8)

\* The same with books of one segment.
MCShortSegs == {1}
MCShortScopes == {{1}}
MCShortScope == (r1 :> {1}) @@ (r2 :> {1})
=============================================================================
