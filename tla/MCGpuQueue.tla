----------------------------- MODULE MCGpuQueue -----------------------------
(***************************************************************************)
(* Instances of GpuQueue for TLC: three jobs of one user, who reaches the  *)
(* limits of the quota, or two jobs of two users.                          *)
(***************************************************************************)
EXTENDS GpuQueue, TLC

CONSTANTS j1, j2, j3, alice, bob

MCJobs == {j1, j2, j3}
MCUsers == {alice, bob}

MCSoleOwner == j1 :> alice @@ j2 :> alice @@ j3 :> alice
MCSoleSymmetry == Permutations({j1, j2, j3})

\* Two jobs of two users, where the question needs no third.
MCPair == {j1, j2}
MCPairOwner == j1 :> alice @@ j2 :> bob
=============================================================================
