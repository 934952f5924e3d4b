-------------------------------- MODULE MCHsRuns --------------------------------
(***************************************************************************)
(* Two runs.  Which of them is of which kind makes no difference, so the   *)
(* kinds are given in one order; fairness does not tell them apart either. *)
(***************************************************************************)
EXTENDS HsRuns, TLC

CONSTANTS r1, r2

MCRuns == {r1, r2}

Rank == [k \in AllKinds |->
    CASE k = "pipeline" -> 1 [] k = "realign" -> 2 [] k = "reconcile" -> 3
      [] k = "rewrite" -> 4 [] k = "repair" -> 5 [] k = "render" -> 6]

MCInit == Init /\ Rank[run[r1].kind] <= Rank[run[r2].kind]

MCSpec == /\ MCInit /\ [][Next]_vars
          /\ \A r \in Runs : WF_vars(Enqueue(r)) /\ WF_vars(Thread(r))
================================================================================
