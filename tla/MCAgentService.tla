----------------------------- MODULE MCAgentService -----------------------------
(***************************************************************************)
(* Requests and jobs meet at the lock, logins and jobs at LoginBusy;       *)
(* requests and logins share nothing, nor a job and the inside of a run.   *)
(* So an instance of scenes: "calls" has a caller and no jobs, "jobs" a    *)
(* caller and every kind of job, with providers that nobody is logged in   *)
(* to, so that a run ends soon, and "logins" logins and the shortest job.  *)
(* "research" is the engine's research of episodes, for which an answer of *)
(* the agent is one step.                                                  *)
(***************************************************************************)
EXTENDS AgentService, ContextResearch

CONSTANTS c1, l1, l2, m1, m2, f1, f2

VARIABLE scene

MCCallers == {c1}
MCLogins == {l1, l2}
MCModels == {m1, m2}
MCChain == <<"zai", "claude">>
MCFigures == {f1, f2}
MCAppears == [f \in MCFigures |-> IF f = f1 THEN {1, 2, 3} ELSE {2, 3}]

MCInit ==
    /\ Init /\ ResearchInit
    /\ scene \in {"calls", "jobs", "logins", "research"}

MCNext ==
    /\ scene' = scene
    /\ \/ scene # "research" /\ Next /\ UNCHANGED rvars
       \/ scene = "research" /\ ResearchNext /\ UNCHANGED vars
    /\ \/ scene = "calls" /\ UNCHANGED <<worker, login>>
       \/ scene = "jobs" /\ UNCHANGED login /\ work'.at \notin {"post", "cli"}
       \/ scene = "logins" /\ UNCHANGED caller /\ worker'.kind = "check"
       \/ scene = "research"

MCSpec == MCInit /\ [][MCNext]_<<vars, rvars, scene>> /\ Fairness
================================================================================
