--------------------------- MODULE SerialExecutor ---------------------------
(***************************************************************************)
(* What the GPU queue promises the rest of vocarium-api, without saying    *)
(* how: jobs are accepted, at most one has the GPU, each has it at most    *)
(* MaxAttempts times, and a job that is over has answered its caller.      *)
(***************************************************************************)
EXTENDS Naturals

CONSTANTS Jobs, MaxAttempts

VARIABLES
    phase,   \* where each job is
    answer,  \* what its caller holds
    tries    \* how often it was given the GPU

absVars == <<phase, answer, tries>>

AbsTypeOK ==
    /\ phase \in [Jobs -> {"new", "waiting", "running", "over"}]
    /\ answer \in [Jobs -> {"none", "pending", "result", "exception",
                            "cancelled", "dropped"}]
    /\ tries \in [Jobs -> 0..MaxAttempts]

AbsInit ==
    /\ phase = [j \in Jobs |-> "new"]
    /\ answer = [j \in Jobs |-> "none"]
    /\ tries = [j \in Jobs |-> 0]

Accept(j) ==
    /\ phase[j] = "new"
    /\ phase' = [phase EXCEPT ![j] = "waiting"]
    /\ answer' = [answer EXCEPT ![j] = "pending"]
    /\ UNCHANGED tries

Begin(j) ==
    /\ phase[j] = "waiting"
    /\ \A k \in Jobs : phase[k] # "running"
    /\ tries[j] < MaxAttempts
    /\ phase' = [phase EXCEPT ![j] = "running"]
    /\ tries' = [tries EXCEPT ![j] = @ + 1]
    /\ UNCHANGED answer

Requeue(j) ==
    /\ phase[j] = "running"
    /\ phase' = [phase EXCEPT ![j] = "waiting"]
    /\ UNCHANGED <<answer, tries>>

\* A caller that gave up keeps its "cancelled"; the others get the outcome.
End(j, outcome) ==
    /\ phase[j] = "running"
    /\ phase' = [phase EXCEPT ![j] = "over"]
    /\ answer' = [answer EXCEPT ![j] = IF @ = "pending" THEN outcome ELSE @]
    /\ UNCHANGED tries

Withdraw(j) ==
    /\ phase[j] = "waiting"
    /\ phase' = [phase EXCEPT ![j] = "over"]
    /\ answer' = [answer EXCEPT ![j] = "cancelled"]
    /\ UNCHANGED tries

Leave(j) ==
    /\ answer[j] = "pending"
    /\ answer' = [answer EXCEPT ![j] = "cancelled"]
    /\ UNCHANGED <<phase, tries>>

LoseAll ==
    /\ phase' = [j \in Jobs |-> IF phase[j] = "new" THEN "new" ELSE "over"]
    /\ answer' = [j \in Jobs |-> IF answer[j] = "pending" THEN "dropped" ELSE answer[j]]
    /\ tries' = [j \in Jobs |-> 0]

AbsNext ==
    \/ \E j \in Jobs :
        \/ Accept(j) \/ Begin(j) \/ Requeue(j) \/ Withdraw(j) \/ Leave(j)
        \/ \E o \in {"result", "exception", "cancelled"} : End(j, o)
    \/ LoseAll

AbsSpec == AbsInit /\ [][AbsNext]_absVars
=============================================================================
