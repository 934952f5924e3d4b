-------------------------------- MODULE ModelRun --------------------------------
(***************************************************************************)
(* One run of the agent (runner.py): the providers of the request's chain  *)
(* are asked one after the other, each again while its answers break the   *)
(* contract, and each call is repeated while its transport fails for a     *)
(* while: a CLI, or Z.AI's endpoint directly.  What an answer is checked   *)
(* against is AlignmentContract's subject and here only its verdict.       *)
(*                                                                         *)
(* Time is counted in time limits: what a child process or a request takes *)
(* is a whole limit (timeout_seconds) or next to nothing.                  *)
(***************************************************************************)
EXTENDS Integers, Sequences

CONSTANTS
    Chain,       \* the providers of a request, in their order
    Attempts,    \* MAX_INVALID_OUTPUT_ATTEMPTS
    CliTries,    \* CLI_TRANSIENT_ATTEMPTS
    NetTries     \* posts of one question to Z.AI (network_attempt)

ASSUME ModelRunAssumption ==
    /\ Chain \in Seq({"codex", "claude", "zai"}) /\ Len(Chain) \in 1..3
    /\ \A i, j \in 1..Len(Chain) : i # j => Chain[i] # Chain[j]
    /\ Attempts \in Nat \ {0} /\ CliTries \in Nat \ {0} /\ NetTries \in Nat \ {0}

VARIABLE work

\* agent_request_timeout(): what the engine waits for an answer, in time limits.
ReadLimit == 2 * Len(Chain)

WorkRec ==
    [at : {"none", "ask", "cli", "post", "completed", "failed"},
     p : 1..Len(Chain), attempt : 1..Attempts,
     try : 1..(CliTries + NetTries),
     round : 1..2,             \* of a question to Z.AI: as it is, and once more
     tools : BOOLEAN,          \* the web search is offered to Z.AI
     left : 0..1,              \* what is left of the deadline of a call to Z.AI
     spent : 0..ReadLimit + 1] \* what the run took

ModelRunType == work \in WorkRec

NoWork == [at |-> "none", p |-> 1, attempt |-> 1, try |-> 1, round |-> 1,
           tools |-> FALSE, left |-> 1, spent |-> 0]

FirstAsk == [NoWork EXCEPT !.at = "ask"]

Provider == Chain[work.p]

\* A child process or a request took so long.
Takes(w, long) ==
    [w EXCEPT !.left = IF w.at = "post" THEN @ - long ELSE @,
              !.spent = IF @ + long > ReadLimit THEN ReadLimit + 1 ELSE @ + long]

\* The next question starts a new call; what the run took goes on.
AskNext(w, p, attempt) == [FirstAsk EXCEPT !.p = p, !.attempt = attempt, !.spent = w.spent]
Over(w, how) == [NoWork EXCEPT !.at = how, !.spent = w.spent]

(***************************************************************************)
(* execute_with_fallbacks(): an answer that breaks the contract is asked   *)
(* for again, any other failure is the next provider's turn.               *)
(***************************************************************************)
Failed(w) == IF w.p < Len(Chain) THEN AskNext(w, w.p + 1, 1) ELSE Over(w, "failed")
Invalid(w) == IF w.attempt < Attempts THEN AskNext(w, w.p, w.attempt + 1) ELSE Failed(w)
\* A second empty answer in a row ends the provider's turn too.
Answered(w) == {Over(w, "completed"), Invalid(w), Failed(w)}

(***************************************************************************)
(* run_structured_agent(): who is not logged in, or whose CLI does not say *)
(* so within its limit, is not asked (provider_auth_status); Z.AI is asked *)
(* directly, with or without the web search, the others by their CLI.      *)
(***************************************************************************)
NotLoggedIn ==
    /\ work.at = "ask"
    /\ work' = Failed(work)

AskDirectly ==
    /\ work.at = "ask" /\ Provider = "zai"
    /\ \E search \in BOOLEAN : work' = [work EXCEPT !.at = "post", !.tools = search]

StartCli ==
    /\ work.at = "ask" /\ Provider # "zai"
    /\ work' = [work EXCEPT !.at = "cli"]

\* A report that the CLI was only overloaded or not served at all starts it
\* again; only Claude Code writes one, and the last one is an error.
Transient == Provider = "claude" /\ work.try < CliTries

\* What a CLI that came to its end left: an answer, text that is no JSON, an
\* error, or such a report.
CliEnds ==
    /\ work.at = "cli"
    /\ \E long \in 0..1 :
          LET after == Takes(work, long) IN
          \/ work' \in Answered(after)
          \/ Transient /\ work' = [after EXCEPT !.try = @ + 1]

(***************************************************************************)
(* run_zai_direct(): one deadline for the question and the second one,     *)
(* which is asked without the web search when that was refused or when     *)
(* the answer was no JSON.                                                 *)
(***************************************************************************)
Once(w) == [w EXCEPT !.round = 2, !.tools = FALSE, !.try = 1]

\* No JSON object is found in the text, however it is wrapped or misspelt.
Unparsed(w) == IF w.round = 1 THEN Once(w) ELSE Failed(w)

PostTimesOut ==
    /\ work.at = "post"
    /\ work' = Failed(Takes(work, work.left))

PostEnds ==
    /\ work.at = "post" /\ work.left > 0
    /\ \E long \in 0..1 :
          LET after == Takes(work, long) IN
          \/ work' \in Answered(after)
          \/ work' = Unparsed(after)

PostRefused ==
    /\ work.at = "post" /\ work.left > 0
    /\ work' = IF work.round = 1 /\ work.tools THEN Once(work) ELSE Failed(work)

PostDisturbed ==
    /\ work.at = "post" /\ work.left > 0
    /\ \E long \in 0..1 :
          LET after == Takes(work, long) IN
          work' = IF work.try < NetTries THEN [after EXCEPT !.try = @ + 1] ELSE Failed(after)

Provide ==
    \/ NotLoggedIn \/ AskDirectly \/ StartCli \/ CliEnds
    \/ PostTimesOut \/ PostEnds \/ PostRefused \/ PostDisturbed

Working == work.at \in {"ask", "cli", "post"}

================================================================================
