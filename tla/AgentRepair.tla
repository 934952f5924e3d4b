------------------------------ MODULE AgentRepair ------------------------------
(***************************************************************************)
(* execute_with_fallbacks of vocarium-agent/runner.py: one package is      *)
(* given to the providers in turn, and to each of them again and again     *)
(* with what its last answer got wrong, until an answer keeps the          *)
(* contract or nothing is left but to give something up.                   *)
(*                                                                         *)
(* One thread carries out the request; the step of a call and the step     *)
(* that handles its error are separate because a provider is outside.      *)
(***************************************************************************)
EXTENDS AlignmentContract

CONSTANTS
    Requests,     \* the packages the engine may send, with a chain of providers each and
                  \* what their answers may say of each cue
    MaxAttempts   \* MAX_INVALID_OUTPUT_ATTEMPTS, 14 in the code

ASSUME ChainAssumption ==
    /\ MaxAttempts \in Nat \ {0}
    /\ Requests \subseteq RequestType

\* The engine locks cues only in a repair, and accepts no missing introduction beforehand.
ASSUME EngineAssumption ==
    \A p \in Requests : ~p.waived /\ (p.locked # Unplaced => p.asked # {})

VARIABLES
    request,    \* the payload
    candidate,  \* what is asked next: the request and what the repair keeps
    onward,     \* next_provider_payload, of which likewise
    turn,       \* the provider, its attempt and how often it came back empty
    error,      \* the error at hand, or none
    memory,     \* the errors kept for the end
    outcome

repairvars == <<request, candidate, onward, turn, error, memory, outcome>>

(***************************************************************************)
(* A candidate: the locked alignments and their introduction, the cues     *)
(* that may be changed, those of them that have only to move, and whether  *)
(* an error is told.                                                       *)
(***************************************************************************)
Candidate(locked, formal, asked, still, told) ==
    [locked |-> locked, formal |-> formal, asked |-> asked, still |-> still, told |-> told]

\* validated_alignment_request passes on what the engine's repair keeps.
First(p) == Candidate(p.locked, p.lockedFormal, p.asked, Unplaced, p.asked # {})

Turn(provider, attempt, empties) ==
    [provider |-> provider, attempt |-> attempt, empties |-> empties]
Outcome(how, cut, formal) == [how |-> how, cut |-> cut, formal |-> formal]
NoError == Bare("none")
NoMemory == [last |-> NoError, best |-> NoError, unintroduced |-> NoError, thin |-> NoError]

RepairInit ==
    /\ request \in Requests
    /\ candidate = First(request) /\ onward = First(request)
    /\ turn = Turn(1, 1, 0)
    /\ error = NoError
    /\ memory = NoMemory
    /\ outcome = Outcome("none", Unplaced, NoCue)

Open == outcome.how = "none"

\* The function returns or raises, and its variables are gone.
Deliver(how, e) ==
    /\ outcome' = Outcome(how, e.cut, e.formal)
    /\ candidate' = First(request) /\ onward' = First(request)
    /\ turn' = Turn(1, 1, 0) /\ error' = NoError /\ memory' = NoMemory

(***************************************************************************)
(* A call of the runner.  An older result is looked at before a provider   *)
(* is asked, unless an error has to be told or cues are locked.            *)
(***************************************************************************)
UsesSeed == request.seed # EmptyAnswer /\ ~candidate.told /\ candidate.locked = Unplaced

Cuts(offers) ==
    UNION {{cut \in [cs -> UNION Range(offers)] : \A c \in cs : cut[c] \in offers[c]} :
             cs \in SUBSET Cues}
Replies ==
    {Answer(cut, f) : cut \in Cuts(request.offers),
                      f \in IF request.needed THEN Cues \cup {NoCue} ELSE {NoCue, Min(Cues)}}

Results ==
    IF UsesSeed
    THEN {Judge(request, CleanSeed(request, cleaned)) : cleaned \in SUBSET Cues}
    ELSE {Judge(request, Merge(candidate, a)) : a \in Replies} \cup {Bare("provider")}

\* The better error to salvage from is the one that leaves more.
Better(e) ==
    memory.best = NoError \/ Cardinality(Survivors(e)) > Cardinality(Survivors(memory.best))

Remember(e) ==
    memory' = IF ~Partial(e) THEN memory
              ELSE [last |-> e,
                    best |-> IF Better(e) THEN e ELSE memory.best,
                    unintroduced |-> IF e.failed THEN e ELSE memory.unintroduced,
                    thin |-> IF e.required # {} /\ e.invalid = {} THEN e ELSE memory.thin]

Attempt ==
    /\ Open /\ error = NoError
    /\ \E e \in Results :
        \/ /\ e.kind = "ok"
           /\ Deliver("answered", e)
        \/ /\ e.kind # "ok"
           /\ error' = e
           /\ turn' = [turn EXCEPT !.empties = IF e.kind = "empty" THEN @ + 1 ELSE 0]
           /\ Remember(e)
           /\ UNCHANGED <<candidate, onward, outcome>>
    /\ UNCHANGED request

(***************************************************************************)
(* The next candidate: what passed is locked, what the engine locked       *)
(* always, and an error without a partial result leaves the locks alone.   *)
(***************************************************************************)
Complained(e) == e.invalid \cup e.required

\* Mutant of RepairCandidate: an error without a partial result clears the locks.
RepairCandidateForgetful ==
    LET e == error
        locked == Restrict(e.cut, {c \in DOMAIN e.cut :
                                     c \notin Complained(e) \/ c \in EngineLocked(request)})
        movable == (Complained(e) \cap DOMAIN e.cut) \ EngineLocked(request) IN
    Candidate(locked, IF e.formal \in DOMAIN locked THEN e.formal ELSE NoCue,
              Complained(e), IF Movable(e) THEN Restrict(e.cut, movable) ELSE Unplaced, TRUE)

RepairCandidate ==
    LET e == error
        locked == Restrict(e.cut, {c \in DOMAIN e.cut :
                                     c \notin Complained(e) \/ c \in EngineLocked(request)})
        movable == (Complained(e) \cap DOMAIN e.cut) \ EngineLocked(request)
        still == IF Movable(e) THEN Restrict(e.cut, movable) ELSE Unplaced IN
    IF Partial(e)
    THEN Candidate(locked, IF e.formal \in DOMAIN locked THEN e.formal ELSE NoCue,
                   Complained(e), still, TRUE)
    ELSE [candidate EXCEPT !.still = Unplaced, !.told = TRUE]

InvalidOutput == error.kind # "provider"
Retries == InvalidOutput /\ turn.attempt < MaxAttempts /\ turn.empties < 2

\* From the second attempt on an error may be settled without the provider.
Early == Partial(error) /\ turn.attempt >= 2
Rewritten == IF Early THEN RewriteIntroduction(request, error) ELSE Refused
Dropped == IF Early THEN DropOptional(request, error) ELSE Refused
Settled == Rewritten.kind = "ok" \/ Dropped.kind = "ok"

Settle ==
    /\ Open /\ error # NoError
    /\ IF Rewritten.kind = "ok" THEN Deliver("rewritten", Rewritten)
       ELSE Dropped.kind = "ok" /\ Deliver("dropped", Dropped)
    /\ UNCHANGED request

Retry ==
    /\ Open /\ error # NoError /\ ~Settled /\ Retries
    /\ candidate' = RepairCandidate
    /\ turn' = [turn EXCEPT !.attempt = @ + 1]
    /\ error' = NoError
    /\ UNCHANGED <<request, onward, memory, outcome>>

NextProvider ==
    /\ Open /\ error # NoError /\ ~Settled /\ ~Retries /\ turn.provider < request.providers
    /\ onward' = IF InvalidOutput /\ Partial(error) THEN RepairCandidate ELSE onward
    /\ candidate' = onward'
    /\ turn' = Turn(turn.provider + 1, 1, 0)
    /\ error' = NoError
    /\ UNCHANGED <<request, memory, outcome>>

(***************************************************************************)
(* After the last provider.                                                *)
(***************************************************************************)
\* The first that succeeds.
FirstOk(es) ==
    IF \E i \in DOMAIN es : es[i].kind = "ok"
    THEN es[CHOOSE i \in DOMAIN es : es[i].kind = "ok" /\ \A j \in 1..(i - 1) : es[j].kind # "ok"]
    ELSE Refused

SalvageError == IF Partial(error) THEN error ELSE memory.last

Salvaged ==
    LET e == SalvageError
        u == memory.unintroduced IN
    IF e = NoError THEN Refused
    ELSE FirstOk(<<DropOptional(request, e),
                   WaiveIntroduction(request, e), WaiveIntroduction(request, u),
                   DropInvalid(request, e), DropInvalid(request, memory.best),
                   DropInvalid(request, u)>>)

\* _oversized_coverage_gap
Oversized(e) ==
    \E s \in Gaps(request, Answer(e.cut, e.formal)) : s[2] - s[1] > request.bound

Exhausted == Open /\ error # NoError /\ ~Settled /\ ~Retries /\ turn.provider = request.providers

\* Mutant of GiveUp: an engine repair may be salvaged too.
GiveUpLenient ==
    /\ Exhausted
    /\ IF Salvaged.kind = "ok" THEN Deliver("salvaged", Salvaged)
       ELSE IF memory.thin # NoError /\ ~Oversized(memory.thin) THEN Deliver("thin", memory.thin)
       ELSE Deliver("failed", NoError)
    /\ UNCHANGED request

GiveUp ==
    /\ Exhausted
    /\ IF request.asked # {} THEN Deliver("failed", NoError)
       ELSE IF Salvaged.kind = "ok" THEN Deliver("salvaged", Salvaged)
       ELSE IF memory.thin # NoError /\ ~Oversized(memory.thin) THEN Deliver("thin", memory.thin)
       ELSE Deliver("failed", NoError)
    /\ UNCHANGED request

Finished == ~Open /\ UNCHANGED repairvars

RepairNext == Attempt \/ Settle \/ Retry \/ NextProvider \/ GiveUp \/ Finished

RepairSpec == RepairInit /\ [][RepairNext]_repairvars

(***************************************************************************)
(* Properties.                                                             *)
(***************************************************************************)
Delivered == outcome.how \notin {"none", "failed"}
Result == Answer(outcome.cut, outcome.formal)

\* A comment is kept; an edge may lose its label as the formal introduction, if an answer
\* gives that to another cue.
Kept(c, was, is) ==
    is.at = was.at /\ (is.text = was.text \/ (c \in request.edges /\ was.text = "intro"))

\* Whatever was tried before it: what is delivered has the book's edges where the novel has
\* them, no two comments at one moment, the order of the novel, no text that breaks a rule
\* where it stands, no two that tell the same soon after each other, and the engine's locked
\* comments word for word.
DeliveredIsSound ==
    Delivered =>
        /\ request.edges \subseteq Selected(Result)
        /\ \A c \in request.edges : outcome.cut[c].at = Nearest(request.home[c])
        /\ \A c, d \in Selected(Result) : c < d =>
              /\ outcome.cut[c].at # outcome.cut[d].at
              /\ \/ outcome.cut[c].at < outcome.cut[d].at
                 \/ "intro" \in {outcome.cut[c].text, outcome.cut[d].text}
                 \/ {c, d} \subseteq EngineLocked(request)
        /\ \A c \in EngineLocked(request) :
              c \in Selected(Result) /\ Kept(c, request.locked[c], outcome.cut[c])
        /\ \A c \in Selected(Result) \ EngineLocked(request) :
              \/ outcome.cut[c].text \in {"scene", "intro", "echo"}
              \/ outcome.cut[c].text = "terse" /\ c \in request.pauses
              \/ outcome.cut[c].text = "told" /\ ~Audible(request, outcome.cut[c].at)
        /\ \A c \in Selected(Result) : Repeated(request, Result, c) = {}

\* A repair the engine asked for is done in full or fails: "A quality repair must not waive
\* the very introduction, density or gap contract the user asked us to fix", and so is an
\* answer nothing was dropped from.
RepairNeverWaived ==
    Delivered /\ (request.asked # {} \/ outcome.how \in {"answered", "rewritten"}) =>
        Judge(request, Result) = Accepted(Result)

\* From one attempt to the next, and from a provider to the next one that is told its last
\* error, a comment that passed stays as it is unless this error complains about it.
PassedStay ==
    [][Retry \/ (NextProvider /\ Partial(error)) =>
         \A c \in DOMAIN candidate.locked \ Complained(error) :
            /\ c \in DOMAIN candidate'.locked
            /\ Kept(c, candidate.locked[c], candidate'.locked[c])]_repairvars

\* "Every cue is individually valid and only the distribution stayed thin": what is
\* delivered with a gap keeps the rest of the contract.
OnlyThin ==
    outcome.how = "thin" =>
        Judge([request EXCEPT !.gap = Unbounded], Result) = Accepted(Result)
=============================================================================
