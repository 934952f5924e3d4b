----------------------------- MODULE ContextResearch -----------------------------
(***************************************************************************)
(* The mapping of a project's chapters to the episodes of the series, and  *)
(* the research of the mapped episodes that a rewrite begins with          *)
(* (research_episode_context in engine.py), in packages that the agent     *)
(* answers (research_episode_context in runner.py), and what of it is kept *)
(* when a package fails, the script fails later or the process ends.       *)
(*                                                                         *)
(* A context is known by what is asked of it later: whether it may be used *)
(* again (it has a synopsis), and which figures have to be introduced in   *)
(* its episode.  The agent does as the prompt says: a figure is required   *)
(* in the first episode she appears in of those it is given, unless she is *)
(* said to be introduced.  Whether a synopsis is there, nobody asks it.    *)
(***************************************************************************)
EXTENDS Integers, Sequences, FiniteSets, FiniteSetsExt, Functions

CONSTANTS
    Episodes,     \* numbers of the series' episodes, in their order
    Chapters,     \* how many the book has
    Figures,
    Appears,      \* the episodes each figure appears in
    Package,      \* EPISODE_CONTEXT_BATCH
    None,
    MaxRemaps     \* bound on the changes of the mapping

ASSUME ResearchAssumption ==
    /\ Episodes \subseteq Nat \ {0} /\ IsFiniteSet(Episodes)
    /\ Chapters \in Nat \ {0}
    /\ Appears \in [Figures -> SUBSET Episodes]
    /\ Package \in Nat \ {0} /\ MaxRemaps \in Nat

Context == [synopsis : BOOLEAN, required : SUBSET Figures]
Contexts == [Episodes -> Context \cup {None}]
Nothing == [e \in Episodes |-> None]

ASSUME NoContext == None \notin Context

VARIABLES
    mapped,     \* the episodes of the mapping, in the order of the chapters
    stored,     \* project["episode_context_research"]
    research,   \* the thread of the run
    remaps, remappedSince   \* the second an aid of the properties

rvars == <<mapped, stored, research, remaps, remappedSince>>

Mapped == Range(mapped)

ResearchType ==
    /\ mapped \in Seq(Episodes) /\ \A i, j \in DOMAIN mapped : mapped[i] = mapped[j] => i = j
    /\ stored \in Contexts
    /\ research \in [at : {"idle", "packages", "writing"}, found : Contexts, before : Contexts]
    /\ remaps \in 0..MaxRemaps
    /\ remappedSince \in BOOLEAN

Idle == [at |-> "idle", found |-> Nothing, before |-> Nothing]

ResearchInit ==
    /\ mapped = << >>
    /\ stored = Nothing
    /\ research = Idle
    /\ remaps = 0
    /\ remappedSince = FALSE

(***************************************************************************)
(* The mapping is researched once, and again after it was reset.  The      *)
(* agent's answer names episodes for each chapter, which have to follow    *)
(* each other; without an agent chapters and episodes are counted off,     *)
(* which is such a mapping too.                                            *)
(***************************************************************************)
Follow(es) == es # {} /\ es = Min(es)..Max(es)

MappingAccepted(answer) == \A c \in 1..Chapters : Follow(answer[c])

\* research_episode_mapping(): any other answer is no mapping.
MappingAnswers == {answer \in [1..Chapters -> SUBSET Episodes] : MappingAccepted(answer)}

\* unique_episode_ids(): an episode stands where it is named first.
NamedIn(answer, e) == Min({c \in 1..Chapters : e \in answer[c]})
Earlier(answer, b, e) ==
    \/ NamedIn(answer, b) < NamedIn(answer, e)
    \/ NamedIn(answer, b) = NamedIn(answer, e) /\ b < e

\* There is one such order.
InOrder(answer) ==
    LET named == UNION Range(answer) IN
    {s \in [1..Cardinality(named) -> named] :
        \A i, j \in DOMAIN s : i < j => Earlier(answer, s[i], s[j])}

MapChapters ==
    /\ research.at = "idle" /\ mapped = << >>
    /\ \E answer \in MappingAnswers : mapped' \in InOrder(answer)
    /\ UNCHANGED <<stored, research, remaps, remappedSince>>

ResetMapping ==
    /\ research.at = "idle" /\ mapped # << >> /\ remaps < MaxRemaps
    /\ mapped' = << >>
    /\ remaps' = remaps + 1
    /\ remappedSince' = (remappedSince \/ stored # Nothing)
    /\ UNCHANGED <<stored, research>>

Before(b, e) == \E i, j \in DOMAIN mapped : i < j /\ mapped[i] = b /\ mapped[j] = e

Of(contexts) == {e \in Episodes : contexts[e] # None}

\* episode_context_entry_is_usable(), of what is stored for mapped episodes
Reusable(contexts) ==
    [e \in Episodes |-> IF e \in Mapped /\ contexts[e] # None /\ contexts[e].synopsis
                        THEN contexts[e] ELSE None]

\* episode_context_research_is_current()
Current(contexts) == Of(contexts) = Mapped /\ \A e \in Mapped : contexts[e].synopsis

\* The figures said to be introduced, in whatever episode (absorb_characters).
\* Mutant of Introduced: only the package before is looked at.
IntroducedLast(contexts) ==
    UNION {contexts[e].required : e \in {e \in Of(contexts) : \A b \in Of(contexts) : ~Before(e, b)}}

Introduced(contexts) == UNION {contexts[e].required : e \in Of(contexts)}

\* normalize_character_introduction_contexts(): required once, in the first of them.
Normalized(contexts) ==
    [e \in Episodes |->
        IF contexts[e] = None THEN None
        ELSE [contexts[e] EXCEPT !.required =
                 @ \ UNION {contexts[b].required : b \in {b \in Of(contexts) : Before(b, e)}}]]

(***************************************************************************)
(* The thread: what is current is used as it is, otherwise the episodes    *)
(* without a usable context are asked for, package by package, and every   *)
(* package is stored at once.                                              *)
(***************************************************************************)
Begin ==
    /\ research.at = "idle" /\ mapped # << >>
    /\ research' = IF Current(stored)
                   THEN [at |-> "writing", found |-> Normalized(stored), before |-> stored]
                   ELSE [at |-> "packages", found |-> Reusable(stored), before |-> stored]
    /\ UNCHANGED <<mapped, stored, remaps, remappedSince>>

Pending == Mapped \ Of(research.found)
NextPackage == {e \in Pending : Cardinality({b \in Pending : Before(b, e)}) < Package}

\* What the agent is told: the episodes, and who is introduced already.
Request == [episodes |-> NextPackage, introduced |-> Introduced(research.found)]

\* The figures its answer requires in an episode.
Required(q, e) ==
    {f \in Figures \ q.introduced :
        e \in Appears[f] /\ \A b \in q.episodes : Before(b, e) => b \notin Appears[f]}

Answers(q) ==
    {[e \in q.episodes |-> [synopsis |-> e \in told, required |-> Required(q, e)]] :
        told \in SUBSET q.episodes}

\* A package is in: every context it brings, which is stored before the next is asked for.
AskPackage ==
    /\ research.at = "packages" /\ Pending # {}
    /\ \E answer \in Answers(Request) :
          LET found == [e \in Episodes |->
                           IF e \in DOMAIN answer THEN answer[e] ELSE research.found[e]]
          IN  /\ research' = [research EXCEPT !.found = found]
              /\ stored' = found
    /\ UNCHANGED <<mapped, remaps, remappedSince>>

\* The last package is in: what came of it is stored and used, whatever it lacks.
Conclude ==
    /\ research.at = "packages" /\ Pending = {}
    /\ stored' = research.found
    /\ research' = [research EXCEPT !.at = "writing", !.found = Normalized(research.found)]
    /\ UNCHANGED <<mapped, remaps, remappedSince>>

(***************************************************************************)
(* rewrite_narration() brings the project back to where it began when the  *)
(* script fails; of the research only a current one survives, and the one  *)
(* it holds is the one of the beginning until all packages are in.         *)
(***************************************************************************)
PackageFails ==
    /\ research.at = "packages" /\ Pending # {}
    /\ stored' = research.before
    /\ research' = Idle
    /\ UNCHANGED <<mapped, remaps, remappedSince>>

ScriptFails ==
    /\ research.at = "writing"
    /\ stored' = IF Current(research.found) THEN research.found ELSE research.before
    /\ research' = Idle
    /\ UNCHANGED <<mapped, remaps, remappedSince>>

ScriptSucceeds ==
    /\ research.at = "writing"
    /\ stored' = research.found
    /\ research' = Idle
    /\ UNCHANGED <<mapped, remaps, remappedSince>>

\* The process ends: the thread is gone, the last save_state() counts.
ProcessEnds ==
    /\ research.at # "idle"
    /\ research' = Idle
    /\ UNCHANGED <<mapped, stored, remaps, remappedSince>>

ResearchNext ==
    \/ MapChapters \/ ResetMapping
    \/ Begin \/ AskPackage \/ Conclude \/ PackageFails
    \/ ScriptFails \/ ScriptSucceeds \/ ProcessEnds

ResearchSpec == ResearchInit /\ [][ResearchNext]_rvars

--------------------------------------------------------------------------------
Writes == research.at = "writing"
FirstOf(f) == {e \in Mapped \cap Appears[f] : \A b \in Appears[f] : ~Before(b, e)}

\* A script is written with every figure introduced in the first episode she
\* appears in, by the order of the book's chapters, and in no other, in whatever
\* runs and packages the episodes were researched, as long as the mapping is the
\* one the research began with; and in no second episode, whatever the mapping.
IntroducedAtFirst ==
    Writes => \A f \in Figures :
        LET in == {e \in Mapped : f \in research.found[e].required} IN
        /\ ~remappedSince => in = FirstOf(f)
        /\ \A b, e \in in : b = e

\* "ein Fehlschlag im naechsten Paket kostet dann nur dieses Paket, nicht die
\* ganze Recherche": a package that is in stays in.
FinishedPackagesStay ==
    [][\A e \in Mapped : stored[e] # None /\ stored[e].synopsis /\ mapped' = mapped
                            => stored'[e] # None]_rvars
================================================================================
