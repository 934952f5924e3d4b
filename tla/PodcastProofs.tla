----------------------------- MODULE PodcastProofs -----------------------------
(***************************************************************************)
(* What holds of PodcastProduction for every number of requests, editors,  *)
(* takes and restarts: one production at a time, finished audio that       *)
(* matches its script, and audio that can be played at any moment, with    *)
(* the two exceptions AudioStaysPlayable names.                            *)
(***************************************************************************)
EXTENDS PodcastProduction, TLAPS

Pcs == Working \cup {"new", "checking", "claimed", "opened", "cancelling", "over"}
ProdRec == [pc : Pcs, read : ScriptType, copy : CopyType]
EditRec == [pc : {"new", "checking", "over"}, read : ScriptType]
AudioRec == [path : {"none", "work", "archive"}, sha : Contents \cup {NoAudio}, rev : ScriptType]

Mixing == {"mixing", "mixed", "copying", "publishing"}
AudioPcs == {"hashing", "archiving", "archived", "assembling"} \cup Mixing

\* Which worker can be where, and whose copy can be under way.
PcShape ==
    /\ \A p \in Productions :
         /\ prod[p].pc \in {"checking", "generating"} => p \in Scripts
         /\ prod[p].pc \in AudioPcs => p \in Audios
    /\ \A p \in Audios, s \in Contents :
         archive[s] = p => prod[p].pc \in {"archiving", "copying", "cancelling", "over"}

\* An audio production works on the script that is in the database.
ReadShape ==
    Exists => \A p \in Audios : Occupied(p) => prod[p].read = script

\* Audio of the time before the archive: nothing was mixed yet, and no sweep takes it.
LegacyShape ==
    /\ audio.path = "archive" => audio.sha \in Contents
    /\ Exists =>
        /\ audio.path = "work" =>
             /\ audio.sha = Legacy /\ work = Legacy /\ Legacy \in Takes
             /\ encoders = {}
             /\ sweep.on => "mix" \in sweep.keep
        /\ \A p \in Productions :
             prod[p].pc \in Mixing \cup {"assembling"} => audio.path # "work"

\* A mix under way is young.
MixShape ==
    Exists => \A p \in Productions : prod[p].pc \in Mixing => "mix" \notin aged

\* A worker's own copy is the one that writes its file, and that file is young.
CopyShape ==
    Exists => \A p \in Audios :
        /\ prod[p].pc \in {"archiving", "copying"} =>
             archive[prod[p].copy.to] = p /\ prod[p].copy.to \notin aged
        /\ prod[p].pc \in {"archiving", "archived", "copying", "publishing"} =>
             prod[p].copy.to \in Contents
        /\ prod[p].pc \in {"archiving", "archived"} =>
             prod[p].copy.to = IF audio.path = "work" THEN Legacy ELSE "torn"
        /\ prod[p].pc = "copying" => prod[p].copy.of = "mix"
        /\ prod[p].pc = "publishing" =>
             prod[p].copy.to \notin aged /\ archive[prod[p].copy.to] \notin Audios

\* Whatever else is copied is the mix file, which is young or has never been archived.
OrphanShape ==
    Exists =>
        /\ \A s \in Takes, q \in Audios :
             archive[s] = q =>
               /\ prod[q].copy.of = "mix"
               /\ "mix" \in aged => audio.path = "work" /\ s = Legacy
        /\ \A p \in Audios :
             prod[p].pc = "archived" /\ audio.path = "work" /\ "mix" \in aged =>
               \A s \in Takes : archive[s] \notin Audios

\* A sweep that does not keep the mix file takes none of the files named.
SweepShape ==
    Exists /\ sweep.on /\ "mix" \notin sweep.keep =>
        \A s \in Named \cap Takes : s \notin aged \ sweep.keep

IInv ==
    /\ TypeOK /\ PcShape /\ ActiveOwnsStatus /\ ReadShape
    /\ LegacyShape /\ MixShape /\ CopyShape /\ OrphanShape /\ SweepShape

\* What a step does to the files named: the second half of AudioStaysPlayable.
Kept ==
    Exists' =>
        \A s \in Named' \cap Takes :
            IF s \notin Named THEN archive'[s] = "whole"
            ELSE archive[s] = "whole" =>
                   \/ archive'[s] = "whole"
                   \/ \E p \in Audios : CopyMix(p) /\ s = work
                   \/ SweepEnds /\ "mix" \in sweep.keep

-----------------------------------------------------------------------------
(* Names, files and workers. *)

\* The names of files, contents and productions are different things.
LEMMA Names ==
    /\ "mix" \notin Contents /\ "torn" \notin Takes /\ "partial" \notin Contents
    /\ NoAudio \notin Contents /\ Takes \subseteq Contents /\ Contents \subseteq Files
    /\ "mix" \in Files /\ "torn" \in Contents
    /\ {"none", "torn", "whole"} \cap Productions = {}
BY ProductionAssumption DEF Contents, Files

\* Membership in Named.
LEMMA NamedFacts ==
    ASSUME NEW s
    PROVE  s \in Named <=>
             \/ audio.path = "archive" /\ s = audio.sha
             \/ \E p \in Audios :
                  prod[p].pc \in {"archived", "publishing"} /\ s = prod[p].copy.to
BY DEF Named

\* The same of the state after a step.
LEMMA NamedFactsNext ==
    ASSUME NEW s
    PROVE  s \in Named' <=>
             \/ audio'.path = "archive" /\ s = audio'.sha
             \/ \E p \in Audios :
                  prod'[p].pc \in {"archived", "publishing"} /\ s = prod'[p].copy.to
BY DEF Named

\* Production p moves on, the rest stays.
Moved(p, x) ==
    /\ prod' \in [Productions -> ProdRec]
    /\ prod'[p].pc = x /\ prod'[p].read = prod[p].read
    /\ \A q \in Productions \ {p} : prod'[q] = prod[q]

LEMMA ToFacts ==
    ASSUME prod \in [Productions -> ProdRec], NEW p \in Productions, NEW x \in Pcs, To(p, x)
    PROVE  Moved(p, x) /\ prod'[p].copy = prod[p].copy
BY DEF To, ProdRec, Moved

LEMMA OverFacts ==
    ASSUME prod \in [Productions -> ProdRec], NEW p \in Productions, Over(p)
    PROVE  /\ prod' \in [Productions -> ProdRec] /\ prod'[p].pc = "over"
           /\ prod'[p].copy = prod[p].copy \/ Written(p) = {}
           /\ \A q \in Productions \ {p} : prod'[q] = prod[q]
<1>1. NoScript \in ScriptType /\ NoCopy \in CopyType /\ "over" \in Pcs
  BY DEF NoScript, ScriptType, NoCopy, CopyType, Files, Pcs
<1>2. prod[p].copy \in CopyType
  BY DEF ProdRec
<1>3. [pc |-> "over", read |-> NoScript,
       copy |-> IF Written(p) = {} THEN NoCopy ELSE prod[p].copy] \in ProdRec
  BY <1>1, <1>2 DEF ProdRec
<1> QED BY <1>3 DEF Over

LEMMA BeginFacts ==
    ASSUME prod \in [Productions -> ProdRec], NEW p \in Audios, NEW x \in Pcs,
           archive \in [Contents -> {"none", "torn", "whole"} \cup Audios],
           NEW of \in Files, NEW to \in Contents, CopyBegins(p, of, to, x)
    PROVE  /\ Moved(p, x) /\ prod'[p].copy.of = of /\ prod'[p].copy.to = to
           /\ archive' \in [Contents -> {"none", "torn", "whole"} \cup Audios]
           /\ archive'[to] = p /\ \A s \in Contents \ {to} : archive'[s] = archive[s]
           /\ aged' = aged \ {to}
<1>1. p \in Productions /\ [of |-> of, to |-> to] \in CopyType
  BY DEF Productions, CopyType
<1>2. prod[p] \in ProdRec
  BY <1>1
<1>3. [pc |-> x, read |-> prod[p].read, copy |-> [of |-> of, to |-> to]] \in ProdRec
  BY <1>1, <1>2 DEF ProdRec
<1>4. Moved(p, x) /\ prod'[p].copy = [of |-> of, to |-> to]
  BY <1>1, <1>3 DEF Moved, CopyBegins
<1> QED BY <1>4 DEF CopyBegins

LEMMA LeavesFacts ==
    ASSUME archive \in [Contents -> {"none", "torn", "whole"} \cup Audios],
           NEW p, NEW x \in {"torn", "whole"}, CopyLeaves(p, x)
    PROVE  /\ archive' \in [Contents -> {"none", "torn", "whole"} \cup Audios]
           /\ \A s \in Contents : archive'[s] = IF archive[s] = p THEN x ELSE archive[s]
<1>1. \A s \in Contents : s \in Written(p) <=> archive[s] = p
  BY DEF Written
<1> QED BY <1>1 DEF CopyLeaves

\* While p is at work nobody else is, and the status is its.
LEMMA OneAtATime ==
    ASSUME ActiveOwnsStatus, Exists, NEW p \in Productions, Occupied(p)
    PROVE  /\ \A q \in Productions \ {p} : ~Occupied(q)
           /\ status \in Active
           /\ status = IF p \in Scripts THEN "generating_script" ELSE "generating_audio"
BY DEF ActiveOwnsStatus, Active

\* Where a worker touches files it occupies its podcast, and no other does.
LEMMA FilePcs ==
    ASSUME NEW p \in Productions, prod[p].pc \in AudioPcs
    PROVE  Occupied(p)
BY DEF AudioPcs, Mixing, Occupied, Working

\* What steps leave that only move an audio worker on.
LEMMA WorkStep ==
    ASSUME IInv, NEW p \in Audios, prod[p].pc \in AudioPcs, NEW x \in AudioPcs, Moved(p, x),
           UNCHANGED <<status, script>>
    PROVE  /\ Exists' = Exists
           /\ Exists => \A q \in Productions \ {p} : prod[q].pc \notin AudioPcs
           /\ Exists => \A q \in Productions \ {p} : prod'[q].pc \notin AudioPcs
           /\ ActiveOwnsStatus' /\ ReadShape'
           /\ \A q \in Productions : /\ prod'[q].pc \in {"checking", "generating"} => q \in Scripts
                                     /\ prod'[q].pc \in AudioPcs => q \in Audios
<1> p \in Productions BY DEF Productions
<1>1. Occupied(p) BY FilePcs
<1>2. Exists' = Exists /\ \A q \in Productions : Occupied(q)' => Occupied(q)
  BY <1>1 DEF Exists, Occupied, Moved
<1>3. Exists => \A q \in Productions \ {p} : prod[q].pc \notin AudioPcs
  BY <1>1, OneAtATime, FilePcs DEF IInv
<1>4. ActiveOwnsStatus'
  BY <1>2 DEF IInv, ActiveOwnsStatus
<1>5. ReadShape'
  BY <1>2 DEF IInv, ReadShape, Productions, Moved
<1>6. \A q \in Productions : /\ prod'[q].pc \in {"checking", "generating"} => q \in Scripts
                             /\ prod'[q].pc \in AudioPcs => q \in Audios
  BY DEF IInv, PcShape, Moved, AudioPcs, Mixing
<1> QED BY <1>2, <1>3, <1>4, <1>5, <1>6 DEF Moved

\* Nothing is lost where the archive stays and no file is newly named.
LEMMA KeptSame ==
    ASSUME archive' = archive, Named' \subseteq Named
    PROVE  Kept
BY DEF Kept

-----------------------------------------------------------------------------
(* Claims, ends, edits. *)

\* The steps that only move a production on, with all files as they are.
LEMMA MoveStep ==
    ASSUME IInv, NEW p \in Productions, NEW x \in Pcs, Moved(p, x), prod'[p].copy = prod[p].copy,
           UNCHANGED <<status, script, audio, edit>>, UNCHANGED files, restarts' = restarts,
           x \in {"checking", "generating"} => p \in Scripts,
           x \in {"hashing", "assembling"} => p \in Audios,
           x \in Working \cup {"claimed", "opened", "cancelling"} => Occupied(p),
           Exists /\ x = "assembling" => audio.path # "work",
           x \notin Mixing \cup {"archiving", "archived", "over"},
           prod[p].pc \in {"archiving", "copying", "cancelling", "over"} => x = "cancelling"
    PROVE  IInv' /\ Kept
<1>1. TypeOK'
  BY DEF IInv, TypeOK, files, ProdRec, Pcs, Moved
<1>2. PcShape'
  BY DEF IInv, PcShape, AudioPcs, Mixing, Moved, files, Productions
<1>3. Exists' = Exists /\ \A q \in Productions : Occupied(q)' => Occupied(q)
  BY DEF Exists, Occupied, Moved
<1>4. ActiveOwnsStatus'
  BY <1>3 DEF IInv, ActiveOwnsStatus
<1>5. ReadShape'
  BY <1>3 DEF IInv, ReadShape, Productions, Moved
<1>6. LegacyShape' /\ MixShape'
  BY <1>3 DEF IInv, LegacyShape, MixShape, files, Mixing, Moved
<1>7. CopyShape' /\ OrphanShape'
  BY <1>3 DEF IInv, CopyShape, OrphanShape, files, Mixing, Moved, Productions
<1>8. Named' \subseteq Named
  BY NamedFacts, NamedFactsNext DEF Moved, Mixing, Productions
<1>9. SweepShape'
  BY <1>3, <1>8 DEF IInv, SweepShape, files
<1>10. Kept
  BY <1>8, KeptSame DEF files
<1> QED BY <1>1, <1>2, <1>4, <1>5, <1>6, <1>7, <1>9, <1>10 DEF IInv

LEMMA ClaimStep ==
    ASSUME IInv, NEW p \in Productions, prod[p].pc \in {"new", "checking"}, Idle,
           status' = IF p \in Scripts THEN "generating_script" ELSE "generating_audio",
           prod' = [prod EXCEPT ![p] = [pc |-> "claimed", read |-> script, copy |-> NoCopy]],
           UNCHANGED <<script, audio, edit>>, UNCHANGED files, restarts' = restarts
    PROVE  IInv' /\ Kept
<1> prod \in [Productions -> ProdRec] /\ script \in ScriptType
  BY DEF IInv, TypeOK, ProdRec, Pcs
<1>1. /\ prod' \in [Productions -> ProdRec]
      /\ prod'[p].pc = "claimed" /\ prod'[p].read = script
      /\ \A q \in Productions \ {p} : prod'[q] = prod[q]
  <2>1. [pc |-> "claimed", read |-> script, copy |-> NoCopy] \in ProdRec
    BY Names DEF ProdRec, Pcs, NoCopy, CopyType
  <2> QED BY <2>1
<1>2. Exists /\ Exists' /\ \A q \in Productions : ~Occupied(q)
  BY DEF Idle, Exists, IInv, ActiveOwnsStatus, Active
<1>3. \A q \in Productions : Occupied(q)' => q = p
  BY <1>1, <1>2 DEF Occupied
<1>4. TypeOK'
  BY <1>1 DEF IInv, TypeOK, files, ProdRec, Pcs, Active
<1>5. PcShape'
  BY <1>1 DEF IInv, PcShape, AudioPcs, Mixing, files, Productions
<1>6. ActiveOwnsStatus'
  BY <1>3 DEF ActiveOwnsStatus
<1>7. ReadShape'
  BY <1>1, <1>3 DEF ReadShape, Productions
<1>8. LegacyShape' /\ MixShape'
  BY <1>1, <1>2 DEF IInv, LegacyShape, MixShape, files, Mixing
<1>9. CopyShape'
  BY <1>1, <1>2 DEF IInv, CopyShape, files, Productions
<1>10. OrphanShape'
  <2>1. \A s \in Takes, q \in Audios : archive[s] = q => q # p
    BY Names DEF IInv, PcShape
  <2>2. \A s \in Takes, q \in Audios : archive[s] = q => prod'[q] = prod[q]
    BY <1>1, <2>1 DEF Productions
  <2>3. \A q \in Audios : prod'[q].pc = "archived" => prod[q].pc = "archived"
    BY <1>1 DEF Productions
  <2> QED BY <1>2, <2>2, <2>3 DEF IInv, OrphanShape, files
<1>11. Named' \subseteq Named
  BY <1>1, NamedFacts, NamedFactsNext DEF Productions
<1>12. SweepShape'
  BY <1>2, <1>11 DEF IInv, SweepShape, files
<1>13. Kept
  BY <1>11, KeptSame DEF files
<1> QED BY <1>4, <1>5, <1>6, <1>7, <1>8, <1>9, <1>10, <1>12, <1>13 DEF IInv

\* A worker that leaves, with or without a verdict, a new script or the end of its copy.
LEMMA OverStep ==
    ASSUME IInv, NEW p \in Productions, Over(p),
           \/ UNCHANGED <<status, script>>
           \/ /\ Occupied(p) /\ script' \in ScriptType
              /\ \E s \in {"error", "cancelled", "script_ready"} : Set(s),
           encoders' \subseteq encoders, archive' = archive \/ CopyLeaves(p, "torn"),
           UNCHANGED <<audio, edit, work, aged, sweep, restarts>>
    PROVE  IInv' /\ Kept
<1> /\ prod \in [Productions -> ProdRec]
    /\ archive \in [Contents -> {"none", "torn", "whole"} \cup Audios]
  BY DEF IInv, TypeOK, ProdRec, Pcs
<1>1. /\ prod' \in [Productions -> ProdRec] /\ prod'[p].pc = "over"
      /\ prod'[p].copy = prod[p].copy \/ Written(p) = {}
      /\ \A q \in Productions \ {p} : prod'[q] = prod[q]
  BY OverFacts
<1>2. /\ archive' \in [Contents -> {"none", "torn", "whole"} \cup Audios]
      /\ \A s \in Contents :
           archive'[s] = archive[s] \/ (archive[s] = p /\ archive'[s] = "torn")
  BY LeavesFacts
<1>3. Exists' = Exists
  BY DEF Set, Exists
<1>4. \A q \in Productions : Occupied(q)' => Occupied(q) /\ q # p
  BY <1>1 DEF Occupied, Working
<1>5. TypeOK'
  BY <1>1, <1>2 DEF IInv, TypeOK, ProdRec, Pcs, Set
<1>6. PcShape'
  BY <1>1, <1>2, Names DEF IInv, PcShape, AudioPcs, Mixing, Productions
<1>7. ASSUME UNCHANGED <<status, script>> PROVE ActiveOwnsStatus' /\ ReadShape'
  <2>1. ActiveOwnsStatus'
    BY <1>3, <1>4, <1>7 DEF IInv, ActiveOwnsStatus
  <2>2. ReadShape'
    BY <1>1, <1>3, <1>4, <1>7 DEF IInv, ReadShape, Productions
  <2> QED BY <2>1, <2>2
<1>8. ASSUME Occupied(p) PROVE ActiveOwnsStatus' /\ ReadShape'
  <2>1. Exists' => \A q \in Productions : ~Occupied(q)'
    BY <1>3, <1>4, <1>8, OneAtATime DEF IInv
  <2> QED BY <2>1 DEF ActiveOwnsStatus, ReadShape, Productions
<1>9. ActiveOwnsStatus' /\ ReadShape'
  BY <1>7, <1>8
<1>10. LegacyShape' /\ MixShape'
  BY <1>1, <1>3 DEF IInv, LegacyShape, MixShape, Mixing
<1>11. CopyShape'
  <2>1. SUFFICES ASSUME Exists, NEW q \in Audios \ {p}
                 PROVE  /\ prod[q].pc \in {"archiving", "copying"} =>
                             archive'[prod[q].copy.to] = q
                        /\ prod[q].pc = "publishing" => archive'[prod[q].copy.to] \notin Audios
    BY <1>1, <1>3, <2>1 DEF IInv, CopyShape, Productions
  <2> QED BY <1>2, <2>1, Names DEF IInv, CopyShape, Productions
<1>12. OrphanShape'
  <2>1. \A s \in Takes, q \in Audios :
          archive'[s] = q => archive[s] = q /\ prod'[q].copy = prod[q].copy
    <3>1. \A s \in Takes : s \in Written(p) <=> archive[s] = p
      BY Names DEF Written
    <3> QED BY <1>1, <1>2, <3>1, Names DEF Productions
  <2>2. \A s \in Takes : archive'[s] \in Audios => archive[s] \in Audios
    BY <2>1
  <2> QED BY <1>1, <1>3, <2>1, <2>2 DEF IInv, OrphanShape, Productions
<1>13. Named' \subseteq Named
  BY <1>1, NamedFacts, NamedFactsNext DEF Productions
<1>14. SweepShape'
  BY <1>3, <1>13 DEF IInv, SweepShape
<1>15. Kept
  <2>1. \A s \in Takes : archive[s] = "whole" => archive'[s] = "whole"
    BY <1>2, Names
  <2> QED BY <1>13, <2>1 DEF Kept
<1> QED BY <1>5, <1>6, <1>9, <1>10, <1>11, <1>12, <1>14, <1>15 DEF IInv

\* An edit leaves the productions alone, and writes only while there is none.
LEMMA EditStep ==
    ASSUME IInv, NEW e \in Editors, ReadForEdit(e) \/ WriteEdit(e)
    PROVE  IInv' /\ Kept
<1>1. /\ UNCHANGED <<status, audio, prod, restarts>> /\ UNCHANGED files
      /\ script' = script \/ Idle
  BY DEF ReadForEdit, WriteEdit
<1>2. edit \in [Editors -> EditRec] /\ script \in ScriptType
  BY DEF IInv, TypeOK, EditRec
<1>3. edit' \in [Editors -> EditRec]
  <2>1. Done \in EditRec
    BY Names DEF Done, EditRec, NoScript, ScriptType
  <2>2. CASE ReadForEdit(e)
    BY <1>2, <2>2 DEF ReadForEdit, EditRec
  <2>3. CASE WriteEdit(e)
    BY <1>2, <2>1, <2>3 DEF WriteEdit
  <2> QED BY <2>2, <2>3
<1>4. script' \in ScriptType
  <2>1. edit[e].read \in ScriptType
    BY <1>2 DEF EditRec
  <2>2. [edit[e].read EXCEPT !.edits = @ \cup {e}] \in ScriptType
    BY <2>1 DEF ScriptType
  <2> QED BY <1>2, <2>2 DEF ReadForEdit, WriteEdit
<1>5. TypeOK'
  BY <1>1, <1>3, <1>4 DEF IInv, TypeOK, files, EditRec
<1>6. Named' = Named
  BY <1>1 DEF Named
<1>7. PcShape' /\ ActiveOwnsStatus' /\ LegacyShape' /\ MixShape' /\ CopyShape' /\ OrphanShape'
  BY <1>1 DEF IInv, PcShape, ActiveOwnsStatus, LegacyShape, MixShape, CopyShape, OrphanShape,
              files, Occupied, Exists
<1>8. SweepShape'
  BY <1>1, <1>6 DEF IInv, SweepShape, files, Exists
<1>9. ReadShape'
  <2>1. Idle => \A p \in Productions : ~Occupied(p)
    BY DEF Idle, Exists, IInv, ActiveOwnsStatus, Active
  <2>2. Exists' = Exists /\ \A p \in Audios : Occupied(p)' = Occupied(p) /\ prod'[p] = prod[p]
    BY <1>1 DEF Exists, Occupied
  <2> QED BY <1>1, <2>1, <2>2 DEF IInv, ReadShape, Productions
<1>10. Kept
  BY <1>1, <1>6, KeptSame DEF files
<1> QED BY <1>5, <1>7, <1>8, <1>9, <1>10 DEF IInv

-----------------------------------------------------------------------------
(* The workers' steps that touch files. *)

\* Audio that is archived: the mix file of old, or what is left of a damaged file.
LEMMA ArchiveStep ==
    ASSUME IInv, NEW p \in Productions, Archive(p)
    PROVE  IInv' /\ Kept
<1>1. /\ p \in Audios /\ prod[p].pc = "hashing"
      /\ UNCHANGED <<status, script, audio, edit, work, encoders, sweep, restarts>>
      /\ OldBytes \in Contents \ {OldFile} /\ CopyBegins(p, OldFile, OldBytes, "archiving")
  BY DEF IInv, PcShape, Archive, AudioPcs
<1>2. /\ audio.path = "work" => OldFile = "mix" /\ OldBytes = work
      /\ audio.path = "archive" => OldFile = audio.sha /\ OldBytes = "torn"
      /\ audio.path # "none"
  <2>1. audio.path \in {"none", "work", "archive"}
    BY DEF IInv, TypeOK
  <2> QED BY <1>1, <2>1, Names DEF OldFile, OldBytes
<1>3. OldFile \in Files
  <2>1. audio.path \in {"work", "archive"} /\ audio.sha \in Contents \cup {NoAudio}
    BY <1>2 DEF IInv, TypeOK
  <2>2. audio.path = "archive" => audio.sha \in Contents
    BY DEF IInv, LegacyShape
  <2> QED BY <1>2, <2>1, <2>2, Names
<1>4. /\ Moved(p, "archiving") /\ prod'[p].copy.of = OldFile /\ prod'[p].copy.to = OldBytes
      /\ archive' \in [Contents -> {"none", "torn", "whole"} \cup Audios]
      /\ archive'[OldBytes] = p
      /\ \A s \in Contents \ {OldBytes} : archive'[s] = archive[s]
      /\ aged' = aged \ {OldBytes}
  <2>1. prod \in [Productions -> ProdRec] /\ "archiving" \in Pcs
    BY DEF IInv, TypeOK, ProdRec, Pcs, Working
  <2>2. archive \in [Contents -> {"none", "torn", "whole"} \cup Audios]
    BY DEF IInv, TypeOK
  <2> QED BY <1>1, <1>3, <2>1, <2>2, BeginFacts
<1>5. /\ Exists' = Exists
      /\ Exists => \A q \in Productions \ {p} : prod[q].pc \notin AudioPcs
      /\ Exists => \A q \in Productions \ {p} : prod'[q].pc \notin AudioPcs
      /\ ActiveOwnsStatus' /\ ReadShape'
      /\ \A q \in Productions : /\ prod'[q].pc \in {"checking", "generating"} => q \in Scripts
                                /\ prod'[q].pc \in AudioPcs => q \in Audios
  <2>1. "hashing" \in AudioPcs /\ "archiving" \in AudioPcs
    BY DEF AudioPcs
  <2> QED BY <1>1, <1>4, <2>1, WorkStep
<1>6. TypeOK'
  BY <1>1, <1>4 DEF IInv, TypeOK, ProdRec, Pcs, Moved
<1>7. \A s \in Contents, q \in Audios :
        archive'[s] = q => (s = OldBytes /\ q = p) \/ (archive[s] = q /\ q # p)
  <2>1. \A s \in Contents : archive[s] # p
    BY <1>1 DEF IInv, PcShape
  <2> QED BY <1>1, <1>4, <2>1
<1>8. PcShape'
  <2>1. \A q \in Audios, s \in Contents :
          archive'[s] = q => prod'[q].pc \in {"archiving", "copying", "cancelling", "over"}
    BY <1>4, <1>7 DEF IInv, PcShape, Moved, Productions
  <2> QED BY <1>5, <2>1 DEF PcShape
<1>9. LegacyShape'
  BY <1>1, <1>4, <1>5 DEF IInv, LegacyShape, Moved, Mixing
<1>10. MixShape'
  BY <1>4, <1>5 DEF MixShape, Moved, Mixing, AudioPcs
<1>11. CopyShape'
  <2>1. Exists => OldBytes = IF audio.path = "work" THEN Legacy ELSE "torn"
    <3>1. audio.path \in {"none", "work", "archive"}
      BY DEF IInv, TypeOK
    <3> QED BY <1>2, <3>1 DEF IInv, LegacyShape
  <2>2. Exists => \A q \in Audios \ {p} : prod'[q].pc \notin AudioPcs
    BY <1>5 DEF Productions
  <2> QED BY <1>1, <1>4, <1>5, <2>1, <2>2 DEF CopyShape, Moved, AudioPcs, Mixing
<1>12. OrphanShape'
  <2>1. \A q \in Audios \ {p} : prod'[q] = prod[q]
    BY <1>4 DEF Moved, Productions
  <2>2. Exists /\ OldBytes \in Takes => audio.path = "work" /\ OldBytes = Legacy
    <3>1. audio.path \in {"none", "work", "archive"}
      BY DEF IInv, TypeOK
    <3> QED BY <1>2, <3>1, Names DEF IInv, LegacyShape
  <2>3. Exists => \A s \in Takes, q \in Audios :
          archive'[s] = q =>
             /\ prod'[q].copy.of = "mix"
             /\ "mix" \in aged => audio.path = "work" /\ s = Legacy
    BY <1>2, <1>4, <1>7, <2>1, <2>2, Names DEF IInv, OrphanShape
  <2>4. Exists => \A q \in Audios : prod'[q].pc # "archived"
    BY <1>4, <1>5 DEF Productions, Moved, AudioPcs
  <2> QED BY <1>1, <1>4, <1>5, <2>3, <2>4 DEF OrphanShape
<1>13. Exists => Named' \subseteq Named
  BY <1>1, <1>4, <1>5, NamedFacts, NamedFactsNext DEF Productions, Moved, AudioPcs, Mixing
<1>14. SweepShape'
  BY <1>1, <1>4, <1>5, <1>13 DEF IInv, SweepShape
<1>15. Kept
  <2>1. Exists => \A s \in Named \cap Takes : s # OldBytes
    <3>1. Exists /\ audio.path = "work" => Named = {}
      BY <1>1, <1>5, NamedFacts DEF Productions, AudioPcs, Mixing
    <3>2. audio.path # "work" => OldBytes = "torn"
      <4>1. audio.path \in {"none", "work", "archive"}
        BY DEF IInv, TypeOK
      <4> QED BY <1>2, <4>1
    <3> QED BY <3>1, <3>2, Names
  <2> QED BY <1>4, <1>5, <1>13, <2>1, Names DEF Kept
<1> QED BY <1>5, <1>6, <1>8, <1>9, <1>10, <1>11, <1>12, <1>14, <1>15 DEF IInv

\* A copy that comes to its end leaves a whole file, as old as the one it was made of.
LEMMA CopyEndsFacts ==
    ASSUME IInv, NEW p \in Audios, CopyEnds(p)
    PROVE  /\ archive' \in [Contents -> {"none", "torn", "whole"} \cup Audios]
           /\ \A s \in Contents : archive'[s] = IF archive[s] = p THEN "whole" ELSE archive[s]
           /\ aged' \subseteq Files
           /\ \A f \in aged' : f \in aged \/ (f \in Contents /\ archive[f] = p /\ prod[p].copy.of \in aged)
           /\ Exists => \A s \in Takes : s \in aged' => s \in aged \/ audio.path = "work"
<1>1. archive \in [Contents -> {"none", "torn", "whole"} \cup Audios] /\ CopyLeaves(p, "whole")
  BY DEF IInv, TypeOK, CopyEnds
<1>2. \A f \in aged' : f \in aged \/ (f \in Contents /\ archive[f] = p /\ prod[p].copy.of \in aged)
  BY DEF CopyEnds, Written
<1>3. aged' \subseteq Files
  BY <1>2, Names DEF IInv, TypeOK
<1>4. Exists => \A s \in Takes : s \in aged' => s \in aged \/ audio.path = "work"
  BY <1>2 DEF IInv, OrphanShape
<1> QED BY <1>1, <1>2, <1>3, <1>4, LeavesFacts

LEMMA ArchiveEndsStep ==
    ASSUME IInv, NEW p \in Productions, ArchiveEnds(p)
    PROVE  IInv' /\ Kept
<1>1. /\ p \in Audios /\ prod[p].pc = "archiving"
      /\ UNCHANGED <<status, script, audio, edit, work, encoders, sweep, restarts>>
      /\ CopyEnds(p) /\ To(p, "archived")
  BY DEF IInv, PcShape, ArchiveEnds, AudioPcs
<1>2. Moved(p, "archived") /\ prod'[p].copy = prod[p].copy
  <2>1. prod \in [Productions -> ProdRec] /\ "archived" \in Pcs
    BY DEF IInv, TypeOK, ProdRec, Pcs, Working
  <2> QED BY <1>1, <2>1, ToFacts
<1>3. /\ archive' \in [Contents -> {"none", "torn", "whole"} \cup Audios]
      /\ \A s \in Contents : archive'[s] = IF archive[s] = p THEN "whole" ELSE archive[s]
      /\ aged' \subseteq Files
      /\ \A f \in aged' :
           f \in aged \/ (f \in Contents /\ archive[f] = p /\ prod[p].copy.of \in aged)
      /\ Exists => \A s \in Takes : s \in aged' => s \in aged \/ audio.path = "work"
  BY <1>1, CopyEndsFacts
<1>4. /\ Exists' = Exists
      /\ Exists => \A q \in Productions \ {p} : prod[q].pc \notin AudioPcs
      /\ Exists => \A q \in Productions \ {p} : prod'[q].pc \notin AudioPcs
      /\ ActiveOwnsStatus' /\ ReadShape'
      /\ \A q \in Productions : /\ prod'[q].pc \in {"checking", "generating"} => q \in Scripts
                                /\ prod'[q].pc \in AudioPcs => q \in Audios
  <2>1. "archiving" \in AudioPcs /\ "archived" \in AudioPcs
    BY DEF AudioPcs
  <2> QED BY <1>1, <1>2, <2>1, WorkStep
<1>5. TypeOK'
  BY <1>1, <1>2, <1>3 DEF IInv, TypeOK, ProdRec, Pcs, Moved
<1>6. \A s \in Contents, q \in Audios : archive'[s] = q => archive[s] = q /\ q # p
  BY <1>3, Names DEF Productions
<1>7. PcShape'
  <2>1. \A q \in Audios, s \in Contents :
          archive'[s] = q => prod'[q].pc \in {"archiving", "copying", "cancelling", "over"}
    BY <1>2, <1>6 DEF IInv, PcShape, Moved, Productions
  <2> QED BY <1>4, <2>1 DEF PcShape
<1>8. "mix" \in aged' <=> "mix" \in aged
  <2>1. aged \subseteq aged'
    BY <1>1 DEF CopyEnds
  <2> QED BY <1>3, <2>1, Names
<1>9. LegacyShape' /\ MixShape'
  <2>1. Exists => \A q \in Productions : prod'[q].pc \notin Mixing \cup {"assembling"}
    BY <1>2, <1>4 DEF Moved, AudioPcs, Mixing
  <2> QED BY <1>1, <1>4, <2>1 DEF IInv, LegacyShape, MixShape
<1>10. CopyShape'
  <2>1. Exists => \A q \in Audios \ {p} : prod'[q].pc \notin AudioPcs
    BY <1>4 DEF Productions
  <2> QED BY <1>1, <1>2, <1>4, <2>1 DEF IInv, CopyShape, Moved, AudioPcs, Mixing
<1>11. OrphanShape'
  <2>1. \A q \in Audios : prod'[q].copy = prod[q].copy
    BY <1>2 DEF Moved, Productions
  <2>2. Exists /\ audio.path = "work" /\ "mix" \in aged => \A s \in Takes : archive'[s] \notin Audios
    <3>1. SUFFICES ASSUME Exists, audio.path = "work", "mix" \in aged,
                          NEW s \in Takes, NEW q \in Audios, archive'[s] = q
                   PROVE  FALSE
      OBVIOUS
    <3>2. s \in Contents /\ archive[s] = q /\ q # p /\ s = Legacy
      BY <1>6, <3>1, Names DEF IInv, OrphanShape
    <3>3. prod[p].copy.to = Legacy /\ archive[Legacy] = p
      BY <1>1, <3>1 DEF IInv, CopyShape
    <3> QED BY <3>2, <3>3
  <2> QED BY <1>1, <1>4, <1>6, <1>8, <2>1, <2>2, Names DEF IInv, OrphanShape
<1>12. Exists => \A s \in Named' \cap Takes :
                   s \in Named \/ (audio.path = "work" /\ archive'[s] = "whole")
  <2>1. SUFFICES ASSUME Exists, NEW s \in Named' \cap Takes, s \notin Named
                 PROVE  audio.path = "work" /\ archive'[s] = "whole"
    OBVIOUS
  <2>2. s = prod[p].copy.to
    BY <1>1, <1>2, <1>4, <2>1, NamedFacts, NamedFactsNext DEF Productions, Moved, AudioPcs, Mixing
  <2>3. audio.path = "work" /\ archive[s] = p
    BY <1>1, <2>1, <2>2, Names DEF IInv, CopyShape
  <2> QED BY <1>3, <2>1, <2>3, Names
<1>13. SweepShape'
  <2>1. Exists /\ sweep.on /\ audio.path = "work" => "mix" \in sweep.keep
    BY DEF IInv, LegacyShape
  <2> QED BY <1>1, <1>3, <1>4, <1>12, <2>1 DEF IInv, SweepShape
<1>14. Kept
  <2>1. \A s \in Takes : archive[s] = "whole" => archive'[s] = "whole"
    BY <1>3, Names DEF Productions
  <2> QED BY <1>4, <1>12, <2>1 DEF Kept
<1> QED BY <1>4, <1>5, <1>7, <1>9, <1>10, <1>11, <1>13, <1>14 DEF IInv

LEMMA ArchivedStep ==
    ASSUME IInv, NEW p \in Productions, Archived(p)
    PROVE  IInv' /\ Kept
<1>1. /\ p \in Audios /\ prod[p].pc = "archived" /\ To(p, "assembling")
      /\ UNCHANGED <<status, script, edit, restarts>> /\ UNCHANGED files
      /\ audio' = IF Exists
                  THEN [path |-> "archive", sha |-> prod[p].copy.to, rev |-> audio.rev]
                  ELSE audio
  BY DEF IInv, PcShape, Archived, AudioPcs
<1>2. Moved(p, "assembling") /\ prod'[p].copy = prod[p].copy
  <2>1. prod \in [Productions -> ProdRec] /\ "assembling" \in Pcs
    BY DEF IInv, TypeOK, ProdRec, Pcs, Working
  <2> QED BY <1>1, <2>1, ToFacts
<1>3. /\ Exists' = Exists
      /\ Exists => \A q \in Productions \ {p} : prod[q].pc \notin AudioPcs
      /\ Exists => \A q \in Productions \ {p} : prod'[q].pc \notin AudioPcs
      /\ ActiveOwnsStatus' /\ ReadShape'
      /\ \A q \in Productions : /\ prod'[q].pc \in {"checking", "generating"} => q \in Scripts
                                /\ prod'[q].pc \in AudioPcs => q \in Audios
  <2>1. "archived" \in AudioPcs /\ "assembling" \in AudioPcs
    BY DEF AudioPcs
  <2> QED BY <1>1, <1>2, <2>1, WorkStep
<1>4. /\ audio \in AudioRec /\ audio' \in AudioRec
      /\ Exists => audio'.path = "archive" /\ audio'.sha = prod[p].copy.to
      /\ audio'.path = "archive" => audio'.sha \in Contents
  <2>1. audio \in AudioRec /\ (audio.path = "archive" => audio.sha \in Contents)
    BY DEF IInv, TypeOK, AudioRec, LegacyShape
  <2>2. Exists => prod[p].copy.to \in Contents
    BY <1>1 DEF IInv, CopyShape
  <2> QED BY <1>1, <2>1, <2>2 DEF AudioRec
<1>5. TypeOK'
  BY <1>1, <1>2, <1>4 DEF IInv, TypeOK, files, ProdRec, Pcs, Moved, AudioRec
<1>6. PcShape'
  <2>1. \A q \in Audios, s \in Contents :
          archive'[s] = q => prod'[q].pc \in {"archiving", "copying", "cancelling", "over"}
    BY <1>1, <1>2 DEF IInv, PcShape, Moved, Productions, files
  <2> QED BY <1>3, <2>1 DEF PcShape
<1>7. LegacyShape' /\ MixShape'
  <2>1. Exists => \A q \in Productions : prod'[q].pc \notin Mixing
    BY <1>2, <1>3 DEF Moved, AudioPcs, Mixing
  <2> QED BY <1>3, <1>4, <2>1 DEF LegacyShape, MixShape
<1>8. Exists => \A q \in Audios : prod'[q].pc \notin {"archiving", "archived"} \cup Mixing
  BY <1>2, <1>3 DEF Moved, AudioPcs, Mixing, Productions
<1>9. CopyShape'
  BY <1>3, <1>8 DEF CopyShape, Mixing
<1>10. OrphanShape'
  <2>1. \A q \in Audios : prod'[q].copy = prod[q].copy
    BY <1>2 DEF Moved, Productions
  <2>2. Exists => \A s \in Takes, q \in Audios : archive[s] = q => "mix" \notin aged
    BY <1>1 DEF IInv, OrphanShape
  <2> QED BY <1>1, <1>3, <1>8, <2>1, <2>2 DEF IInv, OrphanShape, files
<1>11. Exists => Named' \subseteq Named
  <2>1. SUFFICES ASSUME Exists, NEW s \in Named' PROVE s \in Named
    OBVIOUS
  <2>2. s = prod[p].copy.to
    BY <1>4, <1>8, <2>1, NamedFactsNext DEF Mixing
  <2> QED BY <1>1, <2>2, NamedFacts
<1>12. SweepShape' /\ Kept
  BY <1>1, <1>3, <1>11 DEF IInv, SweepShape, files, Kept
<1> QED BY <1>3, <1>5, <1>6, <1>7, <1>9, <1>10, <1>12 DEF IInv

\* ffmpeg truncates the mix file, and with it ends what is being copied from it.
LEMMA MixStep ==
    ASSUME IInv, NEW p \in Productions, Mix(p)
    PROVE  IInv' /\ Kept
<1>1. /\ p \in Audios /\ prod[p].pc = "assembling" /\ To(p, "mixing")
      /\ UNCHANGED <<status, script, audio, edit, sweep, restarts>>
      /\ work' \in {"partial", "torn"} /\ encoders' = encoders \cup {p}
      /\ aged' = aged \ {"mix"}
  BY DEF IInv, PcShape, Mix, AudioPcs
<1>2. Moved(p, "mixing") /\ prod'[p].copy = prod[p].copy
  <2>1. prod \in [Productions -> ProdRec] /\ "mixing" \in Pcs
    BY DEF IInv, TypeOK, ProdRec, Pcs, Working
  <2> QED BY <1>1, <2>1, ToFacts
<1>3. /\ archive' \in [Contents -> {"none", "torn", "whole"} \cup Audios]
      /\ \A s \in Contents :
           archive'[s] = archive[s] \/ (archive[s] \in Audios /\ archive'[s] = "torn")
  <2>1. archive \in [Contents -> {"none", "torn", "whole"} \cup Audios]
    BY DEF IInv, TypeOK
  <2>2. \A s \in Contents : \A q : s \in Written(q) => archive[s] = q
    BY DEF Written
  <2> QED BY <2>1, <2>2 DEF Mix
<1>4. /\ Exists' = Exists
      /\ Exists => \A q \in Productions \ {p} : prod[q].pc \notin AudioPcs
      /\ Exists => \A q \in Productions \ {p} : prod'[q].pc \notin AudioPcs
      /\ ActiveOwnsStatus' /\ ReadShape'
      /\ \A q \in Productions : /\ prod'[q].pc \in {"checking", "generating"} => q \in Scripts
                                /\ prod'[q].pc \in AudioPcs => q \in Audios
  <2>1. "assembling" \in AudioPcs /\ "mixing" \in AudioPcs
    BY DEF AudioPcs, Mixing
  <2> QED BY <1>1, <1>2, <2>1, WorkStep
<1>5. TypeOK'
  BY <1>1, <1>2, <1>3 DEF IInv, TypeOK, ProdRec, Pcs, Moved, Contents
<1>6. \A s \in Contents, q \in Audios : archive'[s] = q => archive[s] = q
  BY <1>3, Names DEF Productions
<1>7. PcShape'
  <2>1. \A q \in Audios, s \in Contents :
          archive'[s] = q => prod'[q].pc \in {"archiving", "copying", "cancelling", "over"}
    BY <1>1, <1>2, <1>6 DEF IInv, PcShape, Moved, Productions
  <2> QED BY <1>4, <2>1 DEF PcShape
<1>8. Exists => audio.path # "work"
  BY <1>1 DEF IInv, LegacyShape
<1>9. "mix" \notin aged'
  BY <1>1
<1>10. LegacyShape' /\ MixShape'
  BY <1>1, <1>4, <1>8, <1>9 DEF IInv, LegacyShape, MixShape
<1>11. Exists => \A q \in Audios :
                   prod'[q].pc \notin {"archiving", "archived", "copying", "publishing"}
  BY <1>2, <1>4 DEF Moved, AudioPcs, Mixing, Productions
<1>12. CopyShape'
  BY <1>4, <1>11 DEF CopyShape
<1>13. OrphanShape'
  <2>1. \A q \in Audios : prod'[q].copy = prod[q].copy
    BY <1>2 DEF Moved, Productions
  <2> QED BY <1>4, <1>6, <1>9, <2>1, Names DEF IInv, OrphanShape
<1>14. Exists => Named' \subseteq Named
  BY <1>1, <1>11, NamedFacts, NamedFactsNext
<1>15. SweepShape'
  BY <1>1, <1>4, <1>14 DEF IInv, SweepShape
<1>16. Kept
  <2>1. \A s \in Takes : archive[s] = "whole" => archive'[s] = "whole"
    BY <1>3, Names DEF Productions
  <2> QED BY <1>4, <1>14, <2>1 DEF Kept
<1> QED BY <1>4, <1>5, <1>7, <1>10, <1>12, <1>13, <1>15, <1>16 DEF IInv

LEMMA MixedStep ==
    ASSUME IInv, NEW p \in Productions, Mixed(p)
    PROVE  IInv' /\ Kept
<1>1. /\ p \in Audios /\ prod[p].pc = "mixing" /\ To(p, "mixed")
      /\ UNCHANGED <<status, script, audio, edit, archive, aged, sweep, restarts>>
      /\ work' \in Takes \cup {work} /\ encoders' \subseteq encoders
  BY DEF IInv, PcShape, Mixed, Encoded, AudioPcs, Mixing
<1>2. Moved(p, "mixed") /\ prod'[p].copy = prod[p].copy
  <2>1. prod \in [Productions -> ProdRec] /\ "mixed" \in Pcs
    BY DEF IInv, TypeOK, ProdRec, Pcs, Working
  <2> QED BY <1>1, <2>1, ToFacts
<1>3. /\ Exists' = Exists
      /\ Exists => \A q \in Productions \ {p} : prod[q].pc \notin AudioPcs
      /\ Exists => \A q \in Productions \ {p} : prod'[q].pc \notin AudioPcs
      /\ ActiveOwnsStatus' /\ ReadShape'
      /\ \A q \in Productions : /\ prod'[q].pc \in {"checking", "generating"} => q \in Scripts
                                /\ prod'[q].pc \in AudioPcs => q \in Audios
  <2>1. "mixing" \in AudioPcs /\ "mixed" \in AudioPcs
    BY DEF AudioPcs, Mixing
  <2> QED BY <1>1, <1>2, <2>1, WorkStep
<1>4. TypeOK'
  BY <1>1, <1>2 DEF IInv, TypeOK, ProdRec, Pcs, Moved, Contents
<1>5. PcShape'
  <2>1. \A q \in Audios, s \in Contents :
          archive'[s] = q => prod'[q].pc \in {"archiving", "copying", "cancelling", "over"}
    BY <1>1, <1>2 DEF IInv, PcShape, Moved, Productions
  <2> QED BY <1>3, <2>1 DEF PcShape
<1>6. Exists => audio.path # "work" /\ "mix" \notin aged
  BY <1>1 DEF IInv, LegacyShape, MixShape, Mixing
<1>7. LegacyShape' /\ MixShape'
  BY <1>1, <1>3, <1>6 DEF IInv, LegacyShape, MixShape
<1>8. Exists => \A q \in Audios :
                  prod'[q].pc \notin {"archiving", "archived", "copying", "publishing"}
  BY <1>2, <1>3 DEF Moved, AudioPcs, Mixing, Productions
<1>9. CopyShape'
  BY <1>3, <1>8 DEF CopyShape
<1>10. OrphanShape'
  <2>1. \A q \in Audios : prod'[q].copy = prod[q].copy
    BY <1>2 DEF Moved, Productions
  <2> QED BY <1>1, <1>3, <1>6, <2>1 DEF IInv, OrphanShape
<1>11. Exists => Named' \subseteq Named
  BY <1>1, <1>8, NamedFacts, NamedFactsNext
<1>12. SweepShape' /\ Kept
  BY <1>1, <1>3, <1>11 DEF IInv, SweepShape, Kept
<1> QED BY <1>3, <1>4, <1>5, <1>7, <1>9, <1>10, <1>12 DEF IInv

\* The copy of the new mix begins; a file of the same bytes is written over.
LEMMA CopyMixStep ==
    ASSUME IInv, NEW p \in Productions, CopyMix(p)
    PROVE  IInv' /\ Kept
<1>1. /\ p \in Audios /\ prod[p].pc = "mixed" /\ work \in Contents
      /\ UNCHANGED <<status, script, audio, edit, work, encoders, sweep, restarts>>
      /\ CopyBegins(p, "mix", work, "copying")
  BY DEF IInv, PcShape, CopyMix, AudioPcs, Mixing
<1>2. /\ Moved(p, "copying") /\ prod'[p].copy.of = "mix" /\ prod'[p].copy.to = work
      /\ archive' \in [Contents -> {"none", "torn", "whole"} \cup Audios]
      /\ archive'[work] = p
      /\ \A s \in Contents \ {work} : archive'[s] = archive[s]
      /\ aged' = aged \ {work}
  <2>1. prod \in [Productions -> ProdRec] /\ "copying" \in Pcs
    BY DEF IInv, TypeOK, ProdRec, Pcs, Working
  <2>2. archive \in [Contents -> {"none", "torn", "whole"} \cup Audios]
    BY DEF IInv, TypeOK
  <2> QED BY <1>1, <2>1, <2>2, Names, BeginFacts
<1>3. /\ Exists' = Exists
      /\ Exists => \A q \in Productions \ {p} : prod[q].pc \notin AudioPcs
      /\ Exists => \A q \in Productions \ {p} : prod'[q].pc \notin AudioPcs
      /\ ActiveOwnsStatus' /\ ReadShape'
      /\ \A q \in Productions : /\ prod'[q].pc \in {"checking", "generating"} => q \in Scripts
                                /\ prod'[q].pc \in AudioPcs => q \in Audios
  <2>1. "mixed" \in AudioPcs /\ "copying" \in AudioPcs
    BY DEF AudioPcs, Mixing
  <2> QED BY <1>1, <1>2, <2>1, WorkStep
<1>4. TypeOK'
  BY <1>1, <1>2 DEF IInv, TypeOK, ProdRec, Pcs, Moved
<1>5. \A s \in Contents, q \in Audios :
        archive'[s] = q => (s = work /\ q = p) \/ (archive[s] = q /\ q # p)
  <2>1. \A s \in Contents : archive[s] # p
    BY <1>1 DEF IInv, PcShape
  <2> QED BY <1>1, <1>2, <2>1
<1>6. PcShape'
  <2>1. \A q \in Audios, s \in Contents :
          archive'[s] = q => prod'[q].pc \in {"archiving", "copying", "cancelling", "over"}
    BY <1>2, <1>5 DEF IInv, PcShape, Moved, Productions
  <2> QED BY <1>3, <2>1 DEF PcShape
<1>7. Exists => audio.path # "work" /\ "mix" \notin aged
  BY <1>1 DEF IInv, LegacyShape, MixShape, Mixing
<1>8. LegacyShape' /\ MixShape'
  BY <1>1, <1>2, <1>3, <1>7 DEF IInv, LegacyShape, MixShape
<1>9. Exists => \A q \in Audios :
                  prod'[q].pc \notin {"archiving", "archived", "publishing"}
  BY <1>2, <1>3 DEF Moved, AudioPcs, Mixing, Productions
<1>10. CopyShape'
  <2>1. Exists => \A q \in Audios \ {p} : prod'[q].pc # "copying"
    BY <1>3 DEF AudioPcs, Mixing, Productions
  <2> QED BY <1>1, <1>2, <1>3, <1>9, <2>1 DEF CopyShape
<1>11. OrphanShape'
  <2>1. \A q \in Audios \ {p} : prod'[q] = prod[q]
    BY <1>2 DEF Moved, Productions
  <2>2. Exists => \A s \in Takes, q \in Audios : archive'[s] = q => prod'[q].copy.of = "mix"
    BY <1>2, <1>5, <2>1, Names DEF IInv, OrphanShape
  <2> QED BY <1>1, <1>2, <1>3, <1>7, <2>2 DEF OrphanShape
<1>12. Exists => Named' \subseteq Named
  BY <1>1, <1>9, NamedFacts, NamedFactsNext
<1>13. SweepShape'
  BY <1>1, <1>2, <1>3, <1>12 DEF IInv, SweepShape
<1>14. Kept
  BY <1>1, <1>2, <1>3, <1>12, Names DEF Kept
<1> QED BY <1>3, <1>4, <1>6, <1>8, <1>10, <1>11, <1>13, <1>14 DEF IInv

LEMMA CopyMixEndsStep ==
    ASSUME IInv, NEW p \in Productions, CopyMixEnds(p)
    PROVE  IInv' /\ Kept
<1>1. /\ p \in Audios /\ prod[p].pc = "copying"
      /\ UNCHANGED <<status, script, audio, edit, work, encoders, sweep, restarts>>
      /\ CopyEnds(p) /\ To(p, "publishing")
  BY DEF IInv, PcShape, CopyMixEnds, AudioPcs, Mixing
<1>2. Moved(p, "publishing") /\ prod'[p].copy = prod[p].copy
  <2>1. prod \in [Productions -> ProdRec] /\ "publishing" \in Pcs
    BY DEF IInv, TypeOK, ProdRec, Pcs, Working
  <2> QED BY <1>1, <2>1, ToFacts
<1>3. /\ archive' \in [Contents -> {"none", "torn", "whole"} \cup Audios]
      /\ \A s \in Contents : archive'[s] = IF archive[s] = p THEN "whole" ELSE archive[s]
      /\ aged' \subseteq Files
      /\ \A f \in aged' :
           f \in aged \/ (f \in Contents /\ archive[f] = p /\ prod[p].copy.of \in aged)
  BY <1>1, CopyEndsFacts
<1>4. /\ Exists' = Exists
      /\ Exists => \A q \in Productions \ {p} : prod[q].pc \notin AudioPcs
      /\ Exists => \A q \in Productions \ {p} : prod'[q].pc \notin AudioPcs
      /\ ActiveOwnsStatus' /\ ReadShape'
      /\ \A q \in Productions : /\ prod'[q].pc \in {"checking", "generating"} => q \in Scripts
                                /\ prod'[q].pc \in AudioPcs => q \in Audios
  <2>1. "copying" \in AudioPcs /\ "publishing" \in AudioPcs
    BY DEF AudioPcs, Mixing
  <2> QED BY <1>1, <1>2, <2>1, WorkStep
<1>5. TypeOK'
  BY <1>1, <1>2, <1>3 DEF IInv, TypeOK, ProdRec, Pcs, Moved
<1>6. \A s \in Contents, q \in Audios : archive'[s] = q => archive[s] = q
  BY <1>3, Names DEF Productions
<1>7. PcShape'
  <2>1. \A s \in Contents : archive'[s] # p
    BY <1>3, Names DEF Productions
  <2>2. \A q \in Audios, s \in Contents :
          archive'[s] = q => prod'[q].pc \in {"archiving", "copying", "cancelling", "over"}
    BY <1>2, <1>6, <2>1 DEF IInv, PcShape, Moved, Productions
  <2> QED BY <1>4, <2>2 DEF PcShape
<1>8. Exists => /\ audio.path # "work" /\ "mix" \notin aged /\ prod[p].copy.of = "mix"
                /\ archive[prod[p].copy.to] = p /\ prod[p].copy.to \in Contents
                /\ prod[p].copy.to \notin aged
  BY <1>1 DEF IInv, LegacyShape, MixShape, CopyShape, Mixing
<1>9. Exists => aged' \subseteq aged
  BY <1>3, <1>8
<1>10. LegacyShape' /\ MixShape'
  BY <1>1, <1>4, <1>8, <1>9 DEF IInv, LegacyShape, MixShape
<1>11. Exists => \A q \in Audios :
                   /\ prod'[q].pc \notin {"archiving", "archived", "copying"}
                   /\ prod'[q].pc = "publishing" => q = p
  BY <1>2, <1>4 DEF Moved, AudioPcs, Mixing, Productions
<1>12. CopyShape'
  <2>1. Exists => archive'[prod[p].copy.to] \notin Audios
    BY <1>3, <1>8, Names DEF Productions
  <2> QED BY <1>2, <1>4, <1>8, <1>9, <1>11, <2>1 DEF CopyShape
<1>13. OrphanShape'
  <2>1. \A q \in Audios : prod'[q].copy = prod[q].copy
    BY <1>2 DEF Moved, Productions
  <2> QED BY <1>1, <1>4, <1>6, <1>8, <1>9, <2>1, Names DEF IInv, OrphanShape
<1>14. Exists => \A s \in Named' : s \in Named \/ s = prod[p].copy.to
  BY <1>1, <1>2, <1>11, NamedFacts, NamedFactsNext
<1>15. SweepShape'
  BY <1>1, <1>4, <1>8, <1>9, <1>14 DEF IInv, SweepShape
<1>16. Kept
  <2>1. \A s \in Takes : archive[s] = "whole" => archive'[s] = "whole"
    BY <1>3, Names DEF Productions
  <2>2. Exists => archive'[prod[p].copy.to] = "whole"
    BY <1>3, <1>8
  <2> QED BY <1>4, <1>14, <2>1, <2>2 DEF Kept
<1> QED BY <1>4, <1>5, <1>7, <1>10, <1>12, <1>13, <1>15, <1>16 DEF IInv

\* An encoder without a worker, while another production may be anywhere.
LEMMA OrphanExitsStep ==
    ASSUME IInv, NEW p \in Productions, OrphanExits(p)
    PROVE  IInv' /\ Kept
<1>1. /\ UNCHANGED <<status, script, audio, prod, edit, archive, aged, sweep, restarts>>
      /\ work' \in Takes \cup {work}
      /\ p \in encoders /\ encoders' = encoders \ {p}
  BY DEF OrphanExits, Encoded
<1>2. TypeOK'
  BY <1>1 DEF IInv, TypeOK, Contents
<1>3. Exists' = Exists /\ Named' = Named /\ \A q \in Productions : Occupied(q)' = Occupied(q)
  BY <1>1 DEF Exists, Occupied, Named
<1>4. PcShape' /\ ActiveOwnsStatus' /\ ReadShape' /\ MixShape' /\ CopyShape' /\ OrphanShape'
  BY <1>1, <1>3 DEF IInv, PcShape, ActiveOwnsStatus, ReadShape, MixShape, CopyShape, OrphanShape,
                    Productions
<1>5. LegacyShape'
  BY <1>1, <1>3 DEF IInv, LegacyShape
<1>6. SweepShape' /\ Kept
  BY <1>1, <1>3 DEF IInv, SweepShape, Kept
<1> QED BY <1>2, <1>4, <1>5, <1>6 DEF IInv

\* The copy of a worker that is gone comes to its end, or breaks off.
LEMMA OrphanCopyEndsStep ==
    ASSUME IInv, NEW p \in Productions, OrphanCopyEnds(p)
    PROVE  IInv' /\ Kept
<1>1. /\ p \in Audios /\ prod[p].pc \notin Working
      /\ UNCHANGED <<status, script, audio, edit, work, encoders, sweep, restarts>>
      /\ prod' = [prod EXCEPT ![p].copy = NoCopy]
      /\ \/ CopyEnds(p)
         \/ CopyLeaves(p, "torn") /\ aged' = aged
  BY DEF OrphanCopyEnds
<1>2. /\ prod' \in [Productions -> ProdRec]
      /\ prod'[p].pc = prod[p].pc /\ prod'[p].read = prod[p].read
      /\ \A q \in Productions \ {p} : prod'[q] = prod[q]
  <2>1. prod \in [Productions -> ProdRec] /\ NoCopy \in CopyType
    BY Names DEF IInv, TypeOK, ProdRec, Pcs, NoCopy, CopyType
  <2> QED BY <1>1, <2>1 DEF ProdRec, Productions
<1>3. /\ archive' \in [Contents -> {"none", "torn", "whole"} \cup Audios]
      /\ \A s \in Contents :
           archive'[s] = archive[s] \/ (archive[s] = p /\ archive'[s] \in {"torn", "whole"})
      /\ \A s \in Contents : archive'[s] # p
  <2>1. archive \in [Contents -> {"none", "torn", "whole"} \cup Audios]
    BY DEF IInv, TypeOK
  <2>2. CASE CopyEnds(p)
    BY <1>1, <2>2, CopyEndsFacts, Names DEF Productions
  <2>3. CASE CopyLeaves(p, "torn")
    BY <1>1, <2>1, <2>3, LeavesFacts, Names DEF Productions
  <2> QED BY <1>1, <2>2, <2>3
<1>4. /\ aged' \subseteq Files
      /\ \A f \in aged' :
           f \in aged \/ (f \in Contents /\ archive[f] = p /\ prod[p].copy.of \in aged)
      /\ Exists => \A s \in Takes : s \in aged' => s \in aged \/ audio.path = "work"
  <2>1. CASE CopyEnds(p)
    BY <1>1, <2>1, CopyEndsFacts
  <2>2. CASE aged' = aged
    BY <2>2 DEF IInv, TypeOK
  <2> QED BY <1>1, <2>1, <2>2
<1>5. \A q \in Productions : prod'[q].pc = prod[q].pc /\ prod'[q].read = prod[q].read
  BY <1>2
<1>6. Exists' = Exists /\ \A q \in Productions : Occupied(q)' = Occupied(q)
  BY <1>1, <1>5 DEF Exists, Occupied
<1>7. TypeOK'
  BY <1>1, <1>2, <1>3, <1>4 DEF IInv, TypeOK, ProdRec, Pcs
<1>8. \A s \in Contents, q \in Audios : archive'[s] = q => archive[s] = q /\ q # p
  BY <1>3, Names DEF Productions
<1>9. PcShape'
  BY <1>5, <1>8 DEF IInv, PcShape, Productions
<1>10. ActiveOwnsStatus' /\ ReadShape'
  BY <1>1, <1>5, <1>6 DEF IInv, ActiveOwnsStatus, ReadShape, Productions
<1>11. "mix" \in aged' => "mix" \in aged
  BY <1>4, Names
<1>12. LegacyShape' /\ MixShape'
  BY <1>1, <1>5, <1>6, <1>11 DEF IInv, LegacyShape, MixShape
<1>13. CopyShape'
  <2>1. ASSUME NEW q \in Audios, Exists,
               prod[q].pc \in {"archiving", "archived", "copying", "publishing"}
        PROVE  /\ prod[q].pc \in {"archiving", "copying"} =>
                    archive'[prod[q].copy.to] = q /\ prod[q].copy.to \notin aged'
               /\ prod[q].pc = "publishing" =>
                    prod[q].copy.to \notin aged' /\ archive'[prod[q].copy.to] \notin Audios
               /\ prod'[q] = prod[q]
    <3>1. q # p /\ prod'[q] = prod[q]
      BY <1>1, <1>2, <2>1 DEF Working, Productions
    <3>2. /\ prod[q].copy.to \in Contents
          /\ prod[q].pc \in {"archiving", "copying"} => archive[prod[q].copy.to] = q
          /\ prod[q].pc = "publishing" => archive[prod[q].copy.to] \notin Audios
          /\ prod[q].pc # "archived" => prod[q].copy.to \notin aged
      BY <2>1 DEF IInv, CopyShape
    <3>3. archive[prod[q].copy.to] # p =>
            archive'[prod[q].copy.to] = archive[prod[q].copy.to]
      BY <1>3, <3>2
    <3>4. prod[q].copy.to \in aged' =>
            prod[q].copy.to \in aged \/ archive[prod[q].copy.to] = p
      BY <1>4
    <3> QED BY <1>1, <3>1, <3>2, <3>3, <3>4
  <2>2. \A q \in Audios : prod'[q].pc = prod[q].pc
    BY <1>5 DEF Productions
  <2>3. ASSUME NEW q \in Audios, Exists,
               prod'[q].pc \in {"archiving", "archived", "copying", "publishing"}
        PROVE  /\ prod'[q].pc \in {"archiving", "copying"} =>
                    archive'[prod'[q].copy.to] = q /\ prod'[q].copy.to \notin aged'
               /\ prod'[q].copy.to \in Contents
               /\ prod'[q].pc \in {"archiving", "archived"} =>
                    prod'[q].copy.to = IF audio'.path = "work" THEN Legacy ELSE "torn"
               /\ prod'[q].pc = "copying" => prod'[q].copy.of = "mix"
               /\ prod'[q].pc = "publishing" =>
                    prod'[q].copy.to \notin aged' /\ archive'[prod'[q].copy.to] \notin Audios
    <3>1. prod[q].pc \in {"archiving", "archived", "copying", "publishing"}
      BY <2>2, <2>3
    <3>2. prod'[q] = prod[q] /\ audio' = audio
      BY <1>1, <2>1, <2>3, <3>1
    <3>3. /\ prod[q].copy.to \in Contents
          /\ prod[q].pc \in {"archiving", "archived"} =>
               prod[q].copy.to = IF audio.path = "work" THEN Legacy ELSE "torn"
          /\ prod[q].pc = "copying" => prod[q].copy.of = "mix"
      BY <2>3, <3>1 DEF IInv, CopyShape
    <3> QED BY <2>1, <2>3, <3>1, <3>2, <3>3
  <2> QED BY <1>6, <2>3 DEF CopyShape
<1>14. OrphanShape'
  <2>1. \A s \in Takes, q \in Audios :
          archive'[s] = q => archive[s] = q /\ prod'[q] = prod[q]
    BY <1>2, <1>8, Names DEF Productions
  <2>2. Exists => \A s \in Takes, q \in Audios :
          archive'[s] = q =>
             /\ prod'[q].copy.of = "mix"
             /\ "mix" \in aged' => audio.path = "work" /\ s = Legacy
    BY <1>11, <2>1 DEF IInv, OrphanShape
  <2>3. Exists => \A q \in Audios :
          prod[q].pc = "archived" /\ audio.path = "work" /\ "mix" \in aged' =>
             \A s \in Takes : archive'[s] \notin Audios
    BY <1>11, <2>1 DEF IInv, OrphanShape
  <2>4. \A q \in Audios : prod'[q].pc = prod[q].pc
    BY <1>5 DEF Productions
  <2> QED BY <1>1, <1>6, <2>2, <2>3, <2>4 DEF OrphanShape
<1>15. Named' = Named
  <2>1. \A q \in Audios :
          /\ prod'[q].pc = prod[q].pc
          /\ prod[q].pc \in {"archived", "publishing"} => prod'[q].copy.to = prod[q].copy.to
    BY <1>1, <1>2 DEF Working, Productions
  <2>2. ASSUME NEW s PROVE s \in Named' <=> s \in Named
    BY <1>1, <2>1, NamedFacts, NamedFactsNext
  <2> QED BY <2>2
<1>16. SweepShape'
  <2>1. Exists /\ sweep.on /\ audio.path = "work" => "mix" \in sweep.keep
    BY DEF IInv, LegacyShape
  <2> QED BY <1>1, <1>4, <1>6, <1>15, <2>1 DEF IInv, SweepShape
<1>17. Kept
  <2>1. \A s \in Takes : archive[s] = "whole" => archive'[s] = "whole"
    BY <1>1, <1>3, Names DEF Productions
  <2> QED BY <1>15, <2>1 DEF Kept
<1> QED BY <1>7, <1>9, <1>10, <1>12, <1>13, <1>14, <1>16, <1>17 DEF IInv

LEMMA AudioReadyStep ==
    ASSUME IInv, NEW p \in Productions, AudioReady(p)
    PROVE  IInv' /\ Kept
<1>1. /\ p \in Audios /\ Occupied(p) /\ prod[p].pc = "publishing" /\ Over(p)
      /\ UNCHANGED <<script, edit, restarts>> /\ UNCHANGED files
      /\ status' = IF Exists THEN "ready" ELSE status
      /\ audio' = IF Exists
                  THEN [path |-> "archive", sha |-> prod[p].copy.to, rev |-> prod[p].read]
                  ELSE audio
  BY FilePcs DEF IInv, PcShape, AudioReady, AudioPcs, Mixing, Set
<1> prod \in [Productions -> ProdRec]
  BY DEF IInv, TypeOK, ProdRec, Pcs
<1>2. /\ prod' \in [Productions -> ProdRec] /\ prod'[p].pc = "over"
      /\ prod'[p].copy = prod[p].copy \/ Written(p) = {}
      /\ \A q \in Productions \ {p} : prod'[q] = prod[q]
  BY <1>1, OverFacts
<1>3. Exists' = Exists
  BY <1>1 DEF Exists
<1>4. Exists => \A q \in Productions : ~Occupied(q)' /\ prod'[q].pc \notin AudioPcs
  <2>1. Exists => \A q \in Productions \ {p} : ~Occupied(q) /\ prod[q].pc \notin AudioPcs
    BY <1>1, OneAtATime, FilePcs DEF IInv
  <2> QED BY <1>2, <2>1 DEF Occupied, Working, AudioPcs, Mixing
<1>5. /\ audio \in AudioRec /\ audio' \in AudioRec
      /\ Exists => audio'.path = "archive" /\ audio'.sha = prod[p].copy.to
      /\ audio'.path = "archive" => audio'.sha \in Contents
  <2>1. audio \in AudioRec /\ (audio.path = "archive" => audio.sha \in Contents)
    BY DEF IInv, TypeOK, AudioRec, LegacyShape
  <2>2. Exists => prod[p].copy.to \in Contents
    BY <1>1 DEF IInv, CopyShape
  <2>3. prod[p].read \in ScriptType
    BY <1>1 DEF ProdRec
  <2> QED BY <1>1, <2>1, <2>2, <2>3 DEF AudioRec
<1>6. TypeOK'
  BY <1>1, <1>2, <1>5 DEF IInv, TypeOK, files, ProdRec, Pcs, AudioRec
<1>7. \A s \in Contents : archive[s] # p
  BY <1>1 DEF IInv, PcShape
<1>8. PcShape'
  BY <1>1, <1>2, <1>7 DEF IInv, PcShape, files, Productions, AudioPcs, Mixing
<1>9. ActiveOwnsStatus' /\ ReadShape'
  BY <1>3, <1>4 DEF ActiveOwnsStatus, ReadShape, Productions
<1>10. LegacyShape' /\ MixShape' /\ CopyShape'
  BY <1>3, <1>4, <1>5 DEF LegacyShape, MixShape, CopyShape, AudioPcs, Mixing, Productions
<1>11. OrphanShape'
  <2>1. \A s \in Takes, q \in Audios : archive[s] = q => prod'[q] = prod[q]
    BY <1>2, <1>7, Names DEF Productions
  <2>2. Exists => "mix" \notin aged
    BY <1>1 DEF IInv, MixShape, Mixing
  <2> QED BY <1>1, <1>3, <2>1, <2>2 DEF IInv, OrphanShape, files
<1>12. Exists => Named' \subseteq Named
  <2>1. SUFFICES ASSUME Exists, NEW s \in Named' PROVE s \in Named
    OBVIOUS
  <2>2. s = prod[p].copy.to
    BY <1>4, <1>5, <2>1, NamedFactsNext DEF AudioPcs, Mixing, Productions
  <2> QED BY <1>1, <2>2, NamedFacts
<1>13. SweepShape' /\ Kept
  BY <1>1, <1>3, <1>12 DEF IInv, SweepShape, files, Kept
<1> QED BY <1>6, <1>8, <1>9, <1>10, <1>11, <1>13 DEF IInv

-----------------------------------------------------------------------------
(* Deletion, cleanup, restart. *)

\* Without the podcast nothing is promised of its files.
LEMMA DeleteStep ==
    ASSUME IInv, Delete
    PROVE  IInv' /\ Kept
<1>1. /\ UNCHANGED <<prod, edit, encoders, sweep, restarts>>
      /\ status' = "deleted" /\ script' = NoScript /\ audio' = NoFile
      /\ work' \in {work, NoAudio} /\ aged' \subseteq aged
      /\ archive' = archive \/ archive' = [archive EXCEPT ![audio.sha] = "none"]
  BY DEF Delete
<1>2. /\ archive' \in [Contents -> {"none", "torn", "whole"} \cup Audios]
      /\ \A s \in Contents : archive'[s] \in {archive[s], "none"}
  BY <1>1 DEF IInv, TypeOK
<1>3. ~Exists'
  BY <1>1 DEF Exists
<1>4. TypeOK'
  <2>1. NoScript \in ScriptType /\ NoFile \in AudioRec
    BY DEF NoScript, NoFile, ScriptType, AudioRec
  <2> QED BY <1>1, <1>2, <2>1 DEF IInv, TypeOK, AudioRec
<1>5. PcShape'
  BY <1>1, <1>2, Names DEF IInv, PcShape, Productions
<1>6. LegacyShape'
  BY <1>1, <1>3 DEF LegacyShape, NoFile
<1> QED BY <1>3, <1>4, <1>5, <1>6 DEF IInv, ActiveOwnsStatus, ReadShape, MixShape, CopyShape,
                                      OrphanShape, SweepShape, Kept

LEMMA SweepBeginsStep ==
    ASSUME IInv, SweepBegins
    PROVE  IInv' /\ Kept
<1> DEFINE keep == IF ~Exists THEN {}
                   ELSE CASE audio.path = "archive" -> {audio.sha}
                          [] audio.path = "work" -> {"mix"}
                          [] OTHER -> {}
<1>1. /\ UNCHANGED <<status, script, audio, prod, edit, work, encoders, archive, aged, restarts>>
      /\ sweep' = [on |-> TRUE, keep |-> keep]
  BY DEF SweepBegins
<1>2. /\ Exists /\ audio.path = "archive" => keep = {audio.sha}
      /\ Exists /\ audio.path = "work" => keep = {"mix"}
  OBVIOUS
<1>3. keep \subseteq Files
  <2>1. audio.path \in {"none", "work", "archive"}
    BY DEF IInv, TypeOK
  <2>2. audio.path = "archive" => audio.sha \in Contents
    BY DEF IInv, LegacyShape
  <2> QED BY <2>1, <2>2, Names
<1> HIDE DEF keep
<1>4. TypeOK'
  BY <1>1, <1>3 DEF IInv, TypeOK
<1>5. Exists' = Exists /\ Named' = Named /\ \A q \in Productions : Occupied(q)' = Occupied(q)
  BY <1>1 DEF Exists, Occupied, Named
<1>6. PcShape' /\ ActiveOwnsStatus' /\ ReadShape' /\ MixShape' /\ CopyShape' /\ OrphanShape'
  BY <1>1, <1>5 DEF IInv, PcShape, ActiveOwnsStatus, ReadShape, MixShape, CopyShape, OrphanShape,
                    Productions
<1>7. LegacyShape'
  BY <1>1, <1>2, <1>5 DEF IInv, LegacyShape
<1>8. SweepShape'
  <2>1. SUFFICES ASSUME Exists, "mix" \notin keep, NEW s \in Named \cap Takes
                 PROVE  s \notin aged \ keep
    BY <1>1, <1>5 DEF SweepShape
  <2>2. audio.path # "work"
    BY <1>2, <2>1
  <2>3. CASE audio.path = "archive" /\ s = audio.sha
    BY <1>2, <2>1, <2>3
  <2>4. ASSUME NEW p \in Audios, prod[p].pc \in {"archived", "publishing"}, s = prod[p].copy.to
        PROVE  s \notin aged
    BY <2>1, <2>2, <2>4, Names DEF IInv, CopyShape
  <2> QED BY <2>1, <2>3, <2>4, NamedFacts
<1>9. Kept
  BY <1>1, <1>5, KeptSame
<1> QED BY <1>4, <1>6, <1>7, <1>8, <1>9 DEF IInv

LEMMA SweepEndsStep ==
    ASSUME IInv, SweepEnds
    PROVE  IInv' /\ Kept
<1> DEFINE rm == aged \ sweep.keep
<1>1. /\ UNCHANGED <<status, script, audio, prod, edit, encoders, restarts>>
      /\ sweep.on /\ archive' = [s \in Contents |-> IF s \in rm THEN "none" ELSE archive[s]]
      /\ aged' = aged \ rm /\ work' = IF "mix" \in rm THEN NoAudio ELSE work
      /\ sweep' = [on |-> FALSE, keep |-> {}]
  BY DEF SweepEnds, Remove
<1>2. /\ archive' \in [Contents -> {"none", "torn", "whole"} \cup Audios]
      /\ \A s \in Contents : archive'[s] = IF s \in rm THEN "none" ELSE archive[s]
  BY <1>1 DEF IInv, TypeOK
<1> rm \subseteq aged
  OBVIOUS
<1>3. Exists /\ "mix" \notin sweep.keep => \A s \in Named \cap Takes : s \notin rm
  BY <1>1 DEF IInv, SweepShape
<1>4. Exists /\ audio.path = "work" => "mix" \notin rm
  BY <1>1 DEF IInv, LegacyShape
<1>5. TypeOK'
  BY <1>1, <1>2 DEF IInv, TypeOK
<1> HIDE DEF rm
<1>6. Exists' = Exists /\ Named' = Named /\ \A q \in Productions : Occupied(q)' = Occupied(q)
  BY <1>1 DEF Exists, Occupied, Named
<1>7. ActiveOwnsStatus' /\ ReadShape' /\ MixShape'
  BY <1>1, <1>6 DEF IInv, ActiveOwnsStatus, ReadShape, MixShape, Productions
<1>8. \A s \in Contents, q \in Audios : archive'[s] = q => archive[s] = q
  BY <1>2, Names DEF Productions
<1>9. PcShape'
  BY <1>1, <1>8 DEF IInv, PcShape
<1>10. LegacyShape'
  BY <1>1, <1>4, <1>6 DEF IInv, LegacyShape
<1>11. CopyShape'
  BY <1>1, <1>2, <1>6 DEF IInv, CopyShape
<1>12. OrphanShape'
  BY <1>1, <1>6, <1>8, Names DEF IInv, OrphanShape
<1>13. SweepShape'
  BY <1>1 DEF SweepShape
<1>14. Kept
  BY <1>2, <1>3, <1>6, Names DEF Kept
<1> QED BY <1>5, <1>7, <1>9, <1>10, <1>11, <1>12, <1>13, <1>14 DEF IInv

LEMMA DayStep ==
    ASSUME IInv, Day
    PROVE  IInv' /\ Kept
<1>1. /\ UNCHANGED <<status, script, audio, prod, edit, work, encoders, archive, sweep, restarts>>
      /\ ~sweep.on /\ \A p \in Productions : prod[p].pc \notin Working
      /\ \A s \in Contents : archive[s] \notin Audios
      /\ aged' \subseteq Files
  BY Names DEF Day
<1>2. TypeOK'
  BY <1>1 DEF IInv, TypeOK
<1>3. Exists' = Exists /\ Named' = Named /\ \A q \in Productions : Occupied(q)' = Occupied(q)
  BY <1>1 DEF Exists, Occupied, Named
<1>4. PcShape' /\ ActiveOwnsStatus' /\ ReadShape' /\ LegacyShape'
  BY <1>1, <1>3 DEF IInv, PcShape, ActiveOwnsStatus, ReadShape, LegacyShape, Productions
<1>5. MixShape' /\ CopyShape'
  BY <1>1 DEF MixShape, CopyShape, Mixing, Working, Productions
<1>6. OrphanShape'
  BY <1>1, Names DEF OrphanShape
<1>7. SweepShape' /\ Kept
  BY <1>1, <1>3 DEF SweepShape, Kept
<1> QED BY <1>2, <1>4, <1>5, <1>6, <1>7 DEF IInv

\* A restart breaks off every copy, and ends every worker and sweep.
LEMMA RestartStep ==
    ASSUME IInv, Restart
    PROVE  IInv' /\ Kept
<1>1. /\ UNCHANGED <<status, script, audio, work, aged>>
      /\ restarts' \in 0..MaxRestarts
      /\ encoders' = {} /\ sweep' = [on |-> FALSE, keep |-> {}]
  <2>1. restarts \in 0..MaxRestarts /\ MaxRestarts \in Nat
    BY ProductionAssumption DEF IInv, TypeOK
  <2> QED BY <2>1 DEF Restart
<1>2. /\ archive' \in [Contents -> {"none", "torn", "whole"} \cup Audios]
      /\ \A s \in Contents : /\ archive'[s] \notin Audios
                             /\ archive[s] = "whole" => archive'[s] = "whole"
  <2>1. /\ archive \in [Contents -> {"none", "torn", "whole"} \cup Audios]
        /\ archive' = [s \in Contents |-> IF archive[s] \in Audios THEN "torn" ELSE archive[s]]
    BY DEF IInv, TypeOK, Restart
  <2> QED BY <2>1, Names DEF Productions
<1>3. /\ prod \in [Productions -> ProdRec] /\ edit \in [Editors -> EditRec]
      /\ [pc |-> "over", read |-> NoScript, copy |-> NoCopy] \in ProdRec /\ Done \in EditRec
  BY Names DEF IInv, TypeOK, ProdRec, Pcs, EditRec, NoScript, NoCopy, CopyType, ScriptType, Done
<1>4. /\ prod' \in [Productions -> ProdRec]
      /\ \A p \in Productions : prod'[p].pc \in {"new", "over"}
  <2>1. prod' = [p \in Productions |->
                   IF prod[p].pc = "new" THEN prod[p]
                   ELSE [pc |-> "over", read |-> NoScript, copy |-> NoCopy]]
    BY DEF Restart
  <2> QED BY <1>3, <2>1
<1>5. edit' \in [Editors -> EditRec]
  <2>1. edit' = [e \in Editors |-> IF edit[e].pc = "new" THEN edit[e] ELSE Done]
    BY DEF Restart
  <2> QED BY <1>3, <2>1
<1>6. TypeOK'
  BY <1>1, <1>2, <1>4, <1>5 DEF IInv, TypeOK, ProdRec, Pcs, EditRec
<1>7. /\ Exists' = Exists /\ \A p \in Productions : ~Occupied(p)'
      /\ \A p \in Productions : prod'[p].pc \notin AudioPcs \cup {"checking", "generating"}
  BY <1>1, <1>4 DEF Exists, Occupied, Working, AudioPcs, Mixing
<1>8. PcShape'
  BY <1>2, <1>7 DEF PcShape
<1>9. ActiveOwnsStatus' /\ ReadShape' /\ MixShape' /\ CopyShape'
  BY <1>7 DEF ActiveOwnsStatus, ReadShape, MixShape, CopyShape, Productions, AudioPcs, Mixing
<1>10. LegacyShape'
  BY <1>1, <1>7 DEF IInv, LegacyShape, AudioPcs
<1>11. OrphanShape' /\ SweepShape'
  BY <1>1, <1>2, Names DEF OrphanShape, SweepShape
<1>12. Named' \subseteq Named
  BY <1>1, <1>7, NamedFacts, NamedFactsNext DEF AudioPcs, Mixing, Productions
<1>13. Kept
  BY <1>2, <1>12, Names DEF Kept
<1> QED BY <1>6, <1>8, <1>9, <1>10, <1>11, <1>13 DEF IInv

-----------------------------------------------------------------------------
(* The invariant is inductive, and every step keeps the files named. *)

\* The requests, streams and workers that only move on.
LEMMA QuietStep ==
    ASSUME IInv, NEW p \in Productions,
           AskScript(p) \/ Open(p) \/ Disconnect(p) \/ StartScript(p) \/ StartAudio(p)
               \/ IsArchived(p)
    PROVE  IInv' /\ Kept
<1> USE DEF Pcs, Mixing, Working
<1> prod \in [Productions -> ProdRec]
  BY DEF IInv, TypeOK, ProdRec
<1>1. CASE AskScript(p)
  <2>1. To(p, "checking") /\ p \in Scripts /\ prod[p].pc = "new"
    BY <1>1 DEF AskScript
  <2>2. Moved(p, "checking") /\ prod'[p].copy = prod[p].copy
    BY <2>1, ToFacts
  <2> QED BY <1>1, <2>1, <2>2, MoveStep DEF AskScript
<1>2. CASE Open(p)
  <2>1. To(p, "opened") /\ Occupied(p) /\ prod[p].pc = "claimed"
    BY <1>2 DEF Open, Occupied
  <2>2. Moved(p, "opened") /\ prod'[p].copy = prod[p].copy
    BY <2>1, ToFacts
  <2> QED BY <1>2, <2>1, <2>2, MoveStep DEF Open
<1>3. CASE Disconnect(p)
  <2>1. To(p, "cancelling") /\ Occupied(p)
    BY <1>3 DEF Disconnect, Occupied
  <2>2. Moved(p, "cancelling") /\ prod'[p].copy = prod[p].copy
    BY <2>1, ToFacts
  <2> QED BY <1>3, <2>1, <2>2, MoveStep DEF Disconnect
<1>4. CASE StartScript(p)
  <2>1. To(p, "generating") /\ Occupied(p) /\ p \in Scripts /\ prod[p].pc = "opened"
    BY <1>4 DEF StartScript, Occupied
  <2>2. Moved(p, "generating") /\ prod'[p].copy = prod[p].copy
    BY <2>1, ToFacts
  <2> QED BY <1>4, <2>1, <2>2, MoveStep DEF StartScript
<1>5. CASE StartAudio(p)
  <2>1. Occupied(p) /\ p \in Audios /\ prod[p].pc = "opened"
    BY <1>5 DEF StartAudio, Occupied
  <2>2. CASE OldBytes \notin {NoAudio, OldFile}
    <3>1. To(p, "hashing")
      BY <1>5, <2>2 DEF StartAudio
    <3>2. Moved(p, "hashing") /\ prod'[p].copy = prod[p].copy
      BY <3>1, ToFacts
    <3> QED BY <1>5, <2>1, <3>2, MoveStep DEF StartAudio
  <2>3. CASE OldBytes \in {NoAudio, OldFile}
    <3>1. To(p, "assembling")
      BY <1>5, <2>3 DEF StartAudio
    <3>2. Moved(p, "assembling") /\ prod'[p].copy = prod[p].copy
      BY <3>1, ToFacts
    <3>3. Exists => audio.path # "work"
      <4>1. audio.path = "work" => OldFile = "mix" /\ OldBytes = work
        BY DEF OldFile, OldBytes
      <4> QED BY <2>3, <4>1, Names DEF IInv, LegacyShape
    <3> QED BY <1>5, <2>1, <3>2, <3>3, MoveStep DEF StartAudio
  <2> QED BY <2>2, <2>3
<1>6. CASE IsArchived(p)
  <2>1. To(p, "assembling") /\ OldBytes = OldFile /\ prod[p].pc = "hashing"
    BY <1>6 DEF IsArchived
  <2>2. Moved(p, "assembling") /\ prod'[p].copy = prod[p].copy
    BY <2>1, ToFacts
  <2>3. Exists => audio.path # "work"
    <3>1. audio.path = "work" => OldFile = "mix" /\ OldBytes = work
      BY DEF OldFile, OldBytes
    <3> QED BY <2>1, <3>1, Names DEF IInv, LegacyShape
  <2>4. p \in Audios /\ Occupied(p)
    BY <2>1 DEF IInv, PcShape, AudioPcs, Occupied
  <2> QED BY <1>6, <2>1, <2>2, <2>3, <2>4, MoveStep DEF IsArchived
<1> QED BY <1>1, <1>2, <1>3, <1>4, <1>5, <1>6

\* Those that leave.
LEMMA LeaveStep ==
    ASSUME IInv, NEW p \in Productions,
           Abandon(p) \/ Cancelled(p) \/ Fails(p) \/ ScriptReady(p)
    PROVE  IInv' /\ Kept
<1>1. CASE Abandon(p)
  BY <1>1, OverStep DEF Abandon, files
<1>2. CASE Cancelled(p)
  <2>1. Occupied(p) /\ script \in ScriptType
    BY <1>2 DEF Cancelled, Occupied, IInv, TypeOK
  <2>2. script' \in ScriptType /\ \E s \in {"error", "cancelled", "script_ready"} : Set(s)
    BY <1>2, <2>1 DEF Cancelled
  <2> QED BY <1>2, <2>1, <2>2, OverStep DEF Cancelled, files
<1>3. CASE Fails(p)
  <2>1. Occupied(p) /\ script \in ScriptType
    BY <1>3 DEF Fails, Occupied, IInv, TypeOK
  <2>2. script' \in ScriptType /\ \E s \in {"error", "cancelled", "script_ready"} : Set(s)
    BY <1>3, <2>1 DEF Fails
  <2> QED BY <1>3, <2>1, <2>2, OverStep DEF Fails
<1>4. CASE ScriptReady(p)
  <2>1. Occupied(p) /\ p \in Scripts
    BY <1>4 DEF ScriptReady, Occupied, Working, IInv, PcShape
  <2>2. script \in ScriptType /\ [by |-> p, edits |-> {}] \in ScriptType
    BY <2>1 DEF IInv, TypeOK, ScriptType
  <2>3. script' \in ScriptType /\ \E s \in {"error", "cancelled", "script_ready"} : Set(s)
    BY <1>4, <2>2 DEF ScriptReady
  <2> QED BY <1>4, <2>1, <2>3, OverStep DEF ScriptReady, files
<1> QED BY <1>1, <1>2, <1>3, <1>4

\* The requests for a production, let in or not.
LEMMA ClaimsStep ==
    ASSUME IInv, NEW p \in Productions, ClaimScript(p) \/ ClaimAudio(p)
    PROVE  IInv' /\ Kept
<1> DEFINE kind == IF p \in Scripts THEN "generating_script" ELSE "generating_audio"
<1>1. /\ prod[p].pc \in {"new", "checking"} /\ Claim(p, kind)
      /\ UNCHANGED <<script, audio, edit, restarts>> /\ UNCHANGED files
  <2>1. CASE ClaimScript(p)
    BY <2>1 DEF ClaimScript
  <2>2. CASE ClaimAudio(p)
    <3>1. p \notin Scripts
      BY <2>2, ProductionAssumption DEF ClaimAudio
    <3> QED BY <2>2, <3>1 DEF ClaimAudio
  <2> QED BY <2>1, <2>2
<1> HIDE DEF kind
<1>2. CASE Idle /\ status' = kind
           /\ prod' = [prod EXCEPT ![p] = [pc |-> "claimed", read |-> script, copy |-> NoCopy]]
  BY <1>1, <1>2, ClaimStep DEF kind
<1>3. CASE UNCHANGED status /\ Over(p)
  BY <1>1, <1>3, OverStep DEF files
<1> QED BY <1>1, <1>2, <1>3 DEF Claim

LEMMA InitIInv == Init => IInv
<1> SUFFICES ASSUME Init PROVE IInv
  OBVIOUS
<1>1. prod = [p \in Productions |-> [pc |-> "new", read |-> NoScript, copy |-> NoCopy]]
  BY DEF Init
<1>2. \A p \in Productions : ~Occupied(p) /\ prod[p].pc = "new"
  BY <1>1 DEF Occupied, Working
<1>3. /\ NoScript \in ScriptType /\ [by |-> Legacy, edits |-> {}] \in ScriptType
      /\ NoCopy \in CopyType /\ NoFile \in AudioRec
  BY Names DEF NoScript, ScriptType, NoCopy, CopyType, NoFile, AudioRec
<1>4. /\ archive \in [Contents -> {"none", "torn", "whole"} \cup Audios]
      /\ \A s \in Contents : archive[s] = "none"
  BY DEF Init
<1>5. TypeOK
  <2>1. prod \in [Productions -> ProdRec]
    BY <1>1, <1>3 DEF ProdRec, Pcs
  <2>2. edit \in [Editors -> EditRec]
    BY <1>3 DEF Init, EditRec
  <2>3. restarts \in 0..MaxRestarts
    BY ProductionAssumption DEF Init
  <2>4. status \in {"draft", "ready"} /\ script \in ScriptType /\ audio \in AudioRec
    <3>1. Legacy # NoAudio => Legacy \in Contents
      BY ProductionAssumption, Names
    <3> QED BY <1>3, <3>1 DEF Init, AudioRec
  <2>5. /\ work \in Contents \cup {NoAudio} /\ encoders = {} /\ aged \subseteq Files
        /\ sweep = [on |-> FALSE, keep |-> {}]
    BY ProductionAssumption, Names DEF Init
  <2> QED BY <1>4, <2>1, <2>2, <2>3, <2>4, <2>5 DEF TypeOK, ProdRec, Pcs, EditRec, AudioRec
<1>6. PcShape
  BY <1>2, <1>4, Names DEF PcShape, AudioPcs, Mixing, Productions
<1>7. ActiveOwnsStatus /\ ReadShape /\ MixShape /\ CopyShape
  BY <1>2 DEF ActiveOwnsStatus, ReadShape, MixShape, CopyShape, Productions, Mixing
<1>8. OrphanShape
  BY <1>4, Names DEF OrphanShape, Productions
<1>9. LegacyShape /\ SweepShape
  <2>1. Legacy # NoAudio => Legacy \in Takes
    BY ProductionAssumption
  <2> QED BY <1>2, <2>1 DEF LegacyShape, SweepShape, Init, Mixing, NoFile
<1> QED BY <1>5, <1>6, <1>7, <1>8, <1>9 DEF IInv

LEMMA NextIInv == IInv /\ [Next]_vars => IInv' /\ (Next => Kept)
<1> SUFFICES ASSUME IInv, [Next]_vars PROVE IInv' /\ (Next => Kept)
  OBVIOUS
<1>1. ASSUME UNCHANGED vars PROVE IInv'
  BY <1>1 DEF vars, IInv, TypeOK, PcShape, ActiveOwnsStatus, ReadShape, LegacyShape, MixShape,
              CopyShape, OrphanShape, SweepShape, Named, Occupied, Exists
<1>2. ASSUME Next PROVE IInv' /\ Kept
  <2>1. ASSUME NEW p \in Productions, Worker(p) PROVE IInv' /\ Kept
    BY <2>1, QuietStep, LeaveStep, ArchiveStep, ArchiveEndsStep, ArchivedStep, MixStep,
       MixedStep, CopyMixStep, CopyMixEndsStep, AudioReadyStep DEF Worker
  <2>2. ASSUME NEW p \in Productions,
               AskScript(p) \/ ClaimScript(p) \/ ClaimAudio(p) \/ Abandon(p) \/ Disconnect(p)
                   \/ Serve(p) \/ OrphanExits(p) \/ OrphanCopyEnds(p)
        PROVE IInv' /\ Kept
    BY <2>1, <2>2, QuietStep, LeaveStep, ClaimsStep, OrphanExitsStep, OrphanCopyEndsStep DEF Serve
  <2> QED
    BY <1>2, <2>2, EditStep, DeleteStep, SweepBeginsStep, SweepEndsStep, DayStep, RestartStep
       DEF Next
<1> QED BY <1>1, <1>2

LEMMA IInvHolds == Spec => []IInv
<1>1. IInv /\ [Next]_vars => IInv'
  BY NextIInv
<1> QED BY <1>1, InitIInv, PTL DEF Spec

-----------------------------------------------------------------------------
(* Theorems. *)

(***************************************************************************)
(* The types of all variables, also of the files and of running cleanups.  *)
(***************************************************************************)
THEOREM TypeCorrect == Spec => []TypeOK
<1>1. IInv => TypeOK
  BY DEF IInv
<1> QED BY <1>1, IInvHolds, PTL

(***************************************************************************)
(* One production at a time: the claim's conditional UPDATE is enough for  *)
(* any number of requests, leaving clients and cancelled workers, and no   *)
(* worker writes its verdict into the status of another.                   *)
(***************************************************************************)
THEOREM OneProductionAtATime == Spec => []ActiveOwnsStatus
<1>1. IInv => ActiveOwnsStatus
  BY DEF IInv
<1> QED BY <1>1, IInvHolds, PTL

(***************************************************************************)
(* The audio of a ready podcast is that of its script when it becomes      *)
(* ready: the second look at the status before an edit is written is       *)
(* enough, however many edits wait for the engines.                        *)
(***************************************************************************)
THEOREM FinishedAudioMatches == Spec => AudioMatchesScript
<1>1. IInv /\ [Next]_vars =>
        [status = "generating_audio" /\ status' = "ready" => audio'.rev = script']_vars
  <2> SUFFICES ASSUME IInv, Next, status = "generating_audio", status' = "ready"
               PROVE  audio'.rev = script'
    OBVIOUS
  <2>1. PICK p \in Productions : AudioReady(p)
    BY DEF Next, Serve, Worker, AskScript, ClaimScript, ClaimAudio, Claim, Open, Abandon,
           Disconnect, StartScript, ScriptReady, StartAudio, IsArchived, Archive, ArchiveEnds,
           Archived, Mix, Mixed, CopyMix, CopyMixEnds, Cancelled, Fails, OrphanExits,
           OrphanCopyEnds, ReadForEdit, WriteEdit, Delete, SweepBegins, SweepEnds, Remove, Day,
           Restart, Set, files
  <2>2. Exists /\ Occupied(p) /\ p \in Audios
    BY <2>1, FilePcs DEF AudioReady, Exists, IInv, PcShape, Mixing, AudioPcs
  <2>3. prod[p].read = script
    BY <2>2 DEF IInv, ReadShape
  <2> QED BY <2>1, <2>2, <2>3 DEF AudioReady
<1> QED BY <1>1, IInvHolds, PTL DEF Spec, AudioMatchesScript

(***************************************************************************)
(* The audio a podcast names can be played while the next version is       *)
(* mixed, copied, fails, is cancelled or replaced, whatever the threads of *)
(* cancelled workers still write; no cleanup removes it, but for one that  *)
(* began while the podcast named the mix file.  What interrupts it is only *)
(* a production that renders the same bytes again.                         *)
(***************************************************************************)
THEOREM AudioAlwaysPlayable == Spec => AudioStaysPlayable
<1> DEFINE Play ==
      Exists' =>
         /\ audio'.path = "work" => work' = audio'.sha
         /\ \A s \in Named' \cap Takes :
              IF s \notin Named THEN archive'[s] = "whole"
              ELSE archive[s] = "whole" =>
                     \/ archive'[s] = "whole"
                     \/ \E p \in Audios : CopyMix(p) /\ s = work
                     \/ SweepEnds /\ "mix" \in sweep.keep
<1>1. IInv /\ [Next]_vars => [Play]_vars
  <2> SUFFICES ASSUME IInv, Next PROVE Play
    OBVIOUS
  <2>1. IInv' /\ Kept
    BY NextIInv
  <2>2. Exists' => (audio'.path = "work" => work' = audio'.sha)
    BY <2>1 DEF IInv, LegacyShape
  <2> QED BY <2>1, <2>2 DEF Kept
<1>2. [][Play]_vars <=> AudioStaysPlayable
  BY DEF AudioStaysPlayable
<1> HIDE DEF Play
<1> QED BY <1>1, <1>2, IInvHolds, PTL DEF Spec
=============================================================================
