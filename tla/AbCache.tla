------------------------------- MODULE AbCache --------------------------------
(***************************************************************************)
(* The segment cache of the audiobooks in detail: render_segment with its  *)
(* temporary files and the ffmpeg process, run by batch generations and by *)
(* listeners who ask for segments just in time (audiobooks/routes.py).     *)
(*                                                                         *)
(* AbQueue takes a rendering as one step; here it is five, and the files   *)
(* the producers share are modelled as the file system keeps them: a path  *)
(* names a file, opening an existing path for writing truncates the same   *)
(* file, and a rename moves the file although others still write to it.    *)
(***************************************************************************)
EXTENDS Integers, FiniteSets

CONSTANTS
    Books,      \* one batch generation runs per book
    Listeners,  \* requests to serve_segment_live
    BookOfL,    \* [Listeners -> Books]
    SegOfL,     \* [Listeners -> Segs]
    Segs,       \* the numbers of the segments
    Shared,     \* the books are linked to one store book
    Faults,     \* the engine and ffmpeg may fail
    None

ASSUME CacheAssumption ==
    /\ Segs \subseteq Nat \ {0} /\ IsFiniteSet(Segs)
    /\ BookOfL \in [Listeners -> Books] /\ SegOfL \in [Listeners -> Segs]
    /\ Books \cap Listeners = {} /\ None \notin Books \cup Listeners
    /\ Shared \in BOOLEAN /\ Faults \in BOOLEAN

Producers == Books \cup Listeners

Folder(b) == IF Shared THEN "store" ELSE b
Folders == {Folder(b) : b \in Books}
BookOf(p) == IF p \in Books THEN p ELSE BookOfL[p]

VARIABLES
    at,      \* where each producer is, and at which segment
    lock,    \* live_locks: who holds the lock of a book
    wav,     \* the synthesized temporary files
    tmp,     \* which file the encoder's temporary path names
    file,    \* the files: who writes to it, and whether two did at a time
    target   \* which file the segment's path in the cache names

vars == <<at, lock, wav, tmp, file, target>>

\* A temporary path is a folder, a segment and the suffix of its producer.
\* Mutant of Suffix: both kinds of producers use the same temporary names.
SuffixNone(p) == "batch"

Suffix(p) == IF p \in Listeners THEN "live" ELSE "batch"

Paths == Folders \X Segs \X {"batch", "live"}
Path(p, s) == <<Folder(BookOf(p)), s, Suffix(p)>>

\* A file is named by the producer and the segment it was created for.
Files == Producers \X Segs
Blank == [writers |-> {}, mixed |-> FALSE]

Steps == {"synthesizing", "spawned", "encoding", "exited", "broken"}

TypeOK ==
    /\ at \in [Producers -> [pc : {"idle", "waiting", "done", "failed"} \cup Steps,
                             seg : Segs \cup {0}]]
    /\ lock \in [Books -> Listeners \cup {None}]
    /\ wav \in [Paths -> BOOLEAN]
    /\ tmp \in [Paths -> Files \cup {None}]
    /\ file \in [Files -> [writers : SUBSET Producers, mixed : BOOLEAN]]
    /\ target \in [Folders \X Segs -> Files \cup {None}]

Init ==
    /\ at = [p \in Producers |-> [pc |-> "idle", seg |-> 0]]
    /\ lock = [b \in Books |-> None]
    /\ wav = [x \in Paths |-> FALSE]
    /\ tmp = [x \in Paths |-> None]
    /\ file = [f \in Files |-> Blank]
    /\ target = [x \in Folders \X Segs |-> None]

Cached(p, s) == target[<<Folder(BookOf(p)), s>>] # None

-----------------------------------------------------------------------------
(* Who renders what. *)

Move(p, pc, s) == at' = [at EXCEPT ![p] = [pc |-> pc, seg |-> s]]

(***************************************************************************)
(* A batch generation at the top of its loop: on to the next segment that  *)
(* is not cached, or to the end.                                           *)
(***************************************************************************)
Advance(b, done) ==
    LET todo == {s \in Segs : s > done /\ ~Cached(b, s)} IN
    IF todo = {} THEN Move(b, "done", done)
    ELSE Move(b, "synthesizing", CHOOSE s \in todo : \A o \in todo : s <= o)

\* What failed may be asked for again.
BatchBegins(b) ==
    /\ at[b].pc \in {"idle", "failed"}
    /\ Advance(b, 0)
    /\ UNCHANGED <<lock, wav, tmp, file, target>>

\* serve_segment_live up to the lock: a cached segment is served at once.
Request(l) ==
    /\ at[l].pc \in {"idle", "failed"}
    /\ Move(l, IF Cached(l, SegOfL[l]) THEN "done" ELSE "waiting", SegOfL[l])
    /\ UNCHANGED <<lock, wav, tmp, file, target>>

\* Mutant of Acquire: nobody looks again whether the segment is cached by now.
AcquireBlindly(l) ==
    /\ at[l].pc = "waiting" /\ lock[BookOf(l)] = None
    /\ Move(l, "synthesizing", at[l].seg)
    /\ lock' = [lock EXCEPT ![BookOf(l)] = l]
    /\ UNCHANGED <<wav, tmp, file, target>>

\* The lock is free: render, unless another request did it meanwhile.
Acquire(l) ==
    /\ at[l].pc = "waiting" /\ lock[BookOf(l)] = None
    /\ \/ /\ Cached(l, at[l].seg)
          /\ Move(l, "done", at[l].seg)
          /\ UNCHANGED lock
       \/ /\ ~Cached(l, at[l].seg)
          /\ Move(l, "synthesizing", at[l].seg)
          /\ lock' = [lock EXCEPT ![BookOf(l)] = l]
    /\ UNCHANGED <<wav, tmp, file, target>>

\* Mutant of Release: an exception leaves the lock taken.
ReleaseOnSuccess(p, pc) ==
    lock' = IF p \in Listeners /\ pc = "done" THEN [lock EXCEPT ![BookOf(p)] = None] ELSE lock

Release(p, pc) ==
    lock' = IF p \in Listeners THEN [lock EXCEPT ![BookOf(p)] = None] ELSE lock

Fails(p) ==
    /\ Move(p, "failed", at[p].seg)
    /\ Release(p, "failed")

-----------------------------------------------------------------------------
(* render_segment. *)

\* The files another encoder is producing from the same wav, which is rewritten.
Disturbed(x) ==
    {f \in Files : \E q \in file[f].writers :
        at[q].pc = "encoding" /\ Path(q, at[q].seg) = x}

\* The synthesis ends and has written the wav; ffmpeg is spawned.
Synthesized(p) ==
    /\ at[p].pc = "synthesizing"
    /\ LET x == Path(p, at[p].seg) IN
       /\ wav' = [wav EXCEPT ![x] = TRUE]
       /\ \/ file' = [f \in Files |-> IF f \in Disturbed(x)
                                       THEN [file[f] EXCEPT !.mixed = TRUE] ELSE file[f]]
          \/ UNCHANGED file
    /\ Move(p, "spawned", at[p].seg)
    /\ UNCHANGED <<lock, tmp, target>>

EngineFails(p) ==
    /\ Faults /\ at[p].pc = "synthesizing"
    /\ Fails(p)
    /\ UNCHANGED <<wav, tmp, file, target>>

\* The encoder opens its input and truncates or creates its output.
EncoderOpens(p) ==
    /\ at[p].pc = "spawned"
    /\ LET s == at[p].seg
           x == Path(p, s)
           f == IF tmp[x] = None THEN <<p, s>> ELSE tmp[x] IN
       \/ /\ ~wav[x]
          /\ Move(p, "broken", s)
          /\ UNCHANGED <<tmp, file>>
       \/ /\ wav[x]
          /\ tmp' = [tmp EXCEPT ![x] = f]
          /\ file' = [file EXCEPT ![f] = [writers |-> @.writers \cup {p},
                                          mixed |-> @.writers # {}]]
          /\ Move(p, "encoding", s)
    /\ UNCHANGED <<lock, wav, target>>

EncoderExits(p) ==
    /\ at[p].pc = "encoding"
    /\ file' = [f \in Files |-> [file[f] EXCEPT !.writers = @ \ {p}]]
    /\ Move(p, "exited", at[p].seg) \/ (Faults /\ Move(p, "broken", at[p].seg))
    /\ UNCHANGED <<lock, wav, tmp, target>>

(***************************************************************************)
(* After proc.wait(): drop the wav; a bad exit code or a missing output    *)
(* raises, otherwise the output is renamed into the cache.                 *)
(***************************************************************************)
Store(p) ==
    /\ at[p].pc \in {"exited", "broken"}
    /\ LET s == at[p].seg
           x == Path(p, s) IN
       /\ wav' = [wav EXCEPT ![x] = FALSE]
       /\ \/ /\ at[p].pc = "broken" \/ tmp[x] = None
             /\ Fails(p)
             /\ UNCHANGED <<tmp, target>>
          \/ /\ at[p].pc = "exited" /\ tmp[x] # None
             /\ target' = [target EXCEPT ![<<Folder(BookOf(p)), s>>] = tmp[x]]
             /\ tmp' = [tmp EXCEPT ![x] = None]
             /\ IF p \in Books THEN Advance(p, s) ELSE Move(p, "done", s)
             /\ Release(p, "done")
    /\ UNCHANGED file

-----------------------------------------------------------------------------
Renders(p) ==
    Synthesized(p) \/ EngineFails(p) \/ EncoderOpens(p) \/ EncoderExits(p) \/ Store(p)

Next ==
    \/ \E b \in Books : BatchBegins(b)
    \/ \E l \in Listeners : Request(l) \/ Acquire(l)
    \/ \E p \in Producers : Renders(p)

Spec == Init /\ [][Next]_vars

(***************************************************************************)
(* Syntheses time out, ffmpeg ends, and asyncio.Lock hands itself to a     *)
(* waiter whenever it is released again.                                   *)
(***************************************************************************)
LiveSpec ==
    /\ Spec
    /\ \A p \in Producers : WF_vars(Renders(p))
    /\ \A l \in Listeners : SF_vars(Acquire(l))

-----------------------------------------------------------------------------
(***************************************************************************)
(* What can be listened to is whole: a file in the cache has no encoder    *)
(* still writing to it and was never written by two at a time ("Der Suffix *)
(* im Tmp-Namen verhindert Kollisionen zwischen parallelen Erzeugern").    *)
(***************************************************************************)
PublishedIsWhole ==
    \A x \in Folders \X Segs :
        target[x] # None => file[target[x]] = Blank

(***************************************************************************)
(* Listeners of a book render one at a time and never what is cached when  *)
(* they begin, however many prefetches wait for the same segment.          *)
(***************************************************************************)
LiveNeverTwice ==
    [][\A l \in Listeners :
        at[l].pc # "synthesizing" /\ at'[l].pc = "synthesizing" =>
            /\ ~Cached(l, at[l].seg)
            /\ \A k \in Listeners \ {l} :
                 BookOf(k) = BookOf(l) => at[k].pc \notin Steps]_vars

(***************************************************************************)
(* A listener is answered: with the segment, or with an error.             *)
(***************************************************************************)
ListenersServed ==
    \A l \in Listeners : at[l].pc = "waiting" ~> at[l].pc \in {"done", "failed"}
=============================================================================
