---------------------------- MODULE AbCacheProofs ----------------------------
(***************************************************************************)
(* Proofs about AbCache, for any books, listeners and segments, with a     *)
(* failing engine and encoder.                                             *)
(*                                                                         *)
(* LockInv is inductive whatever the constants: who renders for a listener *)
(* holds the lock of the book.  With it, and unless two books share a      *)
(* store folder, FilesInv is: no two producers at work have a temporary    *)
(* path in common (OwnPath), so a file belongs to one path all its life    *)
(* (PathShape) and is clean when it gets into the cache (CleanShape).      *)
(* PublishedIsWhole alone is not inductive: it does not exclude that an    *)
(* encoder opens a file that is already in the cache.                      *)
(***************************************************************************)
EXTENDS AbCache, WellFoundedInduction, TLAPS

SegIds == Segs \cup {0}
Places == {"idle", "waiting", "done", "failed"} \cup Steps
AtSet == [pc : Places, seg : SegIds]
FileSet == [writers : SUBSET Producers, mixed : BOOLEAN]
Slots == Folders \X Segs

\* The temporary path a file is created at, and the path of its segment.
Home(f) == Path(f[1], f[2])
Slot(f) == <<Folder(BookOf(f[1])), f[2]>>

(***************************************************************************)
(* Who renders has a segment, and a listener who renders holds the lock of *)
(* its book.                                                               *)
(***************************************************************************)
StepsShape ==
    \A p \in Producers : at[p].pc \in Steps \cup {"waiting"} => at[p].seg \in Segs

LockShape ==
    \A l \in Listeners : at[l].pc \in Steps => lock[BookOf(l)] = l

LockInv == TypeOK /\ StepsShape /\ LockShape

(***************************************************************************)
(* Files stay where they belong: under their temporary path, under the     *)
(* path of their segment, with writers that encode to that path.           *)
(***************************************************************************)
PathShape ==
    /\ \A x \in Paths : tmp[x] # None => Home(tmp[x]) = x
    /\ \A y \in Slots : target[y] # None => Slot(target[y]) = y
    /\ \A f \in Files : \A q \in file[f].writers :
         at[q].pc = "encoding" /\ Path(q, at[q].seg) = Home(f)

(***************************************************************************)
(* What is in the cache is whole, what an encoder has opened or will       *)
(* create is not in the cache, and what a producer has encoded is clean.   *)
(***************************************************************************)
CleanShape ==
    /\ PublishedIsWhole
    /\ \A x \in Paths, y \in Slots : tmp[x] # None => target[y] # tmp[x]
    /\ \A p \in Producers, y \in Slots :
         at[p].pc \in {"synthesizing", "spawned"} /\ target[y] # None =>
             target[y] # <<p, at[p].seg>>
    /\ \A p \in Producers :
         at[p].pc \in {"encoding", "exited"} /\ tmp[Path(p, at[p].seg)] # None =>
             ~file[tmp[Path(p, at[p].seg)]].mixed

FilesInv == PathShape /\ CleanShape

\* Producer p goes to `pc` with segment s.
MovesTo(p, pc, s) ==
    /\ Move(p, pc, s) /\ pc \in Places /\ s \in SegIds
    /\ pc \in Steps \cup {"waiting"} => s \in Segs

-----------------------------------------------------------------------------
(* The operators. *)

(***************************************************************************)
(* What the assumptions say of producers and paths.                        *)
(***************************************************************************)
LEMMA Producing ==
    ASSUME NEW p \in Producers
    PROVE  /\ BookOf(p) \in Books /\ Folder(BookOf(p)) \in Folders
           /\ p \in Books <=> p \notin Listeners
           /\ \A s \in Segs : Path(p, s) \in Paths /\ <<Folder(BookOf(p)), s>> \in Slots
                              /\ <<p, s>> \in Files
                              /\ Home(<<p, s>>) = Path(p, s)
                              /\ Slot(<<p, s>>) = <<Folder(BookOf(p)), s>>
<1>1. BookOf(p) \in Books /\ (p \in Books <=> p \notin Listeners)
  BY CacheAssumption DEF BookOf, Producers
<1>2. Folder(BookOf(p)) \in Folders
  BY <1>1 DEF Folders
<1>3. Suffix(p) \in {"batch", "live"}
  BY DEF Suffix
<1> QED BY <1>1, <1>2, <1>3 DEF Path, Paths, Slots, Files, Home, Slot

(***************************************************************************)
(* A move changes the place of one producer.                               *)
(***************************************************************************)
LEMMA MoveEffect ==
    ASSUME NEW p \in Producers, NEW pc, NEW s, at \in [Producers -> AtSet], MovesTo(p, pc, s)
    PROVE  /\ at' \in [Producers -> AtSet]
           /\ at'[p].pc = pc /\ at'[p].seg = s
           /\ \A q \in Producers : q # p => at'[q] = at[q]
<1>1. [pc |-> pc, seg |-> s] \in AtSet
  BY DEF MovesTo, AtSet
<1>2. at' = [at EXCEPT ![p] = [pc |-> pc, seg |-> s]]
  BY DEF MovesTo, Move
<1> QED BY <1>1, <1>2

(***************************************************************************)
(* Advance ends the generation or takes another segment, one that is not   *)
(* cached.                                                                 *)
(***************************************************************************)
LEMMA AdvanceEffect ==
    ASSUME NEW b \in Books, NEW done \in SegIds, Advance(b, done)
    PROVE  \/ MovesTo(b, "done", done)
           \/ \E s \in Segs : MovesTo(b, "synthesizing", s) /\ ~Cached(b, s) /\ s # done
<1> DEFINE todo == {s \in Segs : s > done /\ ~Cached(b, s)}
           first == CHOOSE s \in todo : \A o \in todo : s <= o
<1>1. CASE todo = {}
  <2>1. Move(b, "done", done)
    BY <1>1 DEF Advance
  <2> QED BY <2>1 DEF MovesTo, Places, Steps
<1>2. CASE todo # {}
  <2>1. todo \subseteq Nat
    BY CacheAssumption
  <2>2. PICK m \in todo : \A o \in todo : ~(<<o, m>> \in OpToRel(<, Nat))
    BY <1>2, <2>1, NatLessThanWellFounded, WFMin, Zenon
  <2>3. \A o \in todo : ~(o < m)
    BY <2>1, <2>2 DEF OpToRel
  <2>4. \A o \in todo : m <= o
    BY <2>1, <2>3
  <2>5. first \in todo
    BY <2>4, Zenon
  <2>6. Move(b, "synthesizing", first)
    BY <1>2 DEF Advance
  <2>a. \A t \in todo : t \in Segs /\ ~Cached(b, t) /\ t # done
    BY CacheAssumption DEF SegIds
  <2>b. first \in Segs /\ ~Cached(b, first) /\ first # done
    BY <2>5, <2>a
  <2> HIDE DEF first
  <2>7. MovesTo(b, "synthesizing", first)
    BY <2>6, <2>b DEF MovesTo, Places, Steps, SegIds
  <2> QED BY <2>7, <2>b
<1> QED BY <1>1, <1>2

-----------------------------------------------------------------------------
(* The lock. *)

(***************************************************************************)
(* One producer moves, and nobody else loses the lock: a sufficient        *)
(* condition for a step to keep LockInv.                                   *)
(***************************************************************************)
LEMMA LockKept ==
    ASSUME LockInv, NEW p \in Producers, NEW pc, NEW s, MovesTo(p, pc, s),
           lock' \in [Books -> Listeners \cup {None}],
           \A l \in Listeners : l # p /\ at[l].pc \in Steps => lock'[BookOf(l)] = l,
           p \in Listeners /\ pc \in Steps => lock'[BookOf(p)] = p,
           wav' \in [Paths -> BOOLEAN], tmp' \in [Paths -> Files \cup {None}],
           file' \in [Files -> FileSet], target' \in [Slots -> Files \cup {None}]
    PROVE  LockInv'
<1>1. /\ at' \in [Producers -> AtSet]
      /\ at'[p].pc = pc /\ at'[p].seg = s
      /\ \A q \in Producers : q # p => at'[q] = at[q]
  BY MoveEffect DEF LockInv, TypeOK, AtSet, Places, SegIds
<1>2. TypeOK'
  BY <1>1 DEF TypeOK, AtSet, FileSet, Places, SegIds, Slots
<1>3. StepsShape'
  BY <1>1 DEF LockInv, StepsShape, MovesTo
<1>4. LockShape'
  <2> SUFFICES ASSUME NEW l \in Listeners, at'[l].pc \in Steps
               PROVE  lock'[BookOf(l)] = l
    BY DEF LockShape, BookOf
  <2>1. CASE l = p
    BY <1>1, <2>1
  <2>2. CASE l # p
    BY <1>1, <2>2 DEF Producers
  <2> QED BY <2>1, <2>2
<1> QED BY <1>2, <1>3, <1>4 DEF LockInv

(***************************************************************************)
(* The invariant's types, by their short names.                            *)
(***************************************************************************)
LEMMA Types ==
    ASSUME LockInv
    PROVE  /\ at \in [Producers -> AtSet] /\ lock \in [Books -> Listeners \cup {None}]
           /\ wav \in [Paths -> BOOLEAN] /\ tmp \in [Paths -> Files \cup {None}]
           /\ file \in [Files -> FileSet] /\ target \in [Slots -> Files \cup {None}]
BY DEF LockInv, TypeOK, AtSet, FileSet, Places, SegIds, Slots

(***************************************************************************)
(* Who gives back the lock takes it from nobody who renders.               *)
(***************************************************************************)
LEMMA ReleaseEffect ==
    ASSUME LockInv, NEW p \in Producers, NEW pc, at[p].pc \in Steps, Release(p, pc)
    PROVE  /\ lock' \in [Books -> Listeners \cup {None}]
           /\ \A l \in Listeners : l # p /\ at[l].pc \in Steps => lock'[BookOf(l)] = l
<1>1. /\ lock \in [Books -> Listeners \cup {None}]
      /\ \A l \in Listeners : at[l].pc \in Steps => lock[BookOf(l)] = l
  BY Types DEF LockInv, LockShape
<1>2. \A l \in Listeners : BookOf(l) \in Books
  BY Producing DEF Producers
<1>3. CASE p \in Listeners /\ lock' = [lock EXCEPT ![BookOf(p)] = None]
  BY <1>1, <1>2, <1>3
<1>4. CASE lock' = lock
  BY <1>1, <1>4
<1> QED BY <1>3, <1>4 DEF Release

(***************************************************************************)
(* A generation that begins needs no lock.                                 *)
(***************************************************************************)
LEMMA BeginLock ==
    ASSUME LockInv, NEW b \in Books, BatchBegins(b)
    PROVE  LockInv'
<1>1. \E pc, s : MovesTo(b, pc, s)
  <2>1. Advance(b, 0) /\ 0 \in SegIds
    BY DEF BatchBegins, SegIds
  <2> QED BY <2>1, AdvanceEffect
<1>2. PICK pc, s : MovesTo(b, pc, s)
  BY <1>1
<1>3. b \in Producers /\ b \notin Listeners
  BY Producing DEF Producers
<1>4. UNCHANGED <<lock, wav, tmp, file, target>>
  BY DEF BatchBegins
<1>5. \A l \in Listeners : l # b /\ at[l].pc \in Steps => lock'[BookOf(l)] = l
  BY <1>4 DEF LockInv, LockShape
<1> QED BY <1>2, <1>3, <1>4, <1>5, Types, LockKept

(***************************************************************************)
(* A request waits or is served; one that waits has a segment.             *)
(***************************************************************************)
LEMMA RequestLock ==
    ASSUME LockInv, NEW l \in Listeners, Request(l)
    PROVE  LockInv'
<1> DEFINE pc == IF Cached(l, SegOfL[l]) THEN "done" ELSE "waiting"
<1>1. MovesTo(l, pc, SegOfL[l]) /\ pc \notin Steps
  BY CacheAssumption DEF Request, MovesTo, Places, Steps, SegIds
<1> HIDE DEF pc
<1>2. l \in Producers
  BY DEF Producers
<1>3. UNCHANGED <<lock, wav, tmp, file, target>>
  BY DEF Request
<1>4. \A k \in Listeners : k # l /\ at[k].pc \in Steps => lock'[BookOf(k)] = k
  BY <1>3 DEF LockInv, LockShape
<1> QED BY <1>1, <1>2, <1>3, <1>4, Types, LockKept

(***************************************************************************)
(* Who takes the lock took it from nobody.                                 *)
(***************************************************************************)
LEMMA AcquireLock ==
    ASSUME LockInv, NEW l \in Listeners, Acquire(l)
    PROVE  LockInv'
<1>1. /\ l \in Producers /\ at[l].seg \in Segs /\ BookOf(l) \in Books
      /\ at[l].pc = "waiting" /\ lock[BookOf(l)] = None
      /\ UNCHANGED <<wav, tmp, file, target>>
  BY Producing DEF Producers, Acquire, LockInv, StepsShape
<1>2. CASE Move(l, "done", at[l].seg) /\ lock' = lock
  <2>1. MovesTo(l, "done", at[l].seg) /\ "done" \notin Steps
    BY <1>1, <1>2 DEF MovesTo, Places, Steps, SegIds
  <2>2. \A k \in Listeners : k # l /\ at[k].pc \in Steps => lock'[BookOf(k)] = k
    BY <1>2 DEF LockInv, LockShape
  <2> QED BY <1>1, <1>2, <2>1, <2>2, Types, LockKept
<1>3. CASE /\ Move(l, "synthesizing", at[l].seg)
           /\ lock' = [lock EXCEPT ![BookOf(l)] = l]
  <2>1. MovesTo(l, "synthesizing", at[l].seg)
    BY <1>1, <1>3 DEF MovesTo, Places, Steps, SegIds
  <2>2. \A k \in Listeners : k # l /\ at[k].pc \in Steps => lock'[BookOf(k)] = k
    <3> SUFFICES ASSUME NEW k \in Listeners, k # l, at[k].pc \in Steps
                 PROVE  lock'[BookOf(k)] = k
      OBVIOUS
    <3>1. lock[BookOf(k)] = k /\ k # None
      BY CacheAssumption DEF LockInv, LockShape
    <3> QED BY <1>1, <1>3, <3>1
  <2>3. lock' \in [Books -> Listeners \cup {None}] /\ lock'[BookOf(l)] = l
    BY <1>1, <1>3, Types
  <2> QED BY <1>1, <2>1, <2>2, <2>3, Types, LockKept
<1> QED BY <1>2, <1>3 DEF Acquire

(***************************************************************************)
(* A step of a rendering that does not give the lock back.                 *)
(***************************************************************************)
LEMMA RenderLock ==
    ASSUME LockInv, NEW p \in Producers, NEW pc, at[p].pc \in Steps, MovesTo(p, pc, at[p].seg),
           lock' = lock,
           wav' \in [Paths -> BOOLEAN], tmp' \in [Paths -> Files \cup {None}],
           file' \in [Files -> FileSet], target' \in [Slots -> Files \cup {None}]
    PROVE  LockInv'
<1>1. \A l \in Listeners : at[l].pc \in Steps => lock'[BookOf(l)] = l
  BY DEF LockInv, LockShape
<1>2. lock' \in [Books -> Listeners \cup {None}]
  BY Types
<1> QED BY <1>1, <1>2, LockKept

(***************************************************************************)
(* The places of a rendering.                                              *)
(***************************************************************************)
LEMMA Rendering ==
    ASSUME LockInv, NEW p \in Producers, at[p].pc \in Steps, NEW pc \in Places, Move(p, pc, at[p].seg)
    PROVE  MovesTo(p, pc, at[p].seg)
BY DEF LockInv, StepsShape, MovesTo, SegIds

(***************************************************************************)
(* The synthesis.                                                          *)
(***************************************************************************)
LEMMA SynthesizedLock ==
    ASSUME LockInv, NEW p \in Producers, Synthesized(p)
    PROVE  LockInv' /\ MovesTo(p, "spawned", at[p].seg)
<1>1. /\ at[p].pc \in Steps /\ Move(p, "spawned", at[p].seg) /\ "spawned" \in Places
      /\ UNCHANGED <<lock, tmp, target>>
  BY DEF Synthesized, Steps, Places
<1>2. MovesTo(p, "spawned", at[p].seg)
  BY <1>1, Rendering
<1>3. wav' \in [Paths -> BOOLEAN]
  BY Types DEF Synthesized
<1>4. file' \in [Files -> FileSet]
  <2> DEFINE x == Path(p, at[p].seg)
  <2>1. CASE UNCHANGED file
    BY <2>1, Types
  <2>2. CASE file' = [f \in Files |-> IF f \in Disturbed(x)
                                      THEN [file[f] EXCEPT !.mixed = TRUE] ELSE file[f]]
    <3>1. \A f \in Files : file[f] \in FileSet
      BY Types
    <3>2. \A f \in Files : [file[f] EXCEPT !.mixed = TRUE] \in FileSet
      BY <3>1 DEF FileSet
    <3> HIDE DEF x
    <3> QED BY <2>2, <3>1, <3>2
  <2> QED BY <2>1, <2>2 DEF Synthesized
<1>5. LockInv'
  BY <1>1, <1>2, <1>3, <1>4, Types, RenderLock
<1> QED BY <1>2, <1>5

(***************************************************************************)
(* A failure: the producer stops and gives its lock back.                  *)
(***************************************************************************)
LEMMA FailureLock ==
    ASSUME LockInv, NEW p \in Producers, at[p].pc \in Steps, Fails(p),
           wav' \in [Paths -> BOOLEAN], UNCHANGED <<tmp, file, target>>
    PROVE  LockInv' /\ MovesTo(p, "failed", at[p].seg)
<1>1. "failed" \in Places /\ "failed" \notin Steps /\ Move(p, "failed", at[p].seg)
  BY DEF Places, Steps, Fails
<1>2. MovesTo(p, "failed", at[p].seg)
  BY <1>1, Rendering
<1>3. Release(p, "failed")
  BY DEF Fails
<1>4. /\ lock' \in [Books -> Listeners \cup {None}]
      /\ \A l \in Listeners : l # p /\ at[l].pc \in Steps => lock'[BookOf(l)] = l
  BY <1>3, ReleaseEffect
<1>5. LockInv'
  BY <1>1, <1>2, <1>4, Types, LockKept
<1> QED BY <1>2, <1>5

\* The file an encoder opens: a new one, or the one already at its path.
Opened(p) == IF tmp[Path(p, at[p].seg)] = None THEN <<p, at[p].seg>>
             ELSE tmp[Path(p, at[p].seg)]

(***************************************************************************)
(* The encoder opens its output, or finds its input gone.                  *)
(***************************************************************************)
LEMMA OpenEffect ==
    ASSUME LockInv, NEW p \in Producers, EncoderOpens(p)
    PROVE  /\ UNCHANGED <<lock, wav, target>>
           /\ \/ MovesTo(p, "broken", at[p].seg) /\ UNCHANGED <<tmp, file>>
              \/ /\ MovesTo(p, "encoding", at[p].seg) /\ Opened(p) \in Files
                 /\ tmp' = [tmp EXCEPT ![Path(p, at[p].seg)] = Opened(p)]
                 /\ file' = [file EXCEPT ![Opened(p)] =
                               [writers |-> file[Opened(p)].writers \cup {p},
                                mixed |-> file[Opened(p)].writers # {}]]
<1>1. /\ at[p].pc \in Steps /\ "broken" \in Places /\ "encoding" \in Places
      /\ at[p].seg \in Segs
  BY DEF EncoderOpens, Steps, Places, LockInv, StepsShape
<1>2. Opened(p) \in Files
  BY <1>1, Types, Producing DEF Opened
<1>3. CASE Move(p, "broken", at[p].seg) /\ UNCHANGED <<tmp, file>>
  BY <1>1, <1>3, Rendering DEF EncoderOpens
<1>4. CASE /\ tmp' = [tmp EXCEPT ![Path(p, at[p].seg)] = Opened(p)]
           /\ file' = [file EXCEPT ![Opened(p)] = [writers |-> @.writers \cup {p},
                                                   mixed |-> @.writers # {}]]
           /\ Move(p, "encoding", at[p].seg)
  <2>1. MovesTo(p, "encoding", at[p].seg)
    BY <1>1, <1>4, Rendering
  <2>2. UNCHANGED <<lock, wav, target>>
    BY DEF EncoderOpens
  <2> QED BY <1>2, <1>4, <2>1, <2>2
<1> QED BY <1>3, <1>4 DEF EncoderOpens, Opened

(***************************************************************************)
(* Opening a file keeps the lock.                                          *)
(***************************************************************************)
LEMMA OpensLock ==
    ASSUME LockInv, NEW p \in Producers, EncoderOpens(p)
    PROVE  LockInv'
<1>1. at[p].pc \in Steps /\ at[p].seg \in Segs
  BY DEF EncoderOpens, Steps, LockInv, StepsShape
<1>2. UNCHANGED <<lock, wav, target>>
  BY OpenEffect
<1>3. CASE MovesTo(p, "broken", at[p].seg) /\ UNCHANGED <<tmp, file>>
  BY <1>1, <1>2, <1>3, Types, RenderLock
<1>4. CASE /\ MovesTo(p, "encoding", at[p].seg) /\ Opened(p) \in Files
           /\ tmp' = [tmp EXCEPT ![Path(p, at[p].seg)] = Opened(p)]
           /\ file' = [file EXCEPT ![Opened(p)] =
                         [writers |-> file[Opened(p)].writers \cup {p},
                          mixed |-> file[Opened(p)].writers # {}]]
  <2>1. file[Opened(p)] \in FileSet
    BY <1>4, Types
  <2>2. [writers |-> file[Opened(p)].writers \cup {p},
         mixed |-> file[Opened(p)].writers # {}] \in FileSet
    BY <2>1 DEF FileSet
  <2>3. file' \in [Files -> FileSet] /\ tmp' \in [Paths -> Files \cup {None}]
    BY <1>4, <2>2, Types
  <2>4. MovesTo(p, "encoding", at[p].seg)
    BY <1>4
  <2> QED BY <1>1, <1>2, <2>3, <2>4, Types, RenderLock
<1> QED BY <1>3, <1>4, OpenEffect

(***************************************************************************)
(* The encoder ends.                                                       *)
(***************************************************************************)
LEMMA ExitEffect ==
    ASSUME LockInv, NEW p \in Producers, EncoderExits(p)
    PROVE  /\ UNCHANGED <<lock, wav, tmp, target>>
           /\ MovesTo(p, "exited", at[p].seg) \/ MovesTo(p, "broken", at[p].seg)
           /\ file' \in [Files -> FileSet]
           /\ \A f \in Files : /\ file'[f].writers = file[f].writers \ {p}
                               /\ file'[f].mixed = file[f].mixed
<1>1. /\ at[p].pc \in Steps /\ "broken" \in Places /\ "exited" \in Places
  BY DEF EncoderExits, Steps, Places
<1>2. MovesTo(p, "exited", at[p].seg) \/ MovesTo(p, "broken", at[p].seg)
  BY <1>1, Rendering DEF EncoderExits
<1>3. \A f \in Files : file[f] \in FileSet
  BY Types
<1>4. \A f \in Files : /\ [file[f] EXCEPT !.writers = @ \ {p}] \in FileSet
                       /\ [file[f] EXCEPT !.writers = @ \ {p}].writers = file[f].writers \ {p}
                       /\ [file[f] EXCEPT !.writers = @ \ {p}].mixed = file[f].mixed
  BY <1>3 DEF FileSet
<1>5. file' = [f \in Files |-> [file[f] EXCEPT !.writers = @ \ {p}]]
  BY DEF EncoderExits
<1>6. UNCHANGED <<lock, wav, tmp, target>>
  BY DEF EncoderExits
<1> QED BY <1>2, <1>4, <1>5, <1>6

(***************************************************************************)
(* An encoder that ends keeps the lock.                                    *)
(***************************************************************************)
LEMMA ExitsLock ==
    ASSUME LockInv, NEW p \in Producers, EncoderExits(p)
    PROVE  LockInv'
<1>1. at[p].pc \in Steps
  BY DEF EncoderExits, Steps
<1>2. UNCHANGED <<lock, wav, tmp, target>> /\ file' \in [Files -> FileSet]
  BY ExitEffect
<1>3. PICK pc : MovesTo(p, pc, at[p].seg)
  BY ExitEffect
<1> QED BY <1>1, <1>2, <1>3, Types, RenderLock

(***************************************************************************)
(* The end of a rendering: a failure, or the renaming into the cache.      *)
(***************************************************************************)
LEMMA StoreEffect ==
    ASSUME LockInv, NEW p \in Producers, Store(p)
    PROVE  /\ wav' \in [Paths -> BOOLEAN] /\ file' = file
           /\ at[p].pc \in Steps /\ at[p].pc \in {"exited", "broken"} /\ at[p].seg \in Segs
           /\ \/ Fails(p) /\ UNCHANGED <<tmp, target>>
              \/ /\ at[p].pc = "exited" /\ tmp[Path(p, at[p].seg)] # None
                 /\ target' = [target EXCEPT ![<<Folder(BookOf(p)), at[p].seg>>] =
                                 tmp[Path(p, at[p].seg)]]
                 /\ tmp' = [tmp EXCEPT ![Path(p, at[p].seg)] = None]
                 /\ Release(p, "done")
                 /\ \/ p \in Books /\ Advance(p, at[p].seg)
                    \/ p \notin Books /\ MovesTo(p, "done", at[p].seg)
<1>1. at[p].pc \in Steps /\ at[p].pc \in {"exited", "broken"} /\ at[p].seg \in Segs
  BY DEF Store, Steps, LockInv, StepsShape
<1>2. "done" \in Places /\ (Move(p, "done", at[p].seg) => MovesTo(p, "done", at[p].seg))
  BY <1>1, Rendering DEF Places
<1>3. wav' \in [Paths -> BOOLEAN] /\ file' = file
  BY Types DEF Store
<1> QED BY <1>1, <1>2, <1>3 DEF Store

(***************************************************************************)
(* A rendering that ends gives its own lock back.                          *)
(***************************************************************************)
LEMMA StoreLock ==
    ASSUME LockInv, NEW p \in Producers, Store(p)
    PROVE  LockInv'
<1>1. /\ wav' \in [Paths -> BOOLEAN] /\ file' = file
      /\ at[p].pc \in Steps /\ at[p].seg \in Segs
  BY StoreEffect
<1>2. CASE Fails(p) /\ UNCHANGED <<tmp, target>>
  BY <1>1, <1>2, FailureLock
<1>3. CASE /\ target' = [target EXCEPT ![<<Folder(BookOf(p)), at[p].seg>>] =
                            tmp[Path(p, at[p].seg)]]
           /\ tmp' = [tmp EXCEPT ![Path(p, at[p].seg)] = None]
           /\ Release(p, "done")
           /\ \/ p \in Books /\ Advance(p, at[p].seg)
              \/ p \notin Books /\ MovesTo(p, "done", at[p].seg)
  <2>1. /\ lock' \in [Books -> Listeners \cup {None}]
        /\ \A l \in Listeners : l # p /\ at[l].pc \in Steps => lock'[BookOf(l)] = l
    BY <1>1, <1>3, ReleaseEffect
  <2>2. Path(p, at[p].seg) \in Paths /\ <<Folder(BookOf(p)), at[p].seg>> \in Slots
    BY <1>1, Producing
  <2>3. tmp' \in [Paths -> Files \cup {None}] /\ target' \in [Slots -> Files \cup {None}]
    BY <1>3, <2>2, Types
  <2>4. file' \in [Files -> FileSet]
    BY <1>1, Types
  <2>5. CASE p \in Books /\ Advance(p, at[p].seg)
    <3>1. PICK pc, s : MovesTo(p, pc, s)
      BY <1>1, <2>5, AdvanceEffect DEF SegIds
    <3>2. p \notin Listeners
      BY <2>5, Producing
    <3> QED BY <1>1, <2>1, <2>3, <2>4, <3>1, <3>2, LockKept
  <2>6. CASE MovesTo(p, "done", at[p].seg)
    <3>1. "done" \notin Steps
      BY DEF Steps
    <3> QED BY <1>1, <2>1, <2>3, <2>4, <2>6, <3>1, LockKept
  <2> QED BY <1>3, <2>5, <2>6
<1> QED BY <1>1, <1>2, <1>3, StoreEffect

(***************************************************************************)
(* Every step keeps LockInv.                                               *)
(***************************************************************************)
LEMMA LockStep ==
    ASSUME LockInv, [Next]_vars
    PROVE  LockInv'
<1>1. ASSUME NEW b \in Books, BatchBegins(b)
      PROVE  LockInv'
  BY <1>1, BeginLock
<1>2. ASSUME NEW l \in Listeners, Request(l) \/ Acquire(l)
      PROVE  LockInv'
  BY <1>2, RequestLock, AcquireLock
<1>3. ASSUME NEW p \in Producers, Renders(p)
      PROVE  LockInv'
  <2>1. CASE EngineFails(p)
    <3>1. /\ at[p].pc \in Steps /\ Fails(p) /\ wav' \in [Paths -> BOOLEAN]
          /\ UNCHANGED <<tmp, file, target>>
      BY <2>1, Types DEF EngineFails, Steps
    <3> QED BY <3>1, FailureLock
  <2>2. CASE Synthesized(p)
    BY <2>2, SynthesizedLock
  <2>3. CASE EncoderOpens(p)
    BY <2>3, OpensLock
  <2>4. CASE EncoderExits(p)
    BY <2>4, ExitsLock
  <2>5. CASE Store(p)
    BY <2>5, StoreLock
  <2> QED BY <1>3, <2>1, <2>2, <2>3, <2>4, <2>5 DEF Renders
<1>4. CASE UNCHANGED vars
  BY <1>4 DEF vars, LockInv, TypeOK, StepsShape, LockShape, BookOf
<1> QED BY <1>1, <1>2, <1>3, <1>4 DEF Next

(***************************************************************************)
(* LockInv holds in every reachable state, whatever the constants.         *)
(***************************************************************************)
LEMMA LockInvHolds == Spec => []LockInv
<1>1. Init => LockInv
  <2> SUFFICES ASSUME Init PROVE LockInv
    OBVIOUS
  <2>1. /\ [pc |-> "idle", seg |-> 0] \in AtSet /\ Blank \in FileSet
    BY DEF AtSet, Places, SegIds, Blank, FileSet
  <2>2. /\ at \in [Producers -> AtSet] /\ lock \in [Books -> Listeners \cup {None}]
        /\ wav \in [Paths -> BOOLEAN] /\ tmp \in [Paths -> Files \cup {None}]
        /\ file \in [Files -> FileSet] /\ target \in [Slots -> Files \cup {None}]
    BY <2>1 DEF Init, Slots
  <2>3. TypeOK
    BY <2>2 DEF TypeOK, AtSet, FileSet, Places, SegIds, Slots
  <2>4. \A p \in Producers : at[p].pc = "idle"
    BY DEF Init
  <2>5. StepsShape /\ LockShape
    BY <2>4 DEF StepsShape, LockShape, Steps, Producers
  <2> QED BY <2>3, <2>5 DEF LockInv
<1>2. LockInv /\ [Next]_vars => LockInv'
  BY LockStep
<1> QED BY <1>1, <1>2, PTL DEF Spec

(***************************************************************************)
(* Every variable keeps its type.                                          *)
(***************************************************************************)
THEOREM CacheTypeCorrect == Spec => []TypeOK
<1>1. LockInv => TypeOK
  BY DEF LockInv
<1> QED BY <1>1, LockInvHolds, PTL

(***************************************************************************)
(* A listener enters a rendering by taking the lock.                       *)
(***************************************************************************)
LEMMA ListenerBegins ==
    ASSUME LockInv, [Next]_vars, NEW l \in Listeners,
           at[l].pc # "synthesizing", at'[l].pc = "synthesizing"
    PROVE  /\ ~Cached(l, at[l].seg)
           /\ \A k \in Listeners \ {l} : BookOf(k) = BookOf(l) => at[k].pc \notin Steps
<1>1. /\ l \in Producers /\ l \notin Books /\ at \in [Producers -> AtSet]
      /\ \A p \in Producers : p \in Books <=> p \notin Listeners
  BY Types, Producing DEF Producers
<1>2. ASSUME NEW b \in Books, NEW done \in SegIds, Advance(b, done)
      PROVE  FALSE
  <2>1. PICK pc, s : MovesTo(b, pc, s)
    BY <1>2, AdvanceEffect
  <2>2. b \in Producers /\ b # l
    BY <1>1 DEF Producers
  <2> QED BY <1>1, <2>1, <2>2, MoveEffect
<1>3. ASSUME NEW p \in Producers, NEW pc, NEW s, pc # "synthesizing", Move(p, pc, s)
      PROVE  FALSE
  BY <1>1, <1>3 DEF Move
<1>4. CASE Acquire(l)
  <2>1. lock[BookOf(l)] = None
    BY <1>4 DEF Acquire
  <2>2. \A k \in Listeners : at[k].pc \in Steps => lock[BookOf(k)] # None
    BY CacheAssumption DEF LockInv, LockShape
  <2>3. ~Cached(l, at[l].seg)
    BY <1>1, <1>3, <1>4 DEF Acquire
  <2> QED BY <2>1, <2>2, <2>3
<1>5. ASSUME NEW b \in Books, BatchBegins(b)
      PROVE  FALSE
  BY <1>2, <1>5 DEF BatchBegins, SegIds
<1>6. ASSUME NEW k \in Listeners, Request(k)
      PROVE  FALSE
  <2>1. k \in Producers
    BY DEF Producers
  <2> QED BY <1>3, <1>6, <2>1 DEF Request
<1>7. ASSUME NEW k \in Listeners, k # l, Acquire(k)
      PROVE  FALSE
  <2>1. k \in Producers
    BY DEF Producers
  <2> QED BY <1>1, <1>7, <2>1 DEF Acquire, Move
<1>8. ASSUME NEW p \in Producers, Renders(p)
      PROVE  FALSE
  <2>1. CASE Store(p)
    <3>1. CASE Fails(p)
      BY <1>3, <3>1 DEF Fails
    <3>2. CASE p \in Books /\ Advance(p, at[p].seg)
      BY <1>2, <2>1, <3>2, StoreEffect DEF SegIds
    <3>3. CASE MovesTo(p, "done", at[p].seg)
      BY <1>3, <3>3 DEF MovesTo
    <3> QED BY <2>1, <3>1, <3>2, <3>3, StoreEffect
  <2>2. CASE ~Store(p)
    BY <1>3, <1>8, <2>2 DEF Renders, Synthesized, EngineFails, Fails, EncoderOpens, EncoderExits
  <2> QED BY <2>1, <2>2
<1>9. CASE UNCHANGED vars
  BY <1>9 DEF vars
<1> QED BY <1>4, <1>5, <1>6, <1>7, <1>8, <1>9 DEF Next

(***************************************************************************)
(* LiveNeverTwice: however many prefetches wait for one segment, one of    *)
(* them renders it and the others find it.                                 *)
(***************************************************************************)
THEOREM ListenersRenderOnce == Spec => LiveNeverTwice
<1>1. LockInv /\ [Next]_vars =>
        [\A l \in Listeners :
          at[l].pc # "synthesizing" /\ at'[l].pc = "synthesizing" =>
            /\ ~Cached(l, at[l].seg)
            /\ \A k \in Listeners \ {l} :
                 BookOf(k) = BookOf(l) => at[k].pc \notin Steps]_vars
  BY ListenerBegins
<1> QED BY <1>1, LockInvHolds, PTL DEF Spec, LiveNeverTwice

-----------------------------------------------------------------------------
(* The files. *)

(***************************************************************************)
(* Two producers at work never share a temporary path: the suffix tells    *)
(* batch and live apart, a book has one batch, its listeners one lock.     *)
(***************************************************************************)
LEMMA OwnPath ==
    ASSUME ~Shared, LockInv, NEW p \in Producers, NEW q \in Producers,
           at[p].pc \in Steps, at[q].pc \in Steps, NEW s, NEW t, Path(p, s) = Path(q, t)
    PROVE  p = q
<1>1. BookOf(p) = BookOf(q) /\ Suffix(p) = Suffix(q)
  BY DEF Path, Folder
<1>2. CASE p \in Listeners
  <2>1. q \in Listeners
    BY <1>1, <1>2 DEF Suffix
  <2> QED BY <1>1, <1>2, <2>1 DEF LockInv, LockShape
<1>3. CASE p \notin Listeners
  <2>1. q \notin Listeners
    BY <1>1, <1>3 DEF Suffix
  <2> QED BY <1>1, <1>3, <2>1, Producing DEF BookOf
<1> QED BY <1>2, <1>3

(***************************************************************************)
(* Writers encode to the path their file was created at.                   *)
(***************************************************************************)
LEMMA OwnFile ==
    ASSUME ~Shared, LockInv, FilesInv, NEW p \in Producers, at[p].pc \in Steps,
           NEW f \in Files, Home(f) = Path(p, at[p].seg), NEW q \in file[f].writers
    PROVE  q = p /\ at[p].pc = "encoding"
<1>1. q \in Producers /\ at[q].pc = "encoding" /\ Path(q, at[q].seg) = Home(f)
  BY Types DEF FilesInv, PathShape, FileSet
<1>2. at[q].pc \in Steps
  BY <1>1 DEF Steps
<1> QED BY <1>1, <1>2, OwnPath

(***************************************************************************)
(* A segment that is not cached has no file there of anybody.              *)
(***************************************************************************)
LEMMA NotCached ==
    ASSUME FilesInv, NEW p \in Producers, NEW s \in Segs, ~Cached(p, s), NEW y \in Slots,
           target[y] # None
    PROVE  target[y] # <<p, s>>
<1>1. Slot(target[y]) = y
  BY DEF FilesInv, PathShape
<1>2. Slot(<<p, s>>) = <<Folder(BookOf(p)), s>>
  BY Producing
<1> QED BY <1>1, <1>2 DEF Cached

(***************************************************************************)
(* A move that touches no file keeps the files in order.                   *)
(***************************************************************************)
LEMMA QuietMove ==
    ASSUME LockInv, FilesInv, NEW p \in Producers, NEW pc, NEW s, MovesTo(p, pc, s),
           at[p].pc # "encoding", pc \notin {"encoding", "exited"},
           UNCHANGED <<tmp, file, target>>,
           pc \in {"synthesizing", "spawned"} =>
             \A y \in Slots : target[y] # None => target[y] # <<p, s>>
    PROVE  FilesInv'
<1>1. /\ at'[p].pc = pc /\ at'[p].seg = s
      /\ \A q \in Producers : q # p => at'[q] = at[q]
  BY Types, MoveEffect
<1>2. PathShape'
  <2> SUFFICES ASSUME NEW f \in Files, NEW q \in file[f].writers
               PROVE  at'[q].pc = "encoding" /\ Path(q, at'[q].seg) = Home(f)
    BY DEF FilesInv, PathShape, Path, Home, Slot, Suffix, BookOf
  <2>1. at[q].pc = "encoding" /\ Path(q, at[q].seg) = Home(f) /\ q \in Producers
    BY Types DEF FilesInv, PathShape, FileSet
  <2> QED BY <1>1, <2>1
<1>3. CleanShape'
  <2>1. PublishedIsWhole' /\ \A x \in Paths, y \in Slots : tmp'[x] # None => target'[y] # tmp'[x]
    BY DEF FilesInv, CleanShape, PublishedIsWhole
  <2>2. ASSUME NEW q \in Producers, NEW y \in Slots,
               at'[q].pc \in {"synthesizing", "spawned"}, target'[y] # None
        PROVE  target'[y] # <<q, at'[q].seg>>
    BY <1>1, <2>2 DEF FilesInv, CleanShape
  <2>3. ASSUME NEW q \in Producers, at'[q].pc \in {"encoding", "exited"},
               tmp'[Path(q, at'[q].seg)] # None
        PROVE  ~file'[tmp'[Path(q, at'[q].seg)]].mixed
    BY <1>1, <2>3 DEF FilesInv, CleanShape
  <2> QED BY <2>1, <2>2, <2>3 DEF CleanShape, Path, Suffix, BookOf
<1> QED BY <1>2, <1>3 DEF FilesInv

(***************************************************************************)
(* A batch on its way to the next segment touches no file.                 *)
(***************************************************************************)
LEMMA AdvanceFiles ==
    ASSUME LockInv, FilesInv, NEW b \in Books, NEW done \in SegIds, Advance(b, done),
           at[b].pc # "encoding", UNCHANGED <<tmp, file, target>>
    PROVE  FilesInv'
<1>1. b \in Producers
  BY DEF Producers
<1>2. CASE MovesTo(b, "done", done)
  BY <1>1, <1>2, QuietMove
<1>3. ASSUME NEW s \in Segs, MovesTo(b, "synthesizing", s), ~Cached(b, s)
      PROVE  FilesInv'
  <2>1. \A y \in Slots : target[y] # None => target[y] # <<b, s>>
    BY <1>1, <1>3, NotCached
  <2> QED BY <1>1, <1>3, <2>1, QuietMove
<1> QED BY <1>2, <1>3, AdvanceEffect

(***************************************************************************)
(* A listener on the way to its rendering touches no file.                 *)
(***************************************************************************)
LEMMA ListenerFiles ==
    ASSUME LockInv, FilesInv, NEW l \in Listeners, Request(l) \/ Acquire(l)
    PROVE  FilesInv'
<1>1. l \in Producers /\ at[l].pc # "encoding" /\ UNCHANGED <<tmp, file, target>>
  BY DEF Producers, Request, Acquire
<1>2. CASE Request(l)
  <2>1. \E pc \in {"done", "waiting"} : MovesTo(l, pc, SegOfL[l])
    BY <1>2, CacheAssumption DEF Request, MovesTo, Places, Steps, SegIds
  <2>2. PICK pc : pc \in {"done", "waiting"} /\ MovesTo(l, pc, SegOfL[l])
    BY <2>1
  <2>3. pc \notin {"encoding", "exited"} /\ pc \notin {"synthesizing", "spawned"}
    BY <2>2
  <2>4. MovesTo(l, pc, SegOfL[l])
    BY <2>2
  <2> QED BY <1>1, <2>3, <2>4, QuietMove
<1>3. CASE Acquire(l)
  <2>1. at[l].seg \in Segs
    BY <1>1, <1>3 DEF Acquire, LockInv, StepsShape
  <2>2. CASE Move(l, "done", at[l].seg)
    <3>1. MovesTo(l, "done", at[l].seg)
      BY <2>1, <2>2 DEF MovesTo, Places, Steps, SegIds
    <3> QED BY <1>1, <3>1, QuietMove
  <2>3. CASE Move(l, "synthesizing", at[l].seg) /\ ~Cached(l, at[l].seg)
    <3>1. MovesTo(l, "synthesizing", at[l].seg)
      BY <2>1, <2>3 DEF MovesTo, Places, Steps, SegIds
    <3>2. \A y \in Slots : target[y] # None => target[y] # <<l, at[l].seg>>
      BY <1>1, <2>1, <2>3, NotCached
    <3> QED BY <1>1, <3>1, <3>2, QuietMove
  <2> QED BY <1>3, <2>2, <2>3 DEF Acquire
<1> QED BY <1>2, <1>3

(***************************************************************************)
(* The synthesis writes a wav no encoder reads.                            *)
(***************************************************************************)
LEMMA SynthesizedFiles ==
    ASSUME ~Shared, LockInv, FilesInv, NEW p \in Producers, Synthesized(p)
    PROVE  FilesInv'
<1>1. MovesTo(p, "spawned", at[p].seg) /\ at[p].pc = "synthesizing" /\ at[p].pc \in Steps
      /\ UNCHANGED <<tmp, target>>
  BY SynthesizedLock DEF Synthesized, Steps
<1>2. \A f \in Files : f \notin Disturbed(Path(p, at[p].seg))
  <2> SUFFICES ASSUME NEW f \in Files, NEW q \in file[f].writers,
                      at[q].pc = "encoding", Path(q, at[q].seg) = Path(p, at[p].seg)
               PROVE  FALSE
    BY DEF Disturbed
  <2>1. q \in Producers /\ at[q].pc \in Steps
    BY Types DEF FileSet, Steps
  <2> QED BY <1>1, <2>1, OwnPath
<1>3. file' = file
  <2>1. file = [f \in Files |-> file[f]]
    BY Types
  <2> QED BY <1>2, <2>1 DEF Synthesized
<1>4. \A y \in Slots : target[y] # None => target[y] # <<p, at[p].seg>>
  BY <1>1 DEF FilesInv, CleanShape
<1> QED BY <1>1, <1>3, <1>4, QuietMove

(***************************************************************************)
(* The encoder opens a file nobody writes to and no cache holds.           *)
(***************************************************************************)
LEMMA OpensFiles ==
    ASSUME ~Shared, LockInv, FilesInv, NEW p \in Producers, EncoderOpens(p)
    PROVE  FilesInv'
<1> DEFINE s == at[p].seg
           x == Path(p, s)
           f == Opened(p)
<1>1. at[p].pc = "spawned" /\ at[p].pc \in Steps /\ s \in Segs /\ target' = target
  BY DEF EncoderOpens, Steps, LockInv, StepsShape
<1>2. CASE MovesTo(p, "broken", s) /\ UNCHANGED <<tmp, file>>
  BY <1>1, <1>2, QuietMove
<1>3. CASE /\ MovesTo(p, "encoding", s) /\ f \in Files
           /\ tmp' = [tmp EXCEPT ![x] = f]
           /\ file' = [file EXCEPT ![f] = [writers |-> file[f].writers \cup {p},
                                           mixed |-> file[f].writers # {}]]
  <2>1. /\ x \in Paths /\ Home(<<p, s>>) = x
        /\ f = IF tmp[x] = None THEN <<p, s>> ELSE tmp[x]
    BY <1>1, Producing DEF Opened
  <2>2. Home(f) = x
    BY <2>1 DEF FilesInv, PathShape
  <2>3. ASSUME NEW q \in file[f].writers
        PROVE  FALSE
    BY <1>1, <1>3, <2>2, <2>3, OwnFile
  <2>4. file[f].writers = {}
    BY <2>3
  <2>5. \A y \in Slots : target[y] # None => target[y] # f
    BY <1>1, <2>1 DEF FilesInv, CleanShape
  <2> HIDE DEF f
  <2>6. /\ at'[p].pc = "encoding" /\ at'[p].seg = s
        /\ \A q \in Producers : q # p => at'[q] = at[q]
    BY <1>3, Types, MoveEffect
  <2>7. /\ tmp'[x] = f /\ \A z \in Paths : z # x => tmp'[z] = tmp[z]
        /\ file'[f].writers = {p} /\ ~file'[f].mixed
        /\ \A g \in Files : g # f => file'[g] = file[g]
    <3>1. tmp'[x] = f /\ \A z \in Paths : z # x => tmp'[z] = tmp[z]
      BY <1>3, <2>1, Types
    <3>2. file'[f] = [writers |-> file[f].writers \cup {p}, mixed |-> file[f].writers # {}]
      BY <1>3, Types
    <3>3. \A g \in Files : g # f => file'[g] = file[g]
      BY <1>3, Types
    <3>4. file'[f].writers = {p}
      BY <2>4, <3>2
    <3>5. ~file'[f].mixed
      <4>1. (file[f].writers # {}) = FALSE
        BY <2>4
      <4>2. file'[f] = [writers |-> file[f].writers \cup {p}, mixed |-> FALSE]
        BY <3>2, <4>1, Zenon
      <4> QED BY <4>2
    <3> QED BY <3>1, <3>3, <3>4, <3>5
  <2> HIDE DEF s, x
  <2>8. PathShape'
    <3>1. \A z \in Paths : tmp'[z] # None => Home(tmp'[z]) = z
      BY <2>1, <2>2, <2>7 DEF FilesInv, PathShape
    <3>2. \A y \in Slots : target'[y] # None => Slot(target'[y]) = y
      BY <1>1 DEF FilesInv, PathShape
    <3>3. ASSUME NEW g \in Files, NEW q \in file'[g].writers
          PROVE  at'[q].pc = "encoding" /\ Path(q, at'[q].seg) = Home(g)
      <4>1. CASE g = f
        BY <2>2, <2>6, <2>7, <3>3, <4>1 DEF x
      <4>2. CASE g # f
        <5>1. q \in file[g].writers
          BY <2>7, <3>3, <4>2
        <5>2. q \in Producers /\ at[q].pc = "encoding" /\ Path(q, at[q].seg) = Home(g)
          BY <5>1, Types DEF FilesInv, PathShape, FileSet
        <5>3. q # p
          BY <1>1, <5>2
        <5> QED BY <2>6, <5>2, <5>3
      <4> QED BY <4>1, <4>2
    <3> QED BY <3>1, <3>2, <3>3 DEF PathShape, Home, Slot, Path, Suffix, BookOf
  <2>9. CleanShape'
    <3>1. PublishedIsWhole'
      <4> SUFFICES ASSUME NEW y \in Slots, target[y] # None
                   PROVE  file'[target[y]] = Blank
        BY <1>1 DEF PublishedIsWhole, Slots
      <4>1. target[y] \in Files /\ target[y] # f /\ file[target[y]] = Blank
        BY <2>5, Types DEF FilesInv, CleanShape, PublishedIsWhole, Slots
      <4> QED BY <2>7, <4>1
    <3>2. \A z \in Paths, y \in Slots : tmp'[z] # None => target'[y] # tmp'[z]
      BY <1>1, <2>5, <2>7 DEF FilesInv, CleanShape
    <3>3. ASSUME NEW q \in Producers, NEW y \in Slots,
                 at'[q].pc \in {"synthesizing", "spawned"}, target'[y] # None
          PROVE  target'[y] # <<q, at'[q].seg>>
      BY <1>1, <2>6, <3>3 DEF FilesInv, CleanShape
    <3>4. ASSUME NEW q \in Producers, at'[q].pc \in {"encoding", "exited"},
                 tmp'[Path(q, at'[q].seg)] # None
          PROVE  ~file'[tmp'[Path(q, at'[q].seg)]].mixed
      <4>1. CASE q = p
        BY <2>6, <2>7, <4>1 DEF x
      <4>2. CASE q # p
        <5> DEFINE z == Path(q, at[q].seg)
        <5>1. at'[q] = at[q] /\ at[q].pc \in Steps /\ at[q].pc \in {"encoding", "exited"}
          BY <2>6, <3>4, <4>2 DEF Steps
        <5>2. z \in Paths
          BY <5>1, Producing DEF LockInv, StepsShape
        <5>3. z # x
          BY <1>1, <4>2, <5>1, OwnPath DEF x
        <5>4. tmp'[z] = tmp[z] /\ tmp[z] # None
          BY <2>7, <3>4, <5>1, <5>2, <5>3
        <5>5. Home(tmp[z]) = z /\ ~file[tmp[z]].mixed
          BY <5>1, <5>2, <5>4 DEF FilesInv, PathShape, CleanShape
        <5>6. tmp[z] # f /\ tmp[z] \in Files
          BY <2>2, <5>2, <5>3, <5>4, <5>5, Types
        <5> QED BY <2>7, <5>1, <5>4, <5>5, <5>6
      <4> QED BY <4>1, <4>2
    <3> QED BY <3>1, <3>2, <3>3, <3>4 DEF CleanShape, Path, Suffix, BookOf
  <2> QED BY <2>8, <2>9 DEF FilesInv
<1> QED BY <1>2, <1>3, OpenEffect

(***************************************************************************)
(* The encoder ends, and writes to nothing any more.                       *)
(***************************************************************************)
LEMMA ExitsFiles ==
    ASSUME LockInv, FilesInv, NEW p \in Producers, EncoderExits(p)
    PROVE  FilesInv'
<1>1. /\ UNCHANGED <<tmp, target>> /\ at[p].pc = "encoding"
      /\ \A f \in Files : /\ file'[f].writers = file[f].writers \ {p}
                          /\ file'[f].mixed = file[f].mixed
      /\ file' \in [Files -> FileSet]
  BY ExitEffect DEF EncoderExits
<1>2. PICK pc \in {"exited", "broken"} : MovesTo(p, pc, at[p].seg)
  BY ExitEffect
<1>3. /\ at'[p].pc \in {"exited", "broken"} /\ at'[p].seg = at[p].seg
      /\ \A q \in Producers : q # p => at'[q] = at[q]
  BY <1>2, Types, MoveEffect
<1>4. PathShape'
  <2> SUFFICES ASSUME NEW f \in Files, NEW q \in file'[f].writers
               PROVE  at'[q].pc = "encoding" /\ Path(q, at'[q].seg) = Home(f)
    BY <1>1 DEF FilesInv, PathShape, Path, Home, Slot, Suffix, BookOf
  <2>1. q \in file[f].writers /\ q # p
    BY <1>1
  <2>2. at[q].pc = "encoding" /\ Path(q, at[q].seg) = Home(f) /\ q \in Producers
    BY <2>1, Types DEF FilesInv, PathShape, FileSet
  <2> QED BY <1>3, <2>1, <2>2
<1>5. CleanShape'
  <2>1. PublishedIsWhole'
    <3> SUFFICES ASSUME NEW y \in Slots, target[y] # None
                 PROVE  file'[target[y]] = Blank
      BY <1>1 DEF PublishedIsWhole, Slots
    <3>1. target[y] \in Files /\ file[target[y]] = Blank
      BY Types DEF FilesInv, CleanShape, PublishedIsWhole, Slots
    <3>2. file'[target[y]] \in FileSet
      BY <1>1, <3>1
    <3>3. file'[target[y]].writers = {} /\ file'[target[y]].mixed = FALSE
      BY <1>1, <3>1 DEF Blank
    <3> QED BY <3>2, <3>3 DEF FileSet, Blank
  <2>2. \A x \in Paths, y \in Slots : tmp'[x] # None => target'[y] # tmp'[x]
    BY <1>1 DEF FilesInv, CleanShape
  <2>3. ASSUME NEW q \in Producers, NEW y \in Slots,
               at'[q].pc \in {"synthesizing", "spawned"}, target'[y] # None
        PROVE  target'[y] # <<q, at'[q].seg>>
    BY <1>1, <1>3, <2>3 DEF FilesInv, CleanShape
  <2>4. ASSUME NEW q \in Producers, at'[q].pc \in {"encoding", "exited"},
               tmp'[Path(q, at'[q].seg)] # None
        PROVE  ~file'[tmp'[Path(q, at'[q].seg)]].mixed
    <3>1. at[q].pc \in {"encoding", "exited"} /\ at'[q].seg = at[q].seg
      BY <1>1, <1>3, <2>4
    <3>2. at[q].seg \in Segs
      BY <3>1 DEF LockInv, StepsShape, Steps
    <3>3. Path(q, at[q].seg) \in Paths
      BY <3>2, Producing
    <3>4. tmp[Path(q, at[q].seg)] \in Files /\ ~file[tmp[Path(q, at[q].seg)]].mixed
      BY <1>1, <2>4, <3>1, <3>3, Types DEF FilesInv, CleanShape
    <3> QED BY <1>1, <3>1, <3>4
  <2> QED BY <2>1, <2>2, <2>3, <2>4 DEF CleanShape, Path, Suffix, BookOf
<1> QED BY <1>4, <1>5 DEF FilesInv

(***************************************************************************)
(* A whole file is renamed into the cache.                                 *)
(***************************************************************************)
LEMMA RenameFiles ==
    ASSUME ~Shared, LockInv, FilesInv, NEW p \in Producers,
           at[p].pc = "exited", at[p].seg \in Segs, tmp[Path(p, at[p].seg)] # None,
           target' = [target EXCEPT ![<<Folder(BookOf(p)), at[p].seg>>] =
                        tmp[Path(p, at[p].seg)]],
           tmp' = [tmp EXCEPT ![Path(p, at[p].seg)] = None],
           file' = file, NEW pc, NEW s, MovesTo(p, pc, s), pc \in {"done", "synthesizing"},
           pc = "synthesizing" => ~Cached(p, s) /\ s # at[p].seg
    PROVE  FilesInv'
<1> DEFINE x == Path(p, at[p].seg)
           y0 == <<Folder(BookOf(p)), at[p].seg>>
           f == tmp[x]
<1>1. x \in Paths /\ y0 \in Slots /\ at[p].pc \in Steps /\ f \in Files /\ f # None
  BY Producing, Types DEF Steps
<1>2. Home(f) = x /\ ~file[f].mixed
  BY <1>1 DEF FilesInv, PathShape, CleanShape
<1>3. Slot(f) = y0
  BY <1>2 DEF Home, Slot, Path
<1>4. file[f] = Blank
  <2>1. ASSUME NEW q \in file[f].writers
        PROVE  FALSE
    BY <1>1, <1>2, <2>1, OwnFile
  <2>2. file[f] \in FileSet
    BY <1>1, Types
  <2> QED BY <1>2, <2>1, <2>2 DEF FileSet, Blank
<1>5. /\ target'[y0] = f /\ \A y \in Slots : y # y0 => target'[y] = target[y]
      /\ tmp'[x] = None /\ \A z \in Paths : z # x => tmp'[z] = tmp[z]
  BY <1>1, Types
<1>6. /\ at'[p].pc = pc /\ at'[p].seg = s
      /\ \A q \in Producers : q # p => at'[q] = at[q]
  BY Types, MoveEffect
<1>a. \A q \in Producers : q # p /\ at[q].pc \in Steps => Path(q, at[q].seg) # x
  BY <1>1, OwnPath
<1>b. pc = "synthesizing" =>
        /\ \A y \in Slots : target[y] # None => target[y] # <<p, s>>
        /\ s # at[p].seg
        /\ s \in Segs
  <2> SUFFICES ASSUME pc = "synthesizing"
               PROVE  /\ \A y \in Slots : target[y] # None => target[y] # <<p, s>>
                      /\ s # at[p].seg
                      /\ s \in Segs
    OBVIOUS
  <2>1. s \in Segs
    BY DEF MovesTo, Steps
  <2>2. \A y \in Slots : target[y] # None => target[y] # <<p, s>>
    BY <2>1, NotCached
  <2> QED BY <2>1, <2>2
<1> HIDE DEF x, y0, f
<1>7. PathShape'
  <2>1. \A z \in Paths : tmp'[z] # None => Home(tmp'[z]) = z
    BY <1>5 DEF FilesInv, PathShape
  <2>2. \A y \in Slots : target'[y] # None => Slot(target'[y]) = y
    BY <1>3, <1>5 DEF FilesInv, PathShape
  <2>3. ASSUME NEW g \in Files, NEW q \in file'[g].writers
        PROVE  at'[q].pc = "encoding" /\ Path(q, at'[q].seg) = Home(g)
    <3>1. q \in Producers /\ at[q].pc = "encoding" /\ Path(q, at[q].seg) = Home(g)
      BY <2>3, Types DEF FilesInv, PathShape, FileSet
    <3> QED BY <1>6, <3>1
  <2> QED BY <2>1, <2>2, <2>3 DEF PathShape, Home, Slot, Path, Suffix, BookOf
<1>8. CleanShape'
  <2>1. PublishedIsWhole'
    <3> SUFFICES ASSUME NEW y \in Slots, target'[y] # None
                 PROVE  file[target'[y]] = Blank
      BY DEF PublishedIsWhole, Slots
    <3>1. CASE y = y0
      BY <1>4, <1>5, <3>1
    <3>2. CASE y # y0
      BY <1>5, <3>2 DEF FilesInv, CleanShape, PublishedIsWhole, Slots
    <3> QED BY <3>1, <3>2
  <2>2. ASSUME NEW z \in Paths, NEW y \in Slots, tmp'[z] # None
        PROVE  target'[y] # tmp'[z]
    <3>1. z # x /\ tmp'[z] = tmp[z] /\ Home(tmp[z]) = z
      BY <1>5, <2>2 DEF FilesInv, PathShape
    <3>2. CASE y = y0
      BY <1>2, <1>5, <3>1, <3>2
    <3>3. CASE y # y0
      BY <1>5, <2>2, <3>1, <3>3 DEF FilesInv, CleanShape
    <3> QED BY <3>2, <3>3
  <2>3. ASSUME NEW q \in Producers, NEW y \in Slots,
               at'[q].pc \in {"synthesizing", "spawned"}, target'[y] # None
        PROVE  target'[y] # <<q, at'[q].seg>>
    <3>1. at'[q].pc \in Steps /\ (q # p => at[q].pc \in Steps /\ at[q].seg \in Segs)
      BY <1>6, <2>3 DEF Steps, LockInv, StepsShape
    <3>2. at'[q].seg \in Segs
      BY <1>6, <1>b, <2>3, <3>1
    <3>3. CASE y = y0
      <4>1. q = p \/ Path(q, at[q].seg) # x
        BY <1>a, <3>1
      <4>2. Home(<<q, at'[q].seg>>) = Path(q, at'[q].seg)
        BY <3>2, Producing
      <4>3. CASE q # p
        BY <1>2, <1>5, <1>6, <3>3, <4>1, <4>2, <4>3
      <4>4. CASE q = p
        <5>1. at'[q].seg # at[p].seg
          BY <1>6, <1>b, <2>3, <4>4
        <5>2. Path(q, at'[q].seg) # x
          BY <4>4, <5>1 DEF x, Path
        <5> QED BY <1>2, <1>5, <3>3, <4>2, <5>2
      <4> QED BY <4>3, <4>4
    <3>4. CASE y # y0
      <4>1. CASE q = p
        BY <1>5, <1>6, <1>b, <2>3, <3>4, <4>1
      <4>2. CASE q # p
        BY <1>5, <1>6, <2>3, <3>4, <4>2 DEF FilesInv, CleanShape
      <4> QED BY <4>1, <4>2
    <3> QED BY <3>3, <3>4
  <2>4. ASSUME NEW q \in Producers, at'[q].pc \in {"encoding", "exited"},
               tmp'[Path(q, at'[q].seg)] # None
        PROVE  ~file'[tmp'[Path(q, at'[q].seg)]].mixed
    <3>1. q # p /\ at'[q] = at[q] /\ at[q].pc \in Steps
      BY <1>6, <2>4 DEF Steps
    <3>2. Path(q, at[q].seg) # x /\ Path(q, at[q].seg) \in Paths
      BY <1>a, <3>1, Producing DEF LockInv, StepsShape
    <3>3. tmp'[Path(q, at[q].seg)] = tmp[Path(q, at[q].seg)]
      BY <1>5, <3>2
    <3> QED BY <2>4, <3>1, <3>3 DEF FilesInv, CleanShape
  <2> QED BY <2>1, <2>2, <2>3, <2>4 DEF CleanShape, Path, Suffix, BookOf
<1> QED BY <1>7, <1>8 DEF FilesInv

(***************************************************************************)
(* The generation that goes on after the renaming looks at the cache       *)
(* before the step, and at larger segments only.                           *)
(***************************************************************************)
LEMMA StoreFiles ==
    ASSUME ~Shared, LockInv, FilesInv, NEW p \in Producers, Store(p)
    PROVE  FilesInv'
<1>1. /\ file' = file /\ at[p].pc \in Steps
      /\ at[p].pc \in {"exited", "broken"} /\ at[p].seg \in Segs
  BY StoreEffect
<1>2. CASE Fails(p) /\ UNCHANGED <<tmp, target>>
  <2>1. MovesTo(p, "failed", at[p].seg)
    BY <1>1, <1>2, Rendering DEF Fails, Places
  <2> QED BY <1>1, <1>2, <2>1, QuietMove
<1>3. CASE /\ at[p].pc = "exited" /\ tmp[Path(p, at[p].seg)] # None
           /\ target' = [target EXCEPT ![<<Folder(BookOf(p)), at[p].seg>>] =
                           tmp[Path(p, at[p].seg)]]
           /\ tmp' = [tmp EXCEPT ![Path(p, at[p].seg)] = None]
           /\ \/ p \in Books /\ Advance(p, at[p].seg)
              \/ p \notin Books /\ MovesTo(p, "done", at[p].seg)
  <2>1. CASE MovesTo(p, "done", at[p].seg)
    BY <1>1, <1>3, <2>1, RenameFiles
  <2>2. CASE p \in Books /\ Advance(p, at[p].seg)
    <3>1. at[p].seg \in SegIds
      BY <1>1 DEF SegIds
    <3>2. CASE MovesTo(p, "done", at[p].seg)
      BY <2>1, <3>2
    <3>3. ASSUME NEW s \in Segs, MovesTo(p, "synthesizing", s), ~Cached(p, s),
                 s # at[p].seg
          PROVE  FilesInv'
      BY <1>1, <1>3, <3>3, RenameFiles
    <3> QED BY <2>2, <3>1, <3>2, <3>3, AdvanceEffect
  <2> QED BY <1>3, <2>1, <2>2
<1> QED BY <1>2, <1>3, StoreEffect

(***************************************************************************)
(* Every step keeps the files in order.                                    *)
(***************************************************************************)
LEMMA FilesStep ==
    ASSUME ~Shared, LockInv, FilesInv, [Next]_vars
    PROVE  FilesInv'
<1>1. ASSUME NEW b \in Books, BatchBegins(b)
      PROVE  FilesInv'
  <2>1. Advance(b, 0) /\ 0 \in SegIds /\ at[b].pc # "encoding" /\ UNCHANGED <<tmp, file, target>>
    BY <1>1 DEF BatchBegins, SegIds
  <2> QED BY <2>1, AdvanceFiles
<1>2. ASSUME NEW l \in Listeners, Request(l) \/ Acquire(l)
      PROVE  FilesInv'
  BY <1>2, ListenerFiles
<1>3. ASSUME NEW p \in Producers, Renders(p)
      PROVE  FilesInv'
  <2>1. CASE EngineFails(p)
    <3>1. at[p].pc \in Steps /\ at[p].pc # "encoding" /\ UNCHANGED <<tmp, file, target>>
          /\ Move(p, "failed", at[p].seg) /\ "failed" \in Places
      BY <2>1 DEF EngineFails, Fails, Steps, Places
    <3>2. MovesTo(p, "failed", at[p].seg)
      BY <3>1, Rendering
    <3> QED BY <3>1, <3>2, QuietMove
  <2> QED BY <1>3, <2>1, SynthesizedFiles, OpensFiles, ExitsFiles, StoreFiles DEF Renders
<1>4. CASE UNCHANGED vars
  BY <1>4 DEF vars, FilesInv, PathShape, CleanShape, PublishedIsWhole, Path, Home, Slot, Suffix, BookOf
<1> QED BY <1>1, <1>2, <1>3, <1>4 DEF Next

(***************************************************************************)
(* PublishedIsWhole: unless two books share a store folder, nothing is     *)
(* ever in the cache that an encoder still writes to, or that two wrote    *)
(* at a time, however listeners, batches and failures interleave.          *)
(***************************************************************************)
THEOREM CacheAlwaysWhole ==
    ASSUME ~Shared
    PROVE  Spec => []PublishedIsWhole
<1>1. Init => FilesInv
  <2> SUFFICES ASSUME Init PROVE FilesInv
    OBVIOUS
  <2>1. \A f \in Files : file[f].writers = {}
    BY DEF Init, Blank
  <2>2. \A p \in Producers : at[p].pc = "idle"
    BY DEF Init
  <2>3. /\ \A x \in Paths : tmp[x] = None
        /\ \A y \in Slots : target[y] = None
    BY DEF Init, Slots
  <2> QED BY <2>1, <2>2, <2>3 DEF FilesInv, PathShape, CleanShape, PublishedIsWhole, Slots
<1>2. LockInv /\ FilesInv /\ [Next]_vars => FilesInv'
  BY FilesStep
<1>3. FilesInv => PublishedIsWhole
  BY DEF FilesInv, CleanShape
<1> QED BY <1>1, <1>2, <1>3, LockInvHolds, PTL DEF Spec
=============================================================================
