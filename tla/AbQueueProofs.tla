---------------------------- MODULE AbQueueProofs ----------------------------
(***************************************************************************)
(* Proofs about AbQueue, for any books, chapters, rows, priorities and any *)
(* number of foreground generations and restarts, with deletions,          *)
(* publications, changed rules, listeners' renderings and failing updates. *)
(*                                                                         *)
(* AbInv is the inductive invariant.  OneProducer alone is not inductive:  *)
(* the loop's book is that of its row, so a working loop must have one,    *)
(* and a foreground producer none (ProducerShape).  CacheShape carries     *)
(* CompleteIsListenable: what the loop no longer has before it is in the   *)
(* folder it writes to, unless that is a store folder that was deleted     *)
(* since.  StoreShape says why a later publication cannot bring that       *)
(* folder back: its number is one nobody has chosen yet.                   *)
(***************************************************************************)
EXTENDS AbQueue, WellFoundedInduction, TLAPS

JobSet == [status : {"none", "running", "completed", "failed", "cancelled"}, cancel : BOOLEAN]

RowIds == Reqs \cup {NoReq}

RunSet == [pc : {"idle", "spawned", "rendering"}, req : Reqs \cup {NoReq},
           left : SUBSET Segs, seg : Segs \cup {0}, dir : Folder]

Endings == {"completed", "failed", "cancelled"}

\* The step makes a row complete that is not complete in `rows`.
Completes(rows) == \E q \in Reqs : row'[q] = "complete" /\ rows[q] # "complete"

\* The step takes producer p to the rendering of its next segment.
GoesOn(p, b, r, left, dir, done, job) ==
    /\ ~job.cancel /\ jobs'[b] = job
    /\ run'[p].pc = "rendering" /\ run'[p].req = r /\ run'[p].dir = dir
    /\ run'[p].seg \in Segs
    /\ left \subseteq run'[p].left \cup done

CacheSet == [Folder -> SUBSET Segs]

(***************************************************************************)
(* While a producer works on a book the book's job says running; the loop  *)
(* serves a row of its own and its book has no other producer.  Foreground *)
(* producers serve no row.                                                 *)
(***************************************************************************)
ProducerShape ==
    /\ \A p \in Producers : run[p].pc # "idle" => jobs[BookOf(p)].status = "running"
    /\ \A p \in Producers : run[p].pc = "rendering" => run[p].seg \in Segs
    /\ \A b \in Books : run[b].req = NoReq
    /\ run[Loop].pc # "idle" =>
        /\ run[Loop].pc = "rendering" /\ run[Loop].req \in Reqs
        /\ run[Book[run[Loop].req]].pc = "idle"

(***************************************************************************)
(* What the loop has passed over of its row's segments is in the folder it *)
(* writes to, as long as that folder is the book's own or published.       *)
(***************************************************************************)
CacheShape ==
    /\ run[Loop].pc # "idle"
    /\ Book[run[Loop].req] \in there
    /\ run[Loop].dir.place \in {OwnPlace} \cup stores[Book[run[Loop].req]]
    => Scope[run[Loop].req] \subseteq
         run[Loop].left \cup cache[Book[run[Loop].req]][run[Loop].dir]

(***************************************************************************)
(* A book is on its own or linked to a store book that is there; and a     *)
(* store number is nobody's before it is given out.                        *)
(***************************************************************************)
StoreShape ==
    /\ \A b \in Books : place[b] \in {OwnPlace} \cup stores[b] /\ stores[b] \subseteq 1..published
    /\ run[Loop].dir.place \in 0..published

AbInv == TypeOK /\ ProducerShape /\ CacheShape /\ StoreShape

-----------------------------------------------------------------------------
(* The operators the generation loop is built from. *)

(***************************************************************************)
(* A producer that rests is one, in no folder but a book's own.            *)
(***************************************************************************)
LEMMA IdleTyped ==
    /\ Idle \in RunSet /\ Idle.pc = "idle" /\ Idle.req = NoReq
    /\ Idle.dir.place = OwnPlace
<1>1. NoFolder \in Folder /\ NoFolder.place = OwnPlace
  <2>1. (CHOOSE x \in Rules : TRUE) \in Rules
    BY DataAssumption
  <2>2. OwnPlace \in Places
    BY BoundsAssumption DEF OwnPlace, Places
  <2> QED BY <2>1, <2>2 DEF NoFolder, Folder
<1> QED BY <1>1 DEF Idle, RunSet

(***************************************************************************)
(* Where a listener looks is a folder, the book's own or one of its store  *)
(* books'.                                                                 *)
(***************************************************************************)
LEMMA ListenedFolder ==
    ASSUME AbInv, NEW b \in Books
    PROVE  /\ Dir(b) \in Folder /\ Cached(b) \in SUBSET Segs
           /\ Dir(b).place \in {OwnPlace} \cup stores[b]
           /\ Dir(b).place \in 0..published
<1>1. place[b] \in Places /\ rules[Owner[b]] \in Rules
  BY DEF AbInv, TypeOK, Users
<1>2. Dir(b) \in Folder /\ Dir(b).place = place[b]
  BY <1>1 DEF Dir, Folder
<1>3. cache[b] \in CacheSet
  BY DEF AbInv, TypeOK, CacheSet
<1>4. place[b] \in {OwnPlace} \cup stores[b] /\ stores[b] \subseteq 1..published
  BY DEF AbInv, StoreShape
<1>5. published \in Nat
  BY BoundsAssumption DEF AbInv, TypeOK, Places
<1> QED BY <1>2, <1>3, <1>4, <1>5 DEF Cached, CacheSet, OwnPlace

(***************************************************************************)
(* A set of segment numbers has a smallest one: the loop's next segment    *)
(* is one of those to do.                                                  *)
(***************************************************************************)
LEMMA NextSegment ==
    ASSUME NEW T, T \subseteq Segs, T # {}
    PROVE  (CHOOSE m \in T : \A o \in T : m <= o) \in T
           /\ \A o \in T : (CHOOSE m \in T : \A o1 \in T : m <= o1) <= o
<1>1. T \subseteq Nat
  BY DataAssumption
<1>2. PICK m \in T : \A o \in T : ~(<<o, m>> \in OpToRel(<, Nat))
  BY <1>1, NatLessThanWellFounded, WFMin, Zenon
<1>3. \A o \in T : ~(o < m)
  BY <1>1, <1>2 DEF OpToRel
<1>4. \A o \in T : m <= o
  BY <1>1, <1>3
<1> QED BY <1>4

(***************************************************************************)
(* The end of a generation: its producer rests, its job has an end.        *)
(***************************************************************************)
LEMMA EndEffect ==
    ASSUME NEW p \in Producers, NEW b \in Books, NEW r \in RowIds,
           NEW rows \in [Reqs -> Status], NEW job \in JobSet,
           NEW st \in Endings,
           jobs \in [Books -> JobSet], run \in [Producers -> RunSet],
           End(p, b, r, rows, st, job)
    PROVE  /\ jobs' \in [Books -> JobSet] /\ run' \in [Producers -> RunSet]
           /\ row' \in [Reqs -> Status]
           /\ \A c \in Books : c # b => jobs'[c] = jobs[c]
           /\ \A q \in Producers : q # p => run'[q] = run[q]
           /\ run'[p] = Idle
           /\ \A q \in Reqs : q # r => row'[q] = rows[q]
           /\ Completes(rows) => st = "completed"
<1>1. Idle \in RunSet
  BY IdleTyped
<1>2. [job EXCEPT !.status = st] \in JobSet
  BY DEF JobSet, Endings
<1>3. run' = [run EXCEPT ![p] = Idle] /\ jobs' = [jobs EXCEPT ![b] = [job EXCEPT !.status = st]]
  BY DEF End, RowIds
<1>4. /\ jobs' \in [Books -> JobSet] /\ run' \in [Producers -> RunSet]
      /\ \A c \in Books : c # b => jobs'[c] = jobs[c]
      /\ \A q \in Producers : q # p => run'[q] = run[q]
      /\ run'[p] = Idle
  BY <1>1, <1>2, <1>3
<1>5. Final(st) \in Status /\ (st # "completed" => Final(st) # "complete")
  BY DEF Final, Status, Endings
<1>6. /\ row' \in [Reqs -> Status]
      /\ \A q \in Reqs : q # r => row'[q] = rows[q]
      /\ Completes(rows) => st = "completed"
  <2> USE DEF Completes
  <2>1. CASE row' = rows
    BY <2>1
  <2>2. CASE r \in Reqs /\ row' = [rows EXCEPT ![r] = Final(st)]
    BY <1>5, <2>2
  <2>3. (r \in Reqs /\ r # NoReq) \/ r = NoReq
    BY DataAssumption DEF RowIds
  <2> QED BY <2>1, <2>2, <2>3 DEF End, RowIds
<1> QED BY <1>4, <1>6

(***************************************************************************)
(* The generation loop up to its next await either ends, and completed     *)
(* only when all that was left is done, or goes on to a segment of `left`  *)
(* that is not done, leaving none behind, unless the job is cancelled.     *)
(***************************************************************************)
LEMMA ContinueEffect ==
    ASSUME NEW p \in Producers, NEW b \in Books, NEW r \in RowIds,
           NEW rows \in [Reqs -> Status], NEW job \in JobSet,
           NEW left \in SUBSET Segs, NEW done \in SUBSET Segs, NEW dir \in Folder,
           jobs \in [Books -> JobSet], run \in [Producers -> RunSet],
           Continue(p, b, r, rows, left, dir, done, job)
    PROVE  /\ jobs' \in [Books -> JobSet] /\ run' \in [Producers -> RunSet]
           /\ row' \in [Reqs -> Status]
           /\ \A c \in Books : c # b => jobs'[c] = jobs[c]
           /\ \A q \in Producers : q # p => run'[q] = run[q]
           /\ \A q \in Reqs : q # r => row'[q] = rows[q]
           /\ Completes(rows) => left \subseteq done
           /\ run'[p] = Idle \/ GoesOn(p, b, r, left, dir, done, job)
<1> DEFINE todo == left \ done
           s == CHOOSE m \in todo : \A o \in todo : m <= o
           next == [pc |-> "rendering", req |-> r, left |-> {o \in left : o >= s},
                    seg |-> s, dir |-> dir]
<1> DEFINE Goal ==
           /\ jobs' \in [Books -> JobSet] /\ run' \in [Producers -> RunSet]
           /\ row' \in [Reqs -> Status]
           /\ \A c \in Books : c # b => jobs'[c] = jobs[c]
           /\ \A q \in Producers : q # p => run'[q] = run[q]
           /\ \A q \in Reqs : q # r => row'[q] = rows[q]
           /\ Completes(rows) => left \subseteq done
           /\ run'[p] = Idle \/ GoesOn(p, b, r, left, dir, done, job)
<1>1. ASSUME NEW st \in Endings,
             End(p, b, r, rows, st, job), st = "completed" => todo = {}
      PROVE  Goal
  <2>1. /\ jobs' \in [Books -> JobSet] /\ run' \in [Producers -> RunSet]
        /\ row' \in [Reqs -> Status]
        /\ \A c \in Books : c # b => jobs'[c] = jobs[c]
        /\ \A q \in Producers : q # p => run'[q] = run[q]
        /\ run'[p] = Idle
        /\ \A q \in Reqs : q # r => row'[q] = rows[q]
    <3>1. End(p, b, r, rows, st, job)
      BY <1>1
    <3> HIDE DEF todo, s, next, Goal
    <3> QED BY <3>1, EndEffect
  <2>2. st = "completed" => left \subseteq done
    BY <1>1
  <2>3. Completes(rows) => st = "completed"
    <3>1. End(p, b, r, rows, st, job)
      BY <1>1
    <3> HIDE DEF todo, s, next, Goal
    <3> QED BY <3>1, EndEffect
  <2> QED BY <2>1, <2>2, <2>3
<1>2. /\ End(p, b, r, rows, "cancelled", job) => Goal
      /\ End(p, b, r, rows, "completed", job) /\ todo = {} => Goal
  <2> HIDE DEF Goal
  <2>1. "cancelled" \in Endings /\ "completed" \in Endings
    BY DEF Endings
  <2> QED BY <1>1, <2>1
<1>3. CASE /\ todo # {} /\ ~job.cancel
           /\ run' = [run EXCEPT ![p] = next]
           /\ jobs' = [jobs EXCEPT ![b] = job]
           /\ row' = rows
  <2>1. s \in todo /\ \A o \in todo : s <= o
    BY <1>3, NextSegment, Zenon
  <2> HIDE DEF s
  <2>2. next \in RunSet
    BY <2>1 DEF RunSet, RowIds
  <2>3. left \subseteq next.left \cup done
    BY <2>1, DataAssumption
  <2>4. next.pc = "rendering" /\ next.req = r /\ next.dir = dir /\ next.seg \in Segs
    BY <2>1
  <2> HIDE DEF next
  <2>5. /\ jobs' \in [Books -> JobSet] /\ run' \in [Producers -> RunSet]
        /\ ~Completes(rows) /\ row' \in [Reqs -> Status]
        /\ \A c \in Books : c # b => jobs'[c] = jobs[c]
        /\ \A q \in Producers : q # p => run'[q] = run[q]
        /\ run'[p] = next /\ jobs'[b] = job
    BY <1>3, <2>2 DEF Completes
  <2>6. GoesOn(p, b, r, left, dir, done, job)
    BY <1>3, <2>3, <2>4, <2>5 DEF GoesOn
  <2> QED BY <1>3, <2>5, <2>6
<1>4. left = {} => todo = {}
  OBVIOUS
<1> HIDE DEF todo, next, s
<1>5. \/ End(p, b, r, rows, "cancelled", job)
      \/ End(p, b, r, rows, "completed", job) /\ todo = {}
      \/ /\ todo # {} /\ ~job.cancel
         /\ run' = [run EXCEPT ![p] = next]
         /\ jobs' = [jobs EXCEPT ![b] = job]
         /\ row' = rows
  BY <1>4 DEF Continue, todo, next, s
<1> QED BY <1>2, <1>3, <1>5

-----------------------------------------------------------------------------
(* What the steps of the producers leave of the invariant. *)

(***************************************************************************)
(* What the invariant says of a producer at work.                          *)
(***************************************************************************)
LEMMA AtWork ==
    ASSUME AbInv, NEW p \in Producers, run[p].pc # "idle"
    PROVE  /\ BookOf(p) \in Books /\ jobs[BookOf(p)].status = "running"
           /\ run[p] \in RunSet /\ jobs[BookOf(p)] \in JobSet
           /\ run[p].pc = "rendering" => run[p].seg \in Segs
           /\ IF p = Loop THEN run[p].req \in Reqs /\ BookOf(p) = Book[run[p].req]
                          ELSE p = BookOf(p) /\ run[p].req = NoReq
           /\ \A q \in Producers : q # p /\ run[q].pc # "idle" => BookOf(q) # BookOf(p)
<1>1. /\ run \in [Producers -> RunSet] /\ jobs \in [Books -> JobSet]
      /\ p # Loop => p \in Books
      /\ Book \in [Reqs -> Books] /\ Loop \notin Books
  BY DataAssumption DEF AbInv, TypeOK, RunSet, JobSet, Producers
<1>2. IF p = Loop THEN run[p].req \in Reqs /\ BookOf(p) = Book[run[p].req]
                  ELSE p = BookOf(p) /\ run[p].req = NoReq
  BY <1>1 DEF AbInv, ProducerShape, BookOf
<1>3. BookOf(p) \in Books
  BY <1>1, <1>2
<1>4. jobs[BookOf(p)].status = "running"
  BY DEF AbInv, ProducerShape
<1>5. ASSUME NEW q \in Producers, q # p, run[q].pc # "idle", BookOf(q) = BookOf(p)
      PROVE  FALSE
  BY <1>1, <1>5 DEF AbInv, ProducerShape, BookOf, Producers
<1>6. run[p].pc = "rendering" => run[p].seg \in Segs
  BY DEF AbInv, ProducerShape
<1> QED BY <1>1, <1>2, <1>3, <1>4, <1>5, <1>6

(***************************************************************************)
(* One producer moves on or ends: the books still have one producer each.  *)
(***************************************************************************)
LEMMA ShapeAfter ==
    ASSUME AbInv, NEW p \in Producers, NEW b \in Books, NEW r \in RowIds,
           IF p = Loop THEN r \in Reqs /\ b = Book[r] ELSE p = b /\ r = NoReq,
           \A q \in Producers : q # p /\ run[q].pc # "idle" => BookOf(q) # b,
           \A c \in Books : c # b => jobs'[c] = jobs[c],
           \A q \in Producers : q # p => run'[q] = run[q],
           \/ run'[p] = Idle
           \/ /\ run'[p].pc \in {"spawned", "rendering"} /\ run'[p].req = r
              /\ p = Loop => run'[p].pc = "rendering"
              /\ run'[p].pc = "rendering" => run'[p].seg \in Segs
              /\ jobs'[b].status = "running"
    PROVE  ProducerShape'
<1>1. /\ Book \in [Reqs -> Books] /\ Loop \notin Books
      /\ Producers = Books \cup {Loop}
      /\ \A q \in Producers : BookOf(q) = IF q = Loop THEN Book[run[q].req] ELSE q
      /\ \A q \in Producers : BookOf(q)' = IF q = Loop THEN Book[run'[q].req] ELSE q
      /\ Idle.pc = "idle" /\ Idle.req = NoReq
  BY DataAssumption DEF Producers, BookOf, Idle
<1>2. ASSUME NEW q \in Producers, run'[q].pc # "idle"
      PROVE  jobs'[BookOf(q)'].status = "running"
  <2>1. CASE q = p
    BY <1>1, <1>2, <2>1
  <2>2. CASE q # p
    <3>1. run'[q] = run[q] /\ BookOf(q)' = BookOf(q) /\ BookOf(q) # b
      BY <1>1, <1>2, <2>2
    <3>2. BookOf(q) \in Books /\ jobs[BookOf(q)].status = "running"
      BY <1>2, <3>1, AtWork
    <3> QED BY <3>1, <3>2
  <2> QED BY <2>1, <2>2
<1>3. ASSUME NEW c \in Books
      PROVE  run'[c].req = NoReq
  BY <1>1 DEF AbInv, ProducerShape
<1>4. ASSUME run'[Loop].pc # "idle"
      PROVE  /\ run'[Loop].pc = "rendering" /\ run'[Loop].req \in Reqs
             /\ run'[Book[run'[Loop].req]].pc = "idle"
  <2>1. CASE p = Loop
    <3>1. run'[Loop].pc = "rendering" /\ run'[Loop].req = r /\ b = Book[r] /\ r \in Reqs
      BY <1>1, <1>4, <2>1
    <3>2. run[b].pc = "idle" /\ b # p
      BY <1>1, <2>1
    <3> QED BY <1>1, <3>1, <3>2
  <2>2. CASE p # Loop
    <3>1. run'[Loop] = run[Loop] /\ run[Loop].pc # "idle"
      BY <1>1, <1>4, <2>2
    <3>2. /\ run[Loop].pc = "rendering" /\ run[Loop].req \in Reqs
          /\ run[Book[run[Loop].req]].pc = "idle"
      BY <3>1 DEF AbInv, ProducerShape
    <3>3. Book[run[Loop].req] \in Books /\ Book[run[Loop].req] # b
      BY <1>1, <2>2, <3>1, <3>2
    <3> QED BY <1>1, <2>2, <3>1, <3>2, <3>3
  <2> QED BY <2>1, <2>2
<1>5. ASSUME NEW q \in Producers, run'[q].pc = "rendering"
      PROVE  run'[q].seg \in Segs
  BY <1>1, <1>5 DEF AbInv, ProducerShape
<1> QED BY <1>2, <1>3, <1>4, <1>5 DEF ProducerShape

(***************************************************************************)
(* Steps that leave the loop's producer alone, and the folders of a book   *)
(* that is there at most fuller.  A folder that is published in the step   *)
(* is not the loop's.                                                      *)
(***************************************************************************)
LEMMA CacheAfter ==
    ASSUME AbInv, run'[Loop] = run[Loop], there' \subseteq there,
           \A b \in there', d \in Folder :
             d.place \in 0..published /\ d.place \in {OwnPlace} \cup stores'[b] =>
               /\ d.place \in {OwnPlace} \cup stores[b]
               /\ cache[b][d] \subseteq cache'[b][d]
    PROVE  CacheShape'
<1> SUFFICES ASSUME run'[Loop].pc # "idle", Book[run'[Loop].req] \in there',
                    run'[Loop].dir.place \in {OwnPlace} \cup stores'[Book[run'[Loop].req]]
             PROVE  Scope[run'[Loop].req] \subseteq
                      run'[Loop].left \cup cache'[Book[run'[Loop].req]][run'[Loop].dir]
  BY DEF CacheShape, OwnPlace
<1> DEFINE b == Book[run[Loop].req]
           d == run[Loop].dir
<1>1. b \in there /\ b \in there' /\ run[Loop].pc # "idle" /\ run[Loop] \in RunSet
  BY DEF AbInv, TypeOK, RunSet, Producers
<1>2. d \in Folder /\ d.place \in 0..published /\ d.place \in {OwnPlace} \cup stores'[b]
  BY <1>1 DEF RunSet, RowIds, AbInv, StoreShape
<1>3. d.place \in {OwnPlace} \cup stores[b] =>
        Scope[run[Loop].req] \subseteq run[Loop].left \cup cache[b][d]
  BY <1>1 DEF AbInv, CacheShape
<1>4. Scope[run'[Loop].req] = Scope[run[Loop].req] /\ run'[Loop].left = run[Loop].left
  OBVIOUS
<1>5. Book[run'[Loop].req] = b /\ run'[Loop].dir = d
  OBVIOUS
<1> HIDE DEF b, d
<1>6. d.place \in {OwnPlace} \cup stores[b] /\ cache[b][d] \subseteq cache'[b][d]
  BY <1>1, <1>2
<1> QED BY <1>3, <1>4, <1>5, <1>6

(***************************************************************************)
(* Steps that touch no store book, and leave the loop in its folder or one *)
(* with a number that is given out.                                        *)
(***************************************************************************)
LEMMA StoreAfter ==
    ASSUME AbInv, UNCHANGED <<place, stores, published>>,
           run'[Loop] = run[Loop] \/ run'[Loop].dir.place \in 0..published
    PROVE  StoreShape'
BY DEF AbInv, StoreShape, OwnPlace

(***************************************************************************)
(* Storing a segment in a folder.                                          *)
(***************************************************************************)
LEMMA StoreSegment ==
    ASSUME cache \in [Books -> CacheSet], NEW b \in Books, NEW d \in Folder,
           NEW done \in SUBSET Segs, cache[b][d] \subseteq done,
           cache' = [cache EXCEPT ![b][d] = done]
    PROVE  /\ cache' \in [Books -> CacheSet] /\ cache'[b][d] = done
           /\ \A c \in Books, e \in Folder : cache[c][e] \subseteq cache'[c][e]
<1>1. cache[b] \in CacheSet
  OBVIOUS
<1>2. [cache[b] EXCEPT ![d] = done] \in CacheSet
  BY <1>1 DEF CacheSet
<1>3. cache' = [cache EXCEPT ![b] = [cache[b] EXCEPT ![d] = done]]
  OBVIOUS
<1>4. /\ cache' \in [Books -> CacheSet]
      /\ \A c \in Books : c # b => cache'[c] = cache[c]
      /\ cache'[b] = [cache[b] EXCEPT ![d] = done]
  BY <1>2, <1>3
<1>5. cache'[b][d] = done /\ \A e \in Folder : e # d => cache'[b][e] = cache[b][e]
  BY <1>1, <1>4 DEF CacheSet
<1>6. ASSUME NEW c \in Books, NEW e \in Folder
      PROVE  cache[c][e] \subseteq cache'[c][e]
  BY <1>4, <1>5
<1> QED BY <1>4, <1>5, <1>6

-----------------------------------------------------------------------------
(* Each step keeps AbInv. *)

(***************************************************************************)
(* The loop's own generation moves on or ends: the folder it writes to     *)
(* has what it passed over.                                                *)
(***************************************************************************)
LEMMA LoopCacheAfter ==
    ASSUME NEW r \in Reqs, NEW dir \in Folder, NEW left, NEW done,
           \/ run'[Loop] = Idle
           \/ /\ run'[Loop].req = r /\ run'[Loop].dir = dir
              /\ left \subseteq run'[Loop].left \cup done,
           Book[r] \in there' /\ dir.place \in {OwnPlace} \cup stores'[Book[r]] =>
             Scope[r] \subseteq left \cup done /\ cache'[Book[r]][dir] = done
    PROVE  CacheShape'
<1>1. Idle.pc = "idle"
  BY DEF Idle
<1> QED BY <1>1 DEF CacheShape, OwnPlace

(***************************************************************************)
(* A rendered segment is stored, and the loop goes on.                     *)
(***************************************************************************)
LEMMA RenderedStep ==
    ASSUME AbInv, NEW p \in Producers, Rendered(p)
    PROVE  AbInv'
<1> DEFINE b == BookOf(p)
           dir == run[p].dir
           done == cache[b][dir] \cup {run[p].seg}
           left == run[p].left \ {run[p].seg}
           r == run[p].req
<1>1. /\ b \in Books /\ r \in RowIds /\ dir \in Folder
      /\ left \in SUBSET Segs /\ done \in SUBSET Segs /\ jobs[b] \in JobSet
      /\ jobs[b].status = "running"
      /\ IF p = Loop THEN r \in Reqs /\ b = Book[r] ELSE p = b /\ r = NoReq
      /\ \A q \in Producers : q # p /\ run[q].pc # "idle" => BookOf(q) # b
  <2>1. /\ run[p] \in RunSet /\ b \in Books /\ run[p].seg \in Segs
        /\ jobs[b] \in JobSet /\ jobs[b].status = "running"
        /\ IF p = Loop THEN r \in Reqs /\ b = Book[r] ELSE p = b /\ r = NoReq
        /\ \A q \in Producers : q # p /\ run[q].pc # "idle" => BookOf(q) # b
    BY AtWork DEF Rendered
  <2>2. cache[b] \in CacheSet /\ dir \in Folder
    BY <2>1 DEF AbInv, TypeOK, CacheSet, RunSet
  <2>3. cache[b][dir] \subseteq Segs
    BY <2>2 DEF CacheSet
  <2> QED BY <2>1, <2>2, <2>3 DEF RunSet, RowIds
<1>2. /\ jobs \in [Books -> JobSet] /\ run \in [Producers -> RunSet]
      /\ row \in [Reqs -> Status] /\ cache \in [Books -> CacheSet]
  BY DEF AbInv, TypeOK, JobSet, RunSet, CacheSet
<1>3. /\ cache' = [cache EXCEPT ![b][dir] = done]
      /\ Continue(p, b, r, row, left, dir, done, jobs[b])
      /\ UNCHANGED <<created, now, there, place, stores, published, rules, live, offHours,
                     recovered, foreground, restarts>>
  BY DEF Rendered, folders, counters
<1>4. cache[b][dir] \subseteq done
  OBVIOUS
<1>a. Scope[r] \subseteq run[p].left \cup cache[b][dir] => Scope[r] \subseteq left \cup done
  OBVIOUS
<1> HIDE DEF b, dir, done, left, r
<1>5. /\ jobs' \in [Books -> JobSet] /\ run' \in [Producers -> RunSet]
      /\ row' \in [Reqs -> Status]
      /\ \A c \in Books : c # b => jobs'[c] = jobs[c]
      /\ \A q \in Producers : q # p => run'[q] = run[q]
      /\ run'[p] = Idle \/ GoesOn(p, b, r, left, dir, done, jobs[b])
  <2>1. /\ b \in Books /\ r \in RowIds /\ dir \in Folder
        /\ left \in SUBSET Segs /\ done \in SUBSET Segs /\ jobs[b] \in JobSet
    BY <1>1
  <2>2. Continue(p, b, r, row, left, dir, done, jobs[b])
    BY <1>3
  <2> QED BY <1>2, <2>1, <2>2, ContinueEffect
<1>6. /\ cache' \in [Books -> CacheSet] /\ cache'[b][dir] = done
      /\ \A c \in Books, e \in Folder : cache[c][e] \subseteq cache'[c][e]
  BY <1>1, <1>2, <1>3, <1>4, StoreSegment
<1>7. TypeOK'
  BY <1>3, <1>5, <1>6 DEF AbInv, TypeOK, JobSet, RunSet, CacheSet
<1>8. ProducerShape'
  BY <1>1, <1>5, ShapeAfter DEF GoesOn
<1>9. CacheShape'
  <2>1. CASE p = Loop
    <3>1. r \in Reqs /\ b = Book[r]
      BY <1>1, <2>1
    <3>2. b \in there /\ dir.place \in {OwnPlace} \cup stores[b] =>
            Scope[r] \subseteq left \cup done
      BY <1>a, <2>1, <3>1 DEF AbInv, CacheShape, Rendered, r, dir
    <3>3. Book[r] \in there' /\ dir.place \in {OwnPlace} \cup stores'[Book[r]] =>
            Scope[r] \subseteq left \cup done /\ cache'[Book[r]][dir] = done
      BY <1>3, <1>6, <3>1, <3>2
    <3>4. \/ run'[Loop] = Idle
          \/ /\ run'[Loop].req = r /\ run'[Loop].dir = dir
             /\ left \subseteq run'[Loop].left \cup done
      BY <1>5, <2>1 DEF GoesOn
    <3>5. dir \in Folder
      BY <1>1
    <3> QED BY <3>1, <3>3, <3>4, <3>5, LoopCacheAfter
  <2>2. CASE p # Loop
    <3>1. run'[Loop] = run[Loop] /\ there \subseteq Books
      BY <1>5, <2>2 DEF Producers, AbInv, TypeOK
    <3>2. there' = there /\ stores' = stores
      BY <1>3
    <3> QED BY <1>6, <3>1, <3>2, CacheAfter
  <2> QED BY <2>1, <2>2
<1>10. StoreShape'
  <2>1. CASE p = Loop
    <3>1. dir.place \in 0..published /\ OwnPlace \in 0..published
      BY <2>1, BoundsAssumption DEF AbInv, StoreShape, TypeOK, Places, OwnPlace, dir
    <3>2. run'[Loop].dir.place \in 0..published
      BY <1>5, <2>1, <3>1, IdleTyped DEF GoesOn
    <3> QED BY <1>3, <3>2, StoreAfter
  <2>2. CASE p # Loop
    <3>1. run'[Loop] = run[Loop]
      BY <1>5, <2>2 DEF Producers
    <3> QED BY <1>3, <3>1, StoreAfter
  <2> QED BY <2>1, <2>2
<1> QED BY <1>7, <1>8, <1>9, <1>10 DEF AbInv

(***************************************************************************)
(* A failed rendering ends the generation.                                 *)
(***************************************************************************)
LEMMA RenderFailedStep ==
    ASSUME AbInv, NEW p \in Producers, RenderFailed(p)
    PROVE  AbInv'
<1> DEFINE b == BookOf(p)
           r == run[p].req
<1>1. /\ b \in Books /\ r \in RowIds /\ jobs[b] \in JobSet /\ "failed" \in Endings
      /\ IF p = Loop THEN r \in Reqs /\ b = Book[r] ELSE p = b /\ r = NoReq
      /\ \A q \in Producers : q # p /\ run[q].pc # "idle" => BookOf(q) # b
  BY AtWork DEF RenderFailed, RunSet, RowIds, Endings
<1>2. /\ jobs \in [Books -> JobSet] /\ run \in [Producers -> RunSet] /\ row \in [Reqs -> Status]
  BY DEF AbInv, TypeOK, JobSet, RunSet
<1>3. /\ End(p, b, r, row, "failed", jobs[b])
      /\ UNCHANGED <<created, now, cache, there, place, stores, published, rules, live, offHours,
                     recovered, foreground, restarts>>
  BY DEF RenderFailed, folders, counters
<1> HIDE DEF b, r
<1>4. /\ jobs' \in [Books -> JobSet] /\ run' \in [Producers -> RunSet]
      /\ row' \in [Reqs -> Status]
      /\ \A c \in Books : c # b => jobs'[c] = jobs[c]
      /\ \A q \in Producers : q # p => run'[q] = run[q]
      /\ run'[p] = Idle
  <2>1. End(p, b, r, row, "failed", jobs[b])
    BY <1>3
  <2> QED BY <1>1, <1>2, <2>1, EndEffect
<1>5. TypeOK'
  BY <1>3, <1>4 DEF AbInv, TypeOK, JobSet, RunSet
<1>6. ProducerShape'
  BY <1>1, <1>4, ShapeAfter
<1>7. CacheShape'
  <2>1. CASE p = Loop
    BY <1>4, <2>1 DEF CacheShape, Idle
  <2>2. CASE p # Loop
    <3>1. run'[Loop] = run[Loop]
      BY <1>4, <2>2 DEF Producers
    <3> QED BY <1>3, <3>1, CacheAfter
  <2> QED BY <2>1, <2>2
<1>8. StoreShape'
  <2>1. run'[Loop] = run[Loop] \/ run'[Loop].dir.place = OwnPlace
    BY <1>4, IdleTyped DEF Producers
  <2>2. OwnPlace \in 0..published
    BY BoundsAssumption DEF AbInv, TypeOK, Places, OwnPlace
  <2> QED BY <1>3, <2>1, <2>2, StoreAfter
<1> QED BY <1>5, <1>6, <1>7, <1>8 DEF AbInv

(***************************************************************************)
(* A foreground generation starts where no producer is at work.            *)
(***************************************************************************)
LEMMA GenerateStep ==
    ASSUME AbInv, NEW b \in Books, Generate(b)
    PROVE  AbInv'
<1>1. PICK s \in Scopes :
        run' = [run EXCEPT ![b] = [Idle EXCEPT !.pc = "spawned", !.left = s]]
  BY DEF Generate
<1> DEFINE new == [Idle EXCEPT !.pc = "spawned", !.left = s]
<1>2. new \in RunSet /\ new.pc = "spawned" /\ new.req = NoReq
  BY DataAssumption, IdleTyped DEF Idle, RunSet
<1> HIDE DEF new
<1>3. /\ run \in [Producers -> RunSet] /\ jobs \in [Books -> JobSet]
      /\ Running \in JobSet /\ Running.status = "running"
      /\ b \in Producers /\ b # Loop
  BY DataAssumption DEF AbInv, TypeOK, RunSet, JobSet, Running, Producers
<1>4. /\ run' \in [Producers -> RunSet] /\ run'[b] = new
      /\ \A q \in Producers : q # b => run'[q] = run[q]
      /\ jobs' \in [Books -> JobSet] /\ jobs'[b] = Running
      /\ \A c \in Books : c # b => jobs'[c] = jobs[c]
  <2>1. run' = [run EXCEPT ![b] = new] /\ jobs' = [jobs EXCEPT ![b] = Running]
    BY <1>1 DEF new, Generate
  <2> QED BY <1>2, <1>3, <2>1
<1>5. foreground' \in 0..MaxForeground
  BY BoundsAssumption DEF Generate, AbInv, TypeOK
<1>a. UNCHANGED <<row, created, now, cache, there, place, stores, published, rules, live, offHours,
                  recovered, restarts>>
  BY DEF Generate, folders
<1>6. TypeOK'
  BY <1>4, <1>5, <1>a DEF AbInv, TypeOK, JobSet, RunSet
<1>7. ProducerShape'
  <2>1. \A q \in Producers : run[q].pc # "idle" => BookOf(q) # b
    BY DEF Generate, AbInv, ProducerShape
  <2>2. b \in Producers /\ NoReq \in RowIds /\ b # Loop
    BY <1>3 DEF RowIds
  <2>3. /\ run'[b].pc = "spawned" /\ run'[b].req = NoReq /\ jobs'[b].status = "running"
    BY <1>2, <1>3, <1>4
  <2> QED BY <1>4, <2>1, <2>2, <2>3, ShapeAfter
<1>8. CacheShape'
  <2>1. run'[Loop] = run[Loop]
    BY <1>3, <1>4 DEF Producers
  <2> QED BY <1>a, <2>1, CacheAfter
<1>9. StoreShape'
  <2>1. run'[Loop] = run[Loop]
    BY <1>3, <1>4 DEF Producers
  <2> QED BY <1>a, <2>1, StoreAfter
<1> QED BY <1>6, <1>7, <1>8, <1>9 DEF AbInv

(***************************************************************************)
(* The spawned task enters the loop, or dies for want of its book.         *)
(***************************************************************************)
LEMMA SpawnedStep ==
    ASSUME AbInv, NEW b \in Books, Spawned(b)
    PROVE  AbInv'
<1>1. /\ b \in Producers /\ b # Loop /\ BookOf(b) = b /\ run[b].pc = "spawned"
      /\ NoReq \in RowIds
      /\ UNCHANGED <<created, now, cache, there, place, stores, published, rules, live, offHours,
                     recovered, foreground, restarts>>
  BY DataAssumption DEF Spawned, Producers, BookOf, RowIds, folders, counters
<1>2. /\ jobs[b] \in JobSet /\ jobs[b].status = "running" /\ run[b] \in RunSet
      /\ \A q \in Producers : q # b /\ run[q].pc # "idle" => BookOf(q) # b
  BY <1>1, AtWork
<1>3. /\ jobs \in [Books -> JobSet] /\ run \in [Producers -> RunSet]
      /\ row \in [Reqs -> Status] /\ cache[b] \in CacheSet
  BY DEF AbInv, TypeOK, JobSet, RunSet, CacheSet
<1>4. /\ jobs' \in [Books -> JobSet] /\ run' \in [Producers -> RunSet]
      /\ row' \in [Reqs -> Status]
      /\ \A c \in Books : c # b => jobs'[c] = jobs[c]
      /\ \A q \in Producers : q # b => run'[q] = run[q]
      /\ \/ run'[b] = Idle
         \/ GoesOn(b, b, NoReq, run[b].left, Dir(b), Cached(b), jobs[b])
  <2>1. CASE run' = [run EXCEPT ![b] = Idle] /\ UNCHANGED <<row, jobs>>
    <3> QED BY <1>1, <1>3, <2>1, IdleTyped
  <2>2. CASE Continue(b, b, NoReq, row, run[b].left, Dir(b), Cached(b), jobs[b])
    <3>1. Dir(b) \in Folder /\ Cached(b) \in SUBSET Segs /\ run[b].left \in SUBSET Segs
      BY <1>2, ListenedFolder DEF RunSet
    <3> QED BY <1>1, <1>2, <1>3, <2>2, <3>1, ContinueEffect
  <2> QED BY <2>1, <2>2 DEF Spawned
<1>5. TypeOK'
  BY <1>1, <1>4 DEF AbInv, TypeOK, JobSet, RunSet
<1>6. ProducerShape'
  <2>1. \/ run'[b] = Idle
        \/ /\ run'[b].pc = "rendering" /\ run'[b].req = NoReq /\ run'[b].seg \in Segs
           /\ jobs'[b].status = "running"
    BY <1>2, <1>4 DEF GoesOn
  <2> QED BY <1>1, <1>2, <1>4, <2>1, ShapeAfter
<1>7. CacheShape'
  <2>1. run'[Loop] = run[Loop]
    BY <1>1, <1>4 DEF Producers
  <2> QED BY <1>1, <2>1, CacheAfter
<1>8. StoreShape'
  <2>1. run'[Loop] = run[Loop]
    BY <1>1, <1>4 DEF Producers
  <2> QED BY <1>1, <2>1, StoreAfter
<1> QED BY <1>5, <1>6, <1>7, <1>8 DEF AbInv

(***************************************************************************)
(* Flagging a job for cancellation.                                        *)
(***************************************************************************)
LEMMA FlagStep ==
    ASSUME AbInv, jobs' \in [Books -> JobSet],
           \A c \in Books : jobs'[c].status = jobs[c].status,
           row' \in [Reqs -> Status],
           UNCHANGED <<created, now, run, cache, there, place, stores, published, rules, live,
                       offHours, recovered, foreground, restarts>>
    PROVE  AbInv'
<1>1. TypeOK'
  BY DEF AbInv, TypeOK, JobSet, CacheSet
<1>2. ProducerShape'
  <2>1. \A p \in Producers : BookOf(p)' = BookOf(p)
    BY DEF BookOf
  <2>2. \A p \in Producers : run[p].pc # "idle" => BookOf(p) \in Books
    BY AtWork
  <2> QED BY <2>1, <2>2 DEF AbInv, ProducerShape
<1>3. CacheShape' /\ StoreShape'
  BY CacheAfter, StoreAfter
<1> QED BY <1>1, <1>2, <1>3 DEF AbInv

(***************************************************************************)
(* The cancel button flags the job and moves no producer.                  *)
(***************************************************************************)
LEMMA CancelGenerationStep ==
    ASSUME AbInv, NEW b \in Books, CancelGeneration(b)
    PROVE  AbInv'
<1>1. /\ jobs \in [Books -> JobSet] /\ row \in [Reqs -> Status]
      /\ cache \in [Books -> CacheSet]
  BY DEF AbInv, TypeOK, JobSet, CacheSet
<1>2. jobs' = [jobs EXCEPT ![b].cancel = TRUE]
  BY DEF CancelGeneration
<1>3. jobs' \in [Books -> JobSet] /\ \A c \in Books : jobs'[c].status = jobs[c].status
  BY <1>1, <1>2 DEF JobSet
<1>4. UNCHANGED <<row, created, now, run, cache, there, place, stores, published, rules, live,
                  offHours, recovered, foreground, restarts>>
  BY DEF CancelGeneration, folders, counters
<1> QED BY <1>1, <1>3, <1>4, FlagStep

(***************************************************************************)
(* A deletion moves no producer, and what is cached of the books that stay *)
(* is kept.                                                                *)
(***************************************************************************)
LEMMA DeleteStep ==
    ASSUME AbInv, NEW b \in Books, Delete(b)
    PROVE  AbInv'
<1>1. /\ jobs \in [Books -> JobSet] /\ row \in [Reqs -> Status]
      /\ cache \in [Books -> CacheSet] /\ there \subseteq Books
  BY DEF AbInv, TypeOK, JobSet, CacheSet
<1>2. jobs' = jobs \/ jobs' = [jobs EXCEPT ![b].cancel = TRUE]
  BY DEF Delete
<1>3. jobs' \in [Books -> JobSet] /\ \A c \in Books : jobs'[c].status = jobs[c].status
  <2>1. CASE jobs' = jobs
    BY <1>1, <2>1
  <2>2. CASE jobs' = [jobs EXCEPT ![b].cancel = TRUE]
    BY <1>1, <2>2 DEF JobSet
  <2> QED BY <1>2, <2>1, <2>2
<1>4. /\ there' = there \ {b} /\ place' = [place EXCEPT ![b] = OwnPlace]
      /\ cache' = [cache EXCEPT ![b] = [f \in Folder |->
                      IF f.place = OwnPlace THEN {} ELSE cache[b][f]]]
      /\ UNCHANGED <<row, created, now, run, stores, published, rules, live, offHours, recovered,
                     foreground, restarts>>
  BY DEF Delete, counters
<1>5. /\ cache' \in [Books -> CacheSet]
      /\ \A c \in Books : c # b => cache'[c] = cache[c]
  <2>1. [f \in Folder |-> IF f.place = OwnPlace THEN {} ELSE cache[b][f]] \in CacheSet
    BY <1>1 DEF CacheSet
  <2> QED BY <1>1, <1>4, <2>1
<1>6. place \in [Books -> Places] /\ OwnPlace \in Places
  BY BoundsAssumption DEF AbInv, TypeOK, Places, OwnPlace
<1>7. TypeOK'
  <2>1. place' \in [Books -> Places] /\ there' \subseteq Books
    BY <1>1, <1>4, <1>6
  <2> QED BY <1>3, <1>4, <1>5, <2>1 DEF AbInv, TypeOK, JobSet, CacheSet
<1>8. ProducerShape'
  <2>1. \A p \in Producers : BookOf(p)' = BookOf(p)
    BY <1>4 DEF BookOf
  <2>2. \A p \in Producers : run[p].pc # "idle" => BookOf(p) \in Books
    BY AtWork
  <2> QED BY <1>3, <1>4, <2>1, <2>2 DEF AbInv, ProducerShape
<1>9. CacheShape'
  <2>1. /\ there' \subseteq there /\ stores' = stores /\ run' = run
        /\ \A c \in there', d \in Folder : cache[c][d] \subseteq cache'[c][d]
    BY <1>1, <1>4, <1>5
  <2> QED BY <2>1, CacheAfter
<1>10. StoreShape'
  <2>1. \A c \in Books : place'[c] \in {OwnPlace} \cup stores[c]
    BY <1>4, <1>6 DEF AbInv, StoreShape
  <2> QED BY <1>4, <2>1 DEF AbInv, StoreShape, OwnPlace
<1> QED BY <1>7, <1>8, <1>9, <1>10 DEF AbInv

(***************************************************************************)
(* A cancelled row is flagged in memory at most.                           *)
(***************************************************************************)
LEMMA CancelRowStep ==
    ASSUME AbInv, NEW r \in Reqs, CancelRow(r)
    PROVE  AbInv'
<1>1. /\ jobs \in [Books -> JobSet] /\ row \in [Reqs -> Status]
      /\ cache \in [Books -> CacheSet] /\ Book[r] \in Books
  BY DataAssumption DEF AbInv, TypeOK, JobSet, CacheSet
<1>2. jobs' = jobs \/ jobs' = [jobs EXCEPT ![Book[r]].cancel = TRUE]
  BY DEF CancelRow
<1>3. jobs' \in [Books -> JobSet] /\ \A c \in Books : jobs'[c].status = jobs[c].status
  <2>1. CASE jobs' = jobs
    BY <1>1, <2>1
  <2>2. CASE jobs' = [jobs EXCEPT ![Book[r]].cancel = TRUE]
    BY <1>1, <2>2 DEF JobSet
  <2> QED BY <1>2, <2>1, <2>2
<1>4. row' \in [Reqs -> Status]
  BY <1>1 DEF CancelRow, Status
<1>5. UNCHANGED <<created, now, run, cache, there, place, stores, published, rules, live,
                  offHours, recovered, foreground, restarts>>
  BY DEF CancelRow, folders, counters
<1> QED BY <1>1, <1>3, <1>4, <1>5, FlagStep

(***************************************************************************)
(* A new row waits.                                                        *)
(***************************************************************************)
LEMMA EnqueueStep ==
    ASSUME AbInv, NEW r \in Reqs, Enqueue(r)
    PROVE  AbInv'
<1>1. row' \in [Reqs -> Status] /\ now' \in Nat /\ created' \in [Reqs -> Nat]
  BY DEF Enqueue, AbInv, TypeOK, Status
<1>2. UNCHANGED <<jobs, run, cache, there, place, stores, published, rules, live, offHours,
                  recovered, foreground, restarts>>
  BY DEF Enqueue, folders, counters
<1>3. TypeOK'
  BY <1>1, <1>2 DEF AbInv, TypeOK
<1>4. ProducerShape' /\ CacheShape' /\ StoreShape'
  BY <1>2 DEF AbInv, ProducerShape, CacheShape, StoreShape, BookOf, OwnPlace
<1> QED BY <1>3, <1>4 DEF AbInv

(***************************************************************************)
(* A listener's request takes the folder it finds ...                      *)
(***************************************************************************)
LEMMA LiveBeginsStep ==
    ASSUME AbInv, NEW b \in Books, NEW s \in Segs, LiveBegins(b, s)
    PROVE  AbInv'
<1>1. /\ live' = live \cup {[book |-> b, seg |-> s, dir |-> Dir(b)]}
      /\ UNCHANGED <<row, created, now, jobs, run, cache, there, place, stores, published, rules,
                     offHours, recovered, foreground, restarts>>
  BY DEF LiveBegins, folders, counters
<1>2. [book |-> b, seg |-> s, dir |-> Dir(b)] \in Rendering
  BY ListenedFolder DEF Rendering
<1>3. TypeOK'
  BY <1>1, <1>2 DEF AbInv, TypeOK
<1>4. ProducerShape' /\ CacheShape' /\ StoreShape'
  BY <1>1 DEF AbInv, ProducerShape, CacheShape, StoreShape, BookOf, OwnPlace
<1> QED BY <1>3, <1>4 DEF AbInv

(***************************************************************************)
(* ... and its segment is one more there, if it is rendered.               *)
(***************************************************************************)
LEMMA LiveEndsStep ==
    ASSUME AbInv, NEW l \in live, LiveEnds(l)
    PROVE  AbInv'
<1> DEFINE b == l.book
           d == l.dir
           done == cache[b][d] \cup {l.seg}
<1>1. cache \in [Books -> CacheSet] /\ b \in Books /\ d \in Folder /\ l.seg \in Segs
  BY DEF AbInv, TypeOK, CacheSet, Rendering
<1>2. done \in SUBSET Segs /\ cache[b][d] \subseteq done
  BY <1>1 DEF CacheSet
<1>3. /\ live' = live \ {l} /\ (cache' = cache \/ cache' = [cache EXCEPT ![b][d] = done])
      /\ UNCHANGED <<row, created, now, jobs, run, there, place, stores, published, rules,
                     offHours, recovered, foreground, restarts>>
  BY DEF LiveEnds, folders, counters
<1> HIDE DEF b, d, done
<1>4. /\ cache' \in [Books -> CacheSet]
      /\ \A c \in Books, e \in Folder : cache[c][e] \subseteq cache'[c][e]
  <2>1. CASE cache' = cache
    BY <1>1, <2>1
  <2>2. CASE cache' = [cache EXCEPT ![b][d] = done]
    BY <1>1, <1>2, <2>2, StoreSegment
  <2> QED BY <1>3, <2>1, <2>2
<1>5. TypeOK'
  BY <1>3, <1>4 DEF AbInv, TypeOK, CacheSet
<1>6. ProducerShape'
  BY <1>3 DEF AbInv, ProducerShape, BookOf
<1>7. CacheShape'
  <2>1. there' \subseteq Books /\ there' = there /\ stores' = stores /\ run' = run
    BY <1>3 DEF AbInv, TypeOK
  <2> QED BY <1>4, <2>1, CacheAfter
<1>8. StoreShape'
  BY <1>3, StoreAfter
<1> QED BY <1>5, <1>6, <1>7, <1>8 DEF AbInv

(***************************************************************************)
(* Publishing fills a store folder nobody writes to yet.                   *)
(***************************************************************************)
LEMMA PublishStep ==
    ASSUME AbInv, NEW b \in Books, Publish(b)
    PROVE  AbInv'
<1> DEFINE n == published + 1
           own(f) == [f EXCEPT !.place = OwnPlace]
           new == [f \in Folder |-> IF f.place = n THEN cache[b][own(f)] ELSE cache[b][f]]
<1>1. /\ cache \in [Books -> CacheSet] /\ there \subseteq Books /\ published \in Nat
      /\ place \in [Books -> Places] /\ stores \in [Books -> SUBSET Places]
      /\ n \in Places /\ OwnPlace \in Places
  BY BoundsAssumption DEF AbInv, TypeOK, CacheSet, Places, OwnPlace, Publish
<1>2. /\ published' = n /\ place' = [place EXCEPT ![b] = n]
      /\ stores' = [stores EXCEPT ![b] = stores[b] \cup {n}]
      /\ cache' = [cache EXCEPT ![b] = new]
      /\ UNCHANGED <<row, created, now, jobs, run, there, rules, live, offHours, recovered,
                     foreground, restarts>>
  BY DEF Publish, counters
<1>3. new \in CacheSet
  <2>1. \A f \in Folder : own(f) \in Folder
    BY <1>1 DEF Folder
  <2> HIDE DEF own, n
  <2> QED BY <1>1, <2>1 DEF CacheSet
<1>4. \A f \in Folder : f.place # n => new[f] = cache[b][f]
  OBVIOUS
<1> HIDE DEF new
<1>5. /\ cache' \in [Books -> CacheSet] /\ cache'[b] = new
      /\ \A c \in Books : c # b => cache'[c] = cache[c]
  BY <1>1, <1>2, <1>3
<1>6. TypeOK'
  <2>1. place' \in [Books -> Places] /\ stores' \in [Books -> SUBSET Places] /\ published' \in Places
    <3> HIDE DEF n
    <3> QED BY <1>1, <1>2
  <2> QED BY <1>2, <1>5, <2>1 DEF AbInv, TypeOK, CacheSet
<1>7. ProducerShape'
  BY <1>2 DEF AbInv, ProducerShape, BookOf
<1>8. ASSUME NEW c \in there', NEW d \in Folder, d.place \in 0..published,
             d.place \in {OwnPlace} \cup stores'[c]
      PROVE  d.place \in {OwnPlace} \cup stores[c] /\ cache[c][d] \subseteq cache'[c][d]
  <2>1. d.place # n
    BY <1>1, <1>8
  <2> HIDE DEF n
  <2>2. c \in Books
    BY <1>1, <1>2
  <2>3. d.place \in {OwnPlace} \cup stores[c]
    BY <1>1, <1>2, <1>8, <2>1, <2>2
  <2>4. cache'[c][d] = cache[c][d]
    BY <1>4, <1>5, <2>1, <2>2
  <2> QED BY <2>3, <2>4
<1>9. CacheShape'
  <2>1. run'[Loop] = run[Loop] /\ there' \subseteq there
    BY <1>2
  <2> QED BY <1>8, <2>1, CacheAfter
<1>10. StoreShape'
  <2>1. ASSUME NEW c \in Books
        PROVE  place'[c] \in {OwnPlace} \cup stores'[c] /\ stores'[c] \subseteq 1..n
    <3>1. place[c] \in {OwnPlace} \cup stores[c] /\ stores[c] \subseteq 1..published
      BY DEF AbInv, StoreShape
    <3>2. 1..published \subseteq 1..n /\ n \in 1..n
      BY <1>1
    <3> HIDE DEF n
    <3> QED BY <1>1, <1>2, <3>1, <3>2
  <2>2. run'[Loop].dir.place \in 0..n
    BY <1>1, <1>2 DEF AbInv, StoreShape
  <2> HIDE DEF n
  <2> QED BY <1>2, <2>1, <2>2 DEF StoreShape, OwnPlace
<1> QED BY <1>6, <1>7, <1>9, <1>10 DEF AbInv

(***************************************************************************)
(* A store folder that is deleted is no folder the loop's row is judged    *)
(* by any more.                                                            *)
(***************************************************************************)
LEMMA UnpublishStep ==
    ASSUME AbInv, NEW b \in Books, NEW n \in Places, Unpublish(b, n)
    PROVE  AbInv'
<1> DEFINE new == [f \in Folder |-> IF f.place = n THEN {} ELSE cache[b][f]]
<1>1. /\ cache \in [Books -> CacheSet] /\ there \subseteq Books
      /\ place \in [Books -> Places] /\ stores \in [Books -> SUBSET Places]
      /\ OwnPlace \in Places
  BY BoundsAssumption DEF AbInv, TypeOK, CacheSet, Places, OwnPlace
<1>2. /\ n \in stores[b] /\ stores' = [stores EXCEPT ![b] = stores[b] \ {n}]
      /\ place' = [place EXCEPT ![b] = IF place[b] = n THEN OwnPlace ELSE place[b]]
      /\ cache' = [cache EXCEPT ![b] = new]
      /\ UNCHANGED <<row, created, now, jobs, run, there, published, rules, live, offHours,
                     recovered, foreground, restarts>>
  BY DEF Unpublish, counters
<1>3. new \in CacheSet /\ \A f \in Folder : f.place # n => new[f] = cache[b][f]
  BY <1>1 DEF CacheSet
<1> HIDE DEF new
<1>4. /\ cache' \in [Books -> CacheSet] /\ cache'[b] = new
      /\ \A c \in Books : c # b => cache'[c] = cache[c]
  BY <1>1, <1>2, <1>3
<1>5. TypeOK'
  <2>1. place' \in [Books -> Places] /\ stores' \in [Books -> SUBSET Places]
    BY <1>1, <1>2
  <2> QED BY <1>2, <1>4, <2>1 DEF AbInv, TypeOK, CacheSet
<1>6. ProducerShape'
  BY <1>2 DEF AbInv, ProducerShape, BookOf
<1>a. n # OwnPlace
  BY <1>2 DEF AbInv, StoreShape, OwnPlace
<1>7. ASSUME NEW c \in there', NEW d \in Folder, d.place \in {OwnPlace} \cup stores'[c]
      PROVE  d.place \in {OwnPlace} \cup stores[c] /\ cache[c][d] \subseteq cache'[c][d]
  <2>1. c \in Books
    BY <1>1, <1>2
  <2>2. d.place \in {OwnPlace} \cup stores[c] /\ (c = b => d.place # n)
    BY <1>1, <1>2, <1>a, <1>7, <2>1
  <2> QED BY <1>3, <1>4, <2>1, <2>2
<1>8. CacheShape'
  <2>1. run'[Loop] = run[Loop] /\ there' \subseteq there
    BY <1>2
  <2> QED BY <1>7, <2>1, CacheAfter
<1>9. StoreShape'
  <2>1. ASSUME NEW c \in Books
        PROVE  place'[c] \in {OwnPlace} \cup stores'[c] /\ stores'[c] \subseteq 1..published
    <3>1. place[c] \in {OwnPlace} \cup stores[c] /\ stores[c] \subseteq 1..published
      BY DEF AbInv, StoreShape
    <3> QED BY <1>1, <1>2, <3>1
  <2> QED BY <1>2, <2>1 DEF AbInv, StoreShape, OwnPlace
<1> QED BY <1>5, <1>6, <1>8, <1>9 DEF AbInv

(***************************************************************************)
(* Changed rules move the listener, not the loop.                          *)
(***************************************************************************)
LEMMA ChangeRulesStep ==
    ASSUME AbInv, NEW u \in Users, ChangeRules(u)
    PROVE  AbInv'
<1>1. PICK x \in Rules : rules' = [rules EXCEPT ![u] = x]
  BY DEF ChangeRules
<1>2. UNCHANGED <<row, created, now, jobs, run, cache, there, place, stores, published, live,
                  offHours, recovered, foreground, restarts>>
  BY DEF ChangeRules, counters
<1>3. TypeOK'
  BY <1>1, <1>2 DEF AbInv, TypeOK
<1>4. ProducerShape' /\ CacheShape' /\ StoreShape'
  BY <1>2 DEF AbInv, ProducerShape, CacheShape, StoreShape, BookOf, OwnPlace
<1> QED BY <1>3, <1>4 DEF AbInv

(***************************************************************************)
(* A restart: no producer is at work any more.                             *)
(***************************************************************************)
LEMMA RestartStep ==
    ASSUME AbInv, Restart
    PROVE  AbInv'
<1>1. /\ jobs' = [b \in Books |-> NoJob] /\ run' = [p \in Producers |-> Idle]
      /\ restarts' \in 0..MaxRestarts /\ recovered' = FALSE /\ live' = {}
      /\ UNCHANGED <<row, created, now, cache, there, place, stores, published, rules, offHours,
                     foreground>>
  BY BoundsAssumption DEF Restart, AbInv, TypeOK, folders
<1>2. TypeOK'
  <2>1. run' \in [Producers -> RunSet] /\ jobs' \in [Books -> JobSet]
    BY <1>1, IdleTyped DEF NoJob, JobSet
  <2> QED BY <1>1, <2>1 DEF AbInv, TypeOK, RunSet, JobSet
<1>3. \A p \in Producers : run'[p] = Idle
  BY <1>1
<1>4. ProducerShape' /\ CacheShape'
  BY <1>3, IdleTyped DEF ProducerShape, CacheShape, Producers
<1>5. StoreShape'
  <2>1. OwnPlace \in 0..published
    BY BoundsAssumption DEF AbInv, TypeOK, Places, OwnPlace
  <2> QED BY <1>1, <1>3, <2>1, IdleTyped, StoreAfter DEF Producers
<1> QED BY <1>2, <1>4, <1>5 DEF AbInv

(***************************************************************************)
(* The loop's first tick leaves every row a row; and no row is completed.  *)
(***************************************************************************)
LEMMA RecoverRows ==
    ASSUME AbInv
    PROVE  /\ Recover \in [Reqs -> Status]
           /\ \A q \in Reqs : Recover[q] = "complete" => row[q] = "complete"
BY DEF AbInv, TypeOK, Recover, Status

(***************************************************************************)
(* What a tick does once it has taken a row whose book has no producer.    *)
(***************************************************************************)
LEMMA TakenRow ==
    ASSUME AbInv, NEW r \in Reqs, jobs[Book[r]].status # "running",
           Continue(Loop, Book[r], r, [Recover EXCEPT ![r] = "processing"], Scope[r],
                    Dir(Book[r]), Cached(Book[r]), Running)
    PROVE  /\ jobs' \in [Books -> JobSet] /\ run' \in [Producers -> RunSet]
           /\ row' \in [Reqs -> Status]
           /\ \A c \in Books : c # Book[r] => jobs'[c] = jobs[c]
           /\ \A q \in Producers : q # Loop => run'[q] = run[q]
           /\ \A q \in Reqs : q # r /\ row'[q] = "complete" => row[q] = "complete"
           /\ row'[r] = "complete" => Scope[r] \subseteq Cached(Book[r])
           /\ \/ run'[Loop] = Idle
              \/ GoesOn(Loop, Book[r], r, Scope[r], Dir(Book[r]), Cached(Book[r]), Running)
<1> DEFINE rows == [Recover EXCEPT ![r] = "processing"]
           b == Book[r]
           d == Dir(b)
           done == Cached(b)
           left == Scope[r]
<1>1. /\ Recover \in [Reqs -> Status]
      /\ \A q \in Reqs : Recover[q] = "complete" => row[q] = "complete"
  BY RecoverRows
<1>2. /\ rows \in [Reqs -> Status] /\ rows[r] = "processing"
      /\ \A q \in Reqs : q # r => rows[q] = Recover[q]
  BY <1>1 DEF Status
<1>3. /\ Loop \in Producers /\ b \in Books /\ r \in RowIds /\ Running \in JobSet
      /\ left \in SUBSET Segs
  BY DataAssumption DEF Producers, RowIds, Running, JobSet
<1>4. jobs \in [Books -> JobSet] /\ run \in [Producers -> RunSet]
  BY DEF AbInv, TypeOK, JobSet, RunSet
<1>5. d \in Folder /\ done \in SUBSET Segs
  BY <1>3, ListenedFolder
<1>6. Continue(Loop, b, r, rows, left, d, done, Running)
  OBVIOUS
<1> HIDE DEF rows, b, d, done, left
<1>7. /\ jobs' \in [Books -> JobSet] /\ run' \in [Producers -> RunSet]
      /\ row' \in [Reqs -> Status]
      /\ \A c \in Books : c # b => jobs'[c] = jobs[c]
      /\ \A q \in Producers : q # Loop => run'[q] = run[q]
      /\ \A q \in Reqs : q # r => row'[q] = rows[q]
      /\ Completes(rows) => left \subseteq done
      /\ run'[Loop] = Idle \/ GoesOn(Loop, b, r, left, d, done, Running)
  BY <1>2, <1>3, <1>4, <1>5, <1>6, ContinueEffect
<1>8. row'[r] = "complete" => left \subseteq done
  BY <1>2, <1>7 DEF Completes
<1>9. \A q \in Reqs : q # r /\ row'[q] = "complete" => row[q] = "complete"
  BY <1>1, <1>2, <1>7
<1> QED BY <1>7, <1>8, <1>9 DEF b, d, done, left

(***************************************************************************)
(* A tick of the queue loop: it recovers, rests, leaves a row pending, or  *)
(* takes it.                                                               *)
(***************************************************************************)
LEMMA TickCases ==
    ASSUME AbInv, Tick
    PROVE  \/ row' = Recover /\ UNCHANGED <<jobs, run>>
           \/ \E r \in Reqs :
                /\ jobs[Book[r]].status # "running" /\ Book[r] \in there
                /\ Continue(Loop, Book[r], r, [Recover EXCEPT ![r] = "processing"], Scope[r],
                            Dir(Book[r]), Cached(Book[r]), Running)
BY DEF Tick, RunJob, Heads

(***************************************************************************)
(* A tick keeps AbInv: the book of the row it takes had no producer.       *)
(***************************************************************************)
LEMMA TickStep ==
    ASSUME AbInv, Tick
    PROVE  AbInv'
<1>1. /\ run[Loop].pc = "idle" /\ recovered' = TRUE
      /\ UNCHANGED <<created, now, cache, there, place, stores, published, rules, live, offHours,
                     foreground, restarts>>
  BY DEF Tick, folders, counters
<1>2. CASE row' = Recover /\ UNCHANGED <<jobs, run>>
  <2>1. TypeOK'
    BY <1>1, <1>2, RecoverRows DEF AbInv, TypeOK
  <2>2. ProducerShape' /\ CacheShape' /\ StoreShape'
    BY <1>1, <1>2 DEF AbInv, ProducerShape, CacheShape, StoreShape, BookOf, OwnPlace
  <2> QED BY <2>1, <2>2 DEF AbInv
<1>3. ASSUME NEW r \in Reqs, jobs[Book[r]].status # "running", Book[r] \in there,
             Continue(Loop, Book[r], r, [Recover EXCEPT ![r] = "processing"], Scope[r],
                      Dir(Book[r]), Cached(Book[r]), Running)
      PROVE  AbInv'
  <2> DEFINE b == Book[r]
             d == Dir(b)
             done == Cached(b)
             left == Scope[r]
  <2>1. /\ jobs' \in [Books -> JobSet] /\ run' \in [Producers -> RunSet]
        /\ row' \in [Reqs -> Status]
        /\ \A c \in Books : c # b => jobs'[c] = jobs[c]
        /\ \A q \in Producers : q # Loop => run'[q] = run[q]
        /\ run'[Loop] = Idle \/ GoesOn(Loop, b, r, left, d, done, Running)
    BY <1>3, TakenRow
  <2>2. /\ Loop \in Producers /\ b \in Books /\ r \in RowIds /\ Running.status = "running"
        /\ \A q \in Producers : run[q].pc # "idle" => BookOf(q) # b
    BY <1>3, DataAssumption DEF Producers, RowIds, Running, AbInv, ProducerShape
  <2>3. /\ d \in Folder /\ cache[b][d] = done /\ d.place \in 0..published
    BY <2>2, ListenedFolder DEF Cached
  <2> HIDE DEF d, done, left
  <2>4. TypeOK'
    BY <1>1, <2>1 DEF AbInv, TypeOK, JobSet, RunSet
  <2>5. ProducerShape'
    <3>1. \/ run'[Loop] = Idle
          \/ /\ run'[Loop].pc = "rendering" /\ run'[Loop].req = r /\ run'[Loop].seg \in Segs
             /\ jobs'[b].status = "running"
      BY <2>1, <2>2 DEF GoesOn
    <3> QED BY <2>1, <2>2, <3>1, ShapeAfter
  <2>6. CacheShape'
    <3>1. \/ run'[Loop] = Idle
          \/ /\ run'[Loop].req = r /\ run'[Loop].dir = d
             /\ left \subseteq run'[Loop].left \cup done
      BY <2>1 DEF GoesOn
    <3>2. Scope[r] \subseteq left \cup done /\ cache'[Book[r]][d] = done
      BY <1>1, <2>3 DEF left
    <3>3. d \in Folder
      BY <2>3
    <3> QED BY <3>1, <3>2, <3>3, LoopCacheAfter
  <2>7. StoreShape'
    <3>1. OwnPlace \in 0..published
      BY BoundsAssumption DEF AbInv, TypeOK, Places, OwnPlace
    <3>2. run'[Loop].dir.place \in 0..published
      BY <2>1, <2>3, <3>1, IdleTyped DEF GoesOn
    <3> QED BY <1>1, <3>2, StoreAfter
  <2> QED BY <2>4, <2>5, <2>6, <2>7 DEF AbInv
<1> QED BY <1>2, <1>3, TickCases

-----------------------------------------------------------------------------
(* The invariant. *)

(***************************************************************************)
(* Every step keeps AbInv.                                                 *)
(***************************************************************************)
LEMMA AbStep ==
    ASSUME AbInv, [Next]_vars
    PROVE  AbInv'
<1>1. CASE Tick
  BY <1>1, TickStep
<1>2. CASE Clock
  BY <1>2 DEF Clock, AbInv, TypeOK, ProducerShape, CacheShape, StoreShape, BookOf, OwnPlace,
               folders, counters
<1>3. CASE Restart
  BY <1>3, RestartStep
<1>4. ASSUME NEW p \in Producers, Producer(p)
      PROVE  AbInv'
  BY <1>4, RenderedStep, RenderFailedStep DEF Producer
<1>5. ASSUME NEW b \in Books,
             \/ Generate(b) \/ Spawned(b) \/ CancelGeneration(b)
             \/ Delete(b) \/ Publish(b)
      PROVE  AbInv'
  BY <1>5, GenerateStep, SpawnedStep, CancelGenerationStep, DeleteStep, PublishStep
<1>6. ASSUME NEW b \in Books, NEW s \in Segs, LiveBegins(b, s)
      PROVE  AbInv'
  BY <1>6, LiveBeginsStep
<1>a. ASSUME NEW b \in Books, NEW n \in Places, Unpublish(b, n)
      PROVE  AbInv'
  BY <1>a, UnpublishStep
<1>b. ASSUME NEW l \in live, LiveEnds(l)
      PROVE  AbInv'
  BY <1>b, LiveEndsStep
<1>c. ASSUME NEW u \in Users, ChangeRules(u)
      PROVE  AbInv'
  BY <1>c, ChangeRulesStep
<1>7. ASSUME NEW r \in Reqs, Enqueue(r) \/ CancelRow(r)
      PROVE  AbInv'
  BY <1>7, EnqueueStep, CancelRowStep
<1>8. CASE UNCHANGED vars
  BY <1>8 DEF vars, AbInv, TypeOK, ProducerShape, CacheShape, StoreShape, BookOf, OwnPlace,
              folders, counters
<1> QED BY <1>1, <1>2, <1>3, <1>4, <1>5, <1>6, <1>7, <1>8, <1>a, <1>b, <1>c DEF Next

(***************************************************************************)
(* AbInv holds in every reachable state.                                   *)
(***************************************************************************)
LEMMA AbInvHolds == Spec => []AbInv
<1>1. Init => AbInv
  <2> SUFFICES ASSUME Init PROVE AbInv
    OBVIOUS
  <2>1. TypeOK
    <3>1. /\ Idle \in RunSet /\ NoJob \in JobSet /\ "absent" \in Status
          /\ 0 \in 0..MaxForeground /\ 0 \in 0..MaxRestarts /\ 0 \in Places
      BY BoundsAssumption, IdleTyped DEF NoJob, JobSet, Status, Places
    <3>2. /\ row \in [Reqs -> Status] /\ created \in [Reqs -> Nat] /\ now \in Nat
          /\ jobs \in [Books -> JobSet] /\ run \in [Producers -> RunSet]
          /\ cache \in [Books -> [Folder -> SUBSET Segs]]
          /\ place \in [Books -> Places] /\ stores \in [Books -> SUBSET Places]
          /\ published \in Places
      BY <3>1 DEF Init, OwnPlace
    <3> QED BY <3>1, <3>2 DEF Init, TypeOK, RunSet, JobSet
  <2>2. \A p \in Producers : run[p].pc = "idle" /\ run[p].req = NoReq /\ run[p].dir.place = OwnPlace
    BY IdleTyped DEF Init
  <2>3. ProducerShape /\ CacheShape /\ StoreShape
    BY <2>2 DEF ProducerShape, CacheShape, StoreShape, Producers, Init, OwnPlace
  <2> QED BY <2>1, <2>3 DEF AbInv
<1>2. AbInv /\ [Next]_vars => AbInv'
  BY AbStep
<1> QED BY <1>1, <1>2, PTL DEF Spec

(***************************************************************************)
(* Every variable keeps its type, whatever the producers, the listeners    *)
(* and the users do.                                                       *)
(***************************************************************************)
THEOREM AbTypeCorrect == Spec => []TypeOK
<1>1. AbInv => TypeOK
  BY DEF AbInv
<1> QED BY <1>1, AbInvHolds, PTL

(***************************************************************************)
(* OneProducer: however foreground generations, the queue loop, cancels,   *)
(* deletions and restarts interleave, a book never has two producers, and  *)
(* the in-memory status both look at before they start is true.            *)
(***************************************************************************)
THEOREM OneProducerPerBook == Spec => []OneProducer
<1>1. AbInv => OneProducer
  <2> SUFFICES ASSUME AbInv, run[Loop].pc # "idle" PROVE run[BookOf(Loop)].pc = "idle"
    BY DEF AbInv, ProducerShape, OneProducer
  <2> QED BY DEF AbInv, ProducerShape, BookOf
<1> QED BY <1>1, AbInvHolds, PTL

-----------------------------------------------------------------------------
(* What a step may never do. *)

(***************************************************************************)
(* A producer whose job is cancelled does not enter another rendering.     *)
(***************************************************************************)
LEMMA CancelledProducer ==
    ASSUME AbInv, [Next]_vars, NEW p \in Producers,
           run[p].pc = "rendering", jobs[BookOf(p)].cancel, run'[p] # run[p]
    PROVE  run'[p].pc = "idle"
<1>0. /\ run \in [Producers -> RunSet] /\ jobs \in [Books -> JobSet]
      /\ row \in [Reqs -> Status] /\ Idle.pc = "idle" /\ Idle \in RunSet
  BY IdleTyped DEF AbInv, TypeOK, RunSet, JobSet
<1>1. CASE Tick
  <2>1. run[Loop].pc = "idle" /\ p # Loop
    BY <1>1 DEF Tick
  <2>2. CASE UNCHANGED run
    BY <2>2
  <2>3. ASSUME NEW r \in Reqs, jobs[Book[r]].status # "running",
               Continue(Loop, Book[r], r, [Recover EXCEPT ![r] = "processing"], Scope[r],
                        Dir(Book[r]), Cached(Book[r]), Running)
        PROVE  run'[p] = run[p]
    BY <2>1, <2>3, TakenRow
  <2> QED BY <1>1, <2>2, <2>3, TickCases
<1>2. CASE UNCHANGED run
  BY <1>2
<1>3. CASE Restart
  BY <1>3, <1>0 DEF Restart
<1>4. ASSUME NEW q \in Producers, Rendered(q)
      PROVE  run'[p].pc = "idle"
  <2> DEFINE b == BookOf(q)
             r == run[q].req
             d == run[q].dir
             done == cache[b][d] \cup {run[q].seg}
             left == run[q].left \ {run[q].seg}
  <2>1. /\ b \in Books /\ r \in RowIds /\ d \in Folder /\ jobs[b] \in JobSet
        /\ left \in SUBSET Segs /\ done \in SUBSET Segs
    <3>1. /\ run[q] \in RunSet /\ b \in Books /\ jobs[b] \in JobSet /\ run[q].seg \in Segs
      BY <1>4, AtWork DEF Rendered
    <3>2. cache[b] \in CacheSet /\ d \in Folder
      BY <3>1 DEF AbInv, TypeOK, CacheSet, RunSet
    <3>3. cache[b][d] \subseteq Segs
      BY <3>2 DEF CacheSet
    <3> QED BY <3>1, <3>2, <3>3 DEF RunSet, RowIds
  <2>2. Continue(q, b, r, row, left, d, done, jobs[b])
    BY <1>4 DEF Rendered
  <2>3. p = q => jobs[b].cancel
    OBVIOUS
  <2> HIDE DEF b, r, d, done, left
  <2>4. /\ \A o \in Producers : o # q => run'[o] = run[o]
        /\ run'[q] = Idle \/ GoesOn(q, b, r, left, d, done, jobs[b])
    BY <1>0, <2>1, <2>2, ContinueEffect
  <2>5. p = q
    BY <2>4
  <2>6. ~GoesOn(q, b, r, left, d, done, jobs[b])
    BY <2>3, <2>5 DEF GoesOn
  <2> QED BY <1>0, <2>4, <2>5, <2>6
<1>5. ASSUME NEW q \in Producers, RenderFailed(q)
      PROVE  run'[p].pc = "idle"
  BY <1>0, <1>5 DEF RenderFailed, End
<1>6. ASSUME NEW b \in Books, Generate(b)
      PROVE  run'[p].pc = "idle"
  <2>1. jobs[b].status # "running" /\ b # Loop /\ jobs[BookOf(p)].status = "running"
    BY <1>6, DataAssumption DEF Generate, AbInv, ProducerShape
  <2>2. p # b
    BY <2>1 DEF BookOf
  <2> QED BY <1>0, <1>6, <2>2 DEF Generate
<1>7. ASSUME NEW b \in Books, Spawned(b)
      PROVE  run'[p].pc = "idle"
  <2>1. p # b /\ run[b].pc = "spawned" /\ b \in Producers
    BY <1>7 DEF Spawned, Producers
  <2>2. CASE run' = [run EXCEPT ![b] = Idle]
    BY <1>0, <2>1, <2>2
  <2>3. CASE Continue(b, b, NoReq, row, run[b].left, Dir(b), Cached(b), jobs[b])
    <3>1. /\ Dir(b) \in Folder /\ Cached(b) \in SUBSET Segs /\ run[b].left \in SUBSET Segs
          /\ NoReq \in RowIds /\ jobs[b] \in JobSet
      BY <1>0, <2>1, ListenedFolder DEF RunSet, RowIds
    <3> QED BY <1>0, <2>1, <2>3, <3>1, ContinueEffect
  <2> QED BY <1>7, <2>2, <2>3 DEF Spawned
<1> QED BY <1>1, <1>2, <1>3, <1>4, <1>5, <1>6, <1>7
        DEF Next, Producer, Clock, CancelGeneration, Delete, Publish, Unpublish, ChangeRules,
            LiveBegins, LiveEnds, Enqueue, CancelRow, vars

(***************************************************************************)
(* CancelStops: after a cancel or the deletion of the book the segment in  *)
(* flight is the last one.                                                 *)
(***************************************************************************)
THEOREM CancelTakesHold == Spec => CancelStops
<1>1. AbInv /\ [Next]_vars =>
        [\A p \in Producers :
          run[p].pc = "rendering" /\ jobs[BookOf(p)].cancel /\ run'[p] # run[p] =>
              run'[p].pc = "idle"]_vars
  BY CancelledProducer
<1> QED BY <1>1, AbInvHolds, PTL DEF Spec, CancelStops

(***************************************************************************)
(* A row becomes complete in a step of the loop alone.                     *)
(***************************************************************************)
LEMMA CompletedRow ==
    ASSUME AbInv, [Next]_vars, NEW r \in Reqs,
           row'[r] = "complete", row[r] # "complete", Book[r] \in there, ~Moved(r)
    PROVE  Scope[r] \subseteq cache'[Book[r]][Dir(Book[r])]
<1>0. /\ run \in [Producers -> RunSet] /\ jobs \in [Books -> JobSet]
      /\ row \in [Reqs -> Status]
  BY DEF AbInv, TypeOK, RunSet, JobSet
<1>1. CASE Tick
  <2>1. CASE row' = Recover
    BY <2>1, RecoverRows
  <2>2. ASSUME NEW q \in Reqs, jobs[Book[q]].status # "running",
               Continue(Loop, Book[q], q, [Recover EXCEPT ![q] = "processing"], Scope[q],
                        Dir(Book[q]), Cached(Book[q]), Running)
        PROVE  Scope[r] \subseteq cache'[Book[r]][Dir(Book[r])]
    <3>1. /\ \A o \in Reqs : o # q /\ row'[o] = "complete" => row[o] = "complete"
          /\ row'[q] = "complete" => Scope[q] \subseteq Cached(Book[q])
      BY <2>2, TakenRow
    <3>2. q = r /\ cache' = cache
      BY <1>1, <3>1 DEF Tick
    <3> QED BY <3>1, <3>2 DEF Cached
  <2> QED BY <1>1, <2>1, <2>2, TickCases
<1>2. CASE row' = row
  BY <1>2
<1>3. ASSUME NEW p \in Producers, Rendered(p)
      PROVE  Scope[r] \subseteq cache'[Book[r]][Dir(Book[r])]
  <2> DEFINE b == BookOf(p)
             q == run[p].req
             d == run[p].dir
             done == cache[b][d] \cup {run[p].seg}
             left == run[p].left \ {run[p].seg}
  <2>1. /\ b \in Books /\ q \in RowIds /\ d \in Folder /\ jobs[b] \in JobSet
        /\ left \in SUBSET Segs /\ done \in SUBSET Segs
        /\ IF p = Loop THEN q \in Reqs /\ b = Book[q] ELSE q = NoReq
        /\ cache \in [Books -> CacheSet]
    <3>1. /\ run[p] \in RunSet /\ b \in Books /\ jobs[b] \in JobSet /\ run[p].seg \in Segs
          /\ IF p = Loop THEN q \in Reqs /\ b = Book[q] ELSE q = NoReq
      BY <1>3, AtWork DEF Rendered
    <3>2. cache \in [Books -> CacheSet] /\ cache[b] \in CacheSet /\ d \in Folder
      BY <3>1 DEF AbInv, TypeOK, CacheSet, RunSet
    <3>3. cache[b][d] \subseteq Segs
      BY <3>2 DEF CacheSet
    <3> QED BY <3>1, <3>2, <3>3 DEF RunSet, RowIds
  <2>2. /\ Continue(p, b, q, row, left, d, done, jobs[b])
        /\ cache' = [cache EXCEPT ![b][d] = done] /\ run[p].pc = "rendering"
        /\ cache[b][d] \subseteq done
    BY <1>3 DEF Rendered
  <2>a. Scope[q] \subseteq run[p].left \cup cache[b][d] => Scope[q] \subseteq left \cup done
    OBVIOUS
  <2> HIDE DEF b, q, d, done, left
  <2>3. /\ \A o \in Reqs : o # q => row'[o] = row[o]
        /\ Completes(row) => left \subseteq done
    <3>1. /\ b \in Books /\ q \in RowIds /\ d \in Folder /\ jobs[b] \in JobSet
          /\ left \in SUBSET Segs /\ done \in SUBSET Segs
          /\ Continue(p, b, q, row, left, d, done, jobs[b])
      BY <2>1, <2>2
    <3> QED BY <1>0, <3>1, ContinueEffect
  <2>4. q = r /\ left \subseteq done
    BY <2>3 DEF Completes
  <2>5. p = Loop /\ b = Book[r]
    BY <2>1, <2>4, DataAssumption
  <2>6. Scope[r] \subseteq run[p].left \cup cache[b][d] /\ d = Dir(Book[r])
    <3>1. d = Dir(Book[r])
      BY <2>2, <2>5 DEF Moved, d
    <3>2. d.place \in {OwnPlace} \cup stores[b]
      BY <2>1, <2>5, <3>1, ListenedFolder
    <3> QED BY <2>2, <2>4, <2>5, <3>1, <3>2 DEF AbInv, CacheShape, d, q
  <2>7. cache'[b][d] = done
    BY <2>1, <2>2, StoreSegment
  <2> QED BY <2>a, <2>4, <2>5, <2>6, <2>7
<1>4. ASSUME NEW p \in Producers, RenderFailed(p)
      PROVE  FALSE
  <2>1. /\ BookOf(p) \in Books /\ run[p].req \in RowIds /\ jobs[BookOf(p)] \in JobSet
        /\ "failed" \in Endings
    BY <1>4, AtWork DEF RenderFailed, RunSet, RowIds, Endings
  <2>2. End(p, BookOf(p), run[p].req, row, "failed", jobs[BookOf(p)])
    BY <1>4 DEF RenderFailed
  <2>3. ~Completes(row)
    BY <1>0, <2>1, <2>2, EndEffect
  <2> QED BY <2>3 DEF Completes
<1>5. ASSUME NEW b \in Books, Spawned(b)
      PROVE  FALSE
  <2>1. Continue(b, b, NoReq, row, run[b].left, Dir(b), Cached(b), jobs[b])
    BY <1>5 DEF Spawned
  <2>2. /\ b \in Producers /\ Dir(b) \in Folder /\ Cached(b) \in SUBSET Segs
        /\ run[b].left \in SUBSET Segs /\ NoReq \in RowIds /\ jobs[b] \in JobSet
    BY <1>0, ListenedFolder DEF RunSet, RowIds, Producers
  <2>3. \A o \in Reqs : o # NoReq => row'[o] = row[o]
    BY <1>0, <2>1, <2>2, ContinueEffect
  <2> QED BY <2>3, DataAssumption
<1>6. ASSUME NEW q \in Reqs, Enqueue(q) \/ CancelRow(q)
      PROVE  FALSE
  BY <1>0, <1>6 DEF Enqueue, CancelRow
<1> QED BY <1>1, <1>2, <1>3, <1>4, <1>5, <1>6
        DEF Next, Producer, Clock, CancelGeneration, Delete, Publish, Unpublish, ChangeRules,
            LiveBegins, LiveEnds, Generate, Restart, vars

(***************************************************************************)
(* CompleteIsListenable: a row that becomes complete has all its segments  *)
(* where a listener looks for them, though segments were rendered by other *)
(* requests, deleted with the book, or found in the cache, and the book    *)
(* was published, unpublished and published again meanwhile; except when   *)
(* the loop's folder is not the listener's any more (Moved).               *)
(***************************************************************************)
THEOREM CompleteMeansListenable == Spec => CompleteIsListenable
<1>1. AbInv /\ [Next]_vars =>
        [\A r \in Reqs :
          /\ row'[r] = "complete" /\ row[r] # "complete"
          /\ Book[r] \in there /\ ~Moved(r)
          => Scope[r] \subseteq cache'[Book[r]][Dir(Book[r])]]_vars
  BY CompletedRow
<1> QED BY <1>1, AbInvHolds, PTL DEF Spec, CompleteIsListenable
=============================================================================
