------------------------------- MODULE AbQueue --------------------------------
(***************************************************************************)
(* Audiobook generation (vocarium-api/audiobooks/routes.py): the persisted *)
(* queue of chapters and books, the single queue loop, the foreground      *)
(* generations, and the segment cache whose contents decide what can be    *)
(* listened to.                                                            *)
(*                                                                         *)
(* One asyncio loop runs it all; a step is the code between two awaits.    *)
(* The only await of a generation is the rendering of a segment that is    *)
(* not cached; AbCache models what happens inside it.  One voice is used,  *)
(* so a key (book, voice) of the in-memory jobs is a book.                 *)
(*                                                                         *)
(* The folder the audio of a book is in depends on the store book it is    *)
(* linked to and on its owner's pronunciation rules, and both may change   *)
(* while a producer goes on in the folder it chose.                        *)
(***************************************************************************)
EXTENDS Integers, FiniteSets

CONSTANTS
    Books,          \* the books in the users' libraries
    Owner,          \* the user whose library a book is in
    Rules,          \* the sets of pronunciation rules, by their hash
    Segs,           \* the numbers of the segments of a book
    Scopes,         \* the segment sets of a chapter or of the whole book
    Reqs,           \* the queue rows that are ever inserted
    Book,           \* [Reqs -> Books]
    Scope,          \* [Reqs -> Scopes]
    Priority,       \* [Reqs -> 1..10]
    Loop,           \* the producer that is the queue loop
    NoReq,          \* the row of a producer that serves none
    MayDelete,      \* books are deleted
    DbFaults,       \* the closing UPDATE of a row may fail
    MaxStores,      \* bound on the publications
    MaxLive,        \* bound on the segments rendered for listeners at a time
    MaxForeground,  \* bound on the foreground generations
    MaxRestarts     \* bound on the restarts

ASSUME DataAssumption ==
    /\ Segs \subseteq Nat /\ IsFiniteSet(Segs)
    /\ Scopes \subseteq SUBSET Segs
    /\ Book \in [Reqs -> Books] /\ Scope \in [Reqs -> Scopes]
    /\ Priority \in [Reqs -> 1..10]
    /\ Loop \notin Books /\ NoReq \notin Reqs /\ Rules # {}
ASSUME BoundsAssumption ==
    /\ {MayDelete, DbFaults} \subseteq BOOLEAN
    /\ {MaxStores, MaxLive, MaxForeground, MaxRestarts} \subseteq Nat

VARIABLES
    row,        \* ab_generation_queue.status
    created,    \* ab_generation_queue.created_at, in seconds
    now,        \* the second the last row was created in
    jobs,       \* the in-memory job of each (book, voice)
    run,        \* where each producer is
    cache,      \* the rendered segments in each folder of a book
    there,      \* the books that exist (row and segments.json)
    place,      \* ab_books.store_book_id of a book
    stores,     \* the store books each book was published as, as long as they are there
    published,  \* the store ids given out
    rules,      \* the pronunciation rules of each user
    live,       \* the segments that are being rendered for listeners
    offHours,   \* is_out_of_business_hours()
    recovered,  \* queue_loop's local variable
    foreground, restarts    \* the bounded counters

folders == <<place, stores, published, rules>>
counters == <<foreground, restarts>>
vars == <<row, created, now, jobs, run, cache, there, folders, live, offHours,
          recovered, counters>>

Producers == Books \cup {Loop}

\* A store book is known by the number of its publication, 0 is the book's own directory.
OwnPlace == 0
Places == 0..MaxStores
Folder == [place : Places, rules : Rules]
NoFolder == [place |-> OwnPlace, rules |-> CHOOSE x \in Rules : TRUE]

Users == {Owner[b] : b \in Books}
Rendering == [book : Books, seg : Segs, dir : Folder]

Idle == [pc |-> "idle", req |-> NoReq, left |-> {}, seg |-> 0, dir |-> NoFolder]
NoJob == [status |-> "none", cancel |-> FALSE]
Running == [status |-> "running", cancel |-> FALSE]

Status == {"absent", "pending", "processing", "complete", "error", "cancelled"}

TypeOK ==
    /\ row \in [Reqs -> Status]
    /\ created \in [Reqs -> Nat] /\ now \in Nat
    /\ jobs \in [Books -> [status : {"none", "running", "completed", "failed", "cancelled"},
                           cancel : BOOLEAN]]
    /\ run \in [Producers -> [pc : {"idle", "spawned", "rendering"}, req : Reqs \cup {NoReq},
                              left : SUBSET Segs, seg : Segs \cup {0}, dir : Folder]]
    /\ cache \in [Books -> [Folder -> SUBSET Segs]]
    /\ there \subseteq Books
    /\ place \in [Books -> Places] /\ stores \in [Books -> SUBSET Places]
    /\ published \in Places
    /\ rules \in [Users -> Rules] /\ live \subseteq Rendering
    /\ offHours \in BOOLEAN /\ recovered \in BOOLEAN
    /\ foreground \in 0..MaxForeground /\ restarts \in 0..MaxRestarts

Init ==
    /\ row = [r \in Reqs |-> "absent"]
    /\ created = [r \in Reqs |-> 0] /\ now = 0
    /\ jobs = [b \in Books |-> NoJob]
    /\ run = [p \in Producers |-> Idle]
    /\ cache = [b \in Books |-> [f \in Folder |-> {}]]
    /\ there = Books
    /\ place = [b \in Books |-> OwnPlace] /\ stores = [b \in Books |-> {}] /\ published = 0
    /\ rules \in [Users -> Rules] /\ live = {}
    /\ offHours \in BOOLEAN
    /\ recovered = FALSE
    /\ foreground = 0 /\ restarts = 0

-----------------------------------------------------------------------------
(* audio_dir and chapter_stats: what a listener of the book finds. *)

Dir(b) == [place |-> place[b], rules |-> rules[Owner[b]]]
Cached(b) == cache[b][Dir(b)]

-----------------------------------------------------------------------------
(* The generation loop shared by both kinds of producers. *)

\* The status a queue row gets from the job that ended.
Final(status) ==
    CASE status = "completed" -> "complete"
      [] status = "cancelled" -> "cancelled"
      [] OTHER -> "error"

\* The producer's generation is over; the queue loop closes its row.
End(p, b, r, rows, status, job) ==
    /\ jobs' = [jobs EXCEPT ![b] = [job EXCEPT !.status = status]]
    /\ run' = [run EXCEPT ![p] = Idle]
    /\ \/ row' = IF r = NoReq THEN rows ELSE [rows EXCEPT ![r] = Final(status)]
       \/ DbFaults /\ r # NoReq /\ row' = rows

\* Mutant of Continue: the cancel flag is not looked at between segments.
ContinueDeaf(p, b, r, rows, left, dir, done, job) ==
    LET todo == left \ done IN
    \/ /\ todo = {}
       /\ End(p, b, r, rows, "completed", job)
    \/ /\ todo # {}
       /\ LET s == CHOOSE m \in todo : \A o \in todo : m <= o IN
          run' = [run EXCEPT ![p] = [pc |-> "rendering", req |-> r,
                                     left |-> {o \in left : o >= s}, seg |-> s, dir |-> dir]]
       /\ jobs' = [jobs EXCEPT ![b] = job]
       /\ row' = rows

(***************************************************************************)
(* generate_worker from the top of its loop until it awaits a rendering or *)
(* ends: the cancel flag is looked at before every segment, cached         *)
(* segments are passed over without an await.                              *)
(***************************************************************************)
Continue(p, b, r, rows, left, dir, done, job) ==
    LET todo == left \ done IN
    \/ /\ left # {} /\ job.cancel
       /\ End(p, b, r, rows, "cancelled", job)
    \/ /\ left = {} \/ (todo = {} /\ ~job.cancel)
       /\ End(p, b, r, rows, "completed", job)
    \/ /\ todo # {} /\ ~job.cancel
       /\ LET s == CHOOSE m \in todo : \A o \in todo : m <= o IN
          run' = [run EXCEPT ![p] = [pc |-> "rendering", req |-> r,
                                     left |-> {o \in left : o >= s}, seg |-> s, dir |-> dir]]
       /\ jobs' = [jobs EXCEPT ![b] = job]
       /\ row' = rows

BookOf(p) == IF p = Loop THEN Book[run[p].req] ELSE p

\* Mutant of Rendered: the segment counts as done whether or not it was stored.
RenderedUnstored(p) ==
    /\ run[p].pc = "rendering"
    /\ LET b == BookOf(p) IN
       Continue(p, b, run[p].req, row, run[p].left \ {run[p].seg}, run[p].dir,
                cache[b][run[p].dir] \cup {run[p].seg}, jobs[b])
    /\ UNCHANGED <<created, now, cache, there, folders, live, offHours, recovered, counters>>

(***************************************************************************)
(* render_segment returned: the file was renamed into the folder chosen at *)
(* the start, which the synthesis creates anew if it was deleted before.   *)
(***************************************************************************)
Rendered(p) ==
    /\ run[p].pc = "rendering"
    /\ LET b == BookOf(p)
           dir == run[p].dir
           done == cache[b][dir] \cup {run[p].seg} IN
       /\ cache' = [cache EXCEPT ![b][dir] = done]
       /\ Continue(p, b, run[p].req, row, run[p].left \ {run[p].seg}, dir, done, jobs[b])
    /\ UNCHANGED <<created, now, there, folders, live, offHours, recovered, counters>>

RenderFailed(p) ==
    /\ run[p].pc = "rendering"
    /\ LET b == BookOf(p) IN End(p, b, run[p].req, row, "failed", jobs[b])
    /\ UNCHANGED <<created, now, cache, there, folders, live, offHours, recovered, counters>>

-----------------------------------------------------------------------------
(* Foreground generation. *)

Generate(b) ==
    /\ b \in there /\ foreground < MaxForeground
    /\ jobs[b].status # "running"
    /\ \E s \in Scopes \ {{}} :
         run' = [run EXCEPT ![b] = [Idle EXCEPT !.pc = "spawned", !.left = s]]
    /\ jobs' = [jobs EXCEPT ![b] = Running]
    /\ foreground' = foreground + 1
    /\ UNCHANGED <<row, created, now, cache, there, folders, live, offHours, recovered, restarts>>

\* The task's first step; without segments.json it dies before its try block.
Spawned(b) ==
    /\ run[b].pc = "spawned"
    /\ \/ /\ b \notin there
          /\ run' = [run EXCEPT ![b] = Idle]
          /\ UNCHANGED <<row, jobs>>
       \/ /\ b \in there
          /\ Continue(b, b, NoReq, row, run[b].left, Dir(b), Cached(b), jobs[b])
    /\ UNCHANGED <<created, now, cache, there, folders, live, offHours, recovered, counters>>

CancelGeneration(b) ==
    /\ b \in there /\ jobs[b].status = "running"
    /\ jobs' = [jobs EXCEPT ![b].cancel = TRUE]
    /\ UNCHANGED <<row, created, now, run, cache, there, folders, live, offHours, recovered, counters>>

\* serve_segment_live: what a listener asks for and is not cached is rendered ...
LiveBegins(b, s) ==
    /\ b \in there /\ s \notin Cached(b) /\ Cardinality(live) < MaxLive
    /\ live' = live \cup {[book |-> b, seg |-> s, dir |-> Dir(b)]}
    /\ UNCHANGED <<row, created, now, jobs, run, cache, there, folders, offHours, recovered,
                   counters>>

\* ... into the folder the request found, or not at all.
LiveEnds(l) ==
    /\ live' = live \ {l}
    /\ \/ UNCHANGED cache
       \/ cache' = [cache EXCEPT ![l.book][l.dir] = @ \cup {l.seg}]
    /\ UNCHANGED <<row, created, now, jobs, run, there, folders, offHours, recovered, counters>>

-----------------------------------------------------------------------------
(* The queue's endpoints. *)

Duplicate(r) ==
    \E q \in Reqs :
        row[q] \in {"pending", "processing"} /\ Book[q] = Book[r] /\ Scope[q] = Scope[r]

Enqueue(r) ==
    /\ row[r] = "absent" /\ Book[r] \in there /\ ~Duplicate(r)
    /\ row' = [row EXCEPT ![r] = "pending"]
    /\ now' \in {now, now + 1}
    /\ created' = [created EXCEPT ![r] = now']
    /\ UNCHANGED <<jobs, run, cache, there, folders, live, offHours, recovered, counters>>

\* cancel_queue_job: the row is overwritten whatever its status is.
CancelRow(r) ==
    /\ row[r] # "absent"
    /\ row' = [row EXCEPT ![r] = "cancelled"]
    /\ jobs' = IF row[r] = "processing" /\ jobs[Book[r]].status # "none"
               THEN [jobs EXCEPT ![Book[r]].cancel = TRUE] ELSE jobs
    /\ UNCHANGED <<created, now, run, cache, there, folders, live, offHours, recovered, counters>>

-----------------------------------------------------------------------------
(* queue_loop. *)

\* Mutant of Recover: rows a restart interrupted keep their status.
RecoverNone == row

\* The first tick of a process returns interrupted rows to pending.
Recover ==
    IF recovered THEN row
    ELSE [r \in Reqs |-> IF row[r] = "processing" THEN "pending" ELSE row[r]]

\* The pending rows the SELECT may return first.
Heads(rows) ==
    LET open == {r \in Reqs : rows[r] = "pending" /\ (offHours \/ Priority[r] < 8)} IN
    {r \in open : \A q \in open :
        \/ Priority[r] < Priority[q]
        \/ Priority[r] = Priority[q] /\ created[r] <= created[q]}

\* Mutant of RunJob: a foreground generation of the same book does not matter.
RunJobAlways(r, rows) ==
    /\ Book[r] \in there
    /\ Continue(Loop, Book[r], r, [rows EXCEPT ![r] = "processing"], Scope[r],
                Dir(Book[r]), Cached(Book[r]), Running)

(***************************************************************************)
(* _run_queue_job until its worker awaits or ends.  While a foreground     *)
(* generation of the book runs the row stays pending; so it does when      *)
(* load_segments raises because the book was deleted.                      *)
(***************************************************************************)
RunJob(r, rows) ==
    \/ /\ jobs[Book[r]].status = "running" \/ Book[r] \notin there
       /\ row' = rows
       /\ UNCHANGED <<jobs, run>>
    \/ /\ jobs[Book[r]].status # "running" /\ Book[r] \in there
       /\ Continue(Loop, Book[r], r, [rows EXCEPT ![r] = "processing"], Scope[r],
                   Dir(Book[r]), Cached(Book[r]), Running)

Tick ==
    /\ run[Loop].pc = "idle"
    /\ LET rows == Recover
           busy == \E r \in Reqs : rows[r] = "processing" IN
       \/ /\ busy \/ Heads(rows) = {}
          /\ row' = rows
          /\ UNCHANGED <<jobs, run>>
       \/ /\ ~busy
          /\ \E r \in Heads(rows) : RunJob(r, rows)
    /\ recovered' = TRUE
    /\ UNCHANGED <<created, now, cache, there, folders, live, offHours, counters>>

-----------------------------------------------------------------------------
(* Library, clock, process. *)

Delete(b) ==
    /\ MayDelete /\ b \in there
    /\ there' = there \ {b} /\ place' = [place EXCEPT ![b] = OwnPlace]
    /\ cache' = [cache EXCEPT ![b] = [f \in Folder |->
                   IF f.place = OwnPlace THEN {} ELSE cache[b][f]]]
    /\ jobs' = IF jobs[b].status = "none" THEN jobs ELSE [jobs EXCEPT ![b].cancel = TRUE]
    /\ UNCHANGED <<row, created, now, run, stores, published, rules, live, offHours,
                   recovered, counters>>

\* publish_to_store: what the book's own directory has is linked into a new store folder.
Publish(b) ==
    /\ b \in there /\ published < MaxStores
    /\ published' = published + 1
    /\ place' = [place EXCEPT ![b] = published']
    /\ stores' = [stores EXCEPT ![b] = @ \cup {published'}]
    /\ cache' = [cache EXCEPT ![b] = [f \in Folder |->
                   IF f.place = published' THEN cache[b][[f EXCEPT !.place = OwnPlace]]
                   ELSE cache[b][f]]]
    /\ UNCHANGED <<row, created, now, jobs, run, there, rules, live, offHours, recovered,
                   counters>>

\* delete_store_book: the store folder goes, a book that is linked to it is on its own again.
Unpublish(b, n) ==
    /\ n \in stores[b]
    /\ stores' = [stores EXCEPT ![b] = @ \ {n}]
    /\ place' = [place EXCEPT ![b] = IF @ = n THEN OwnPlace ELSE @]
    /\ cache' = [cache EXCEPT ![b] = [f \in Folder |->
                   IF f.place = n THEN {} ELSE cache[b][f]]]
    /\ UNCHANGED <<row, created, now, jobs, run, there, published, rules, live, offHours,
                   recovered, counters>>

\* A rule is added, edited or deleted.
ChangeRules(u) ==
    /\ \E x \in Rules : rules' = [rules EXCEPT ![u] = x]
    /\ UNCHANGED <<row, created, now, jobs, run, cache, there, place, stores, published, live,
                   offHours, recovered, counters>>

Clock ==
    /\ offHours' = ~offHours
    /\ UNCHANGED <<row, created, now, jobs, run, cache, there, folders, live, recovered, counters>>

Restart ==
    /\ restarts < MaxRestarts
    /\ restarts' = restarts + 1
    /\ jobs' = [b \in Books |-> NoJob]
    /\ run' = [p \in Producers |-> Idle]
    /\ recovered' = FALSE /\ live' = {}
    /\ UNCHANGED <<row, created, now, cache, there, folders, offHours, foreground>>

-----------------------------------------------------------------------------
Producer(p) == Rendered(p) \/ RenderFailed(p)

Next ==
    \/ Tick \/ Clock \/ Restart
    \/ \E p \in Producers : Producer(p)
    \/ \E b \in Books :
        \/ Generate(b) \/ Spawned(b) \/ CancelGeneration(b)
        \/ Delete(b) \/ Publish(b) \/ \E n \in Places : Unpublish(b, n)
        \/ \E s \in Segs : LiveBegins(b, s)
    \/ \E l \in live : LiveEnds(l)
    \/ \E u \in Users : ChangeRules(u)
    \/ \E r \in Reqs : Enqueue(r) \/ CancelRow(r)

Spec == Init /\ [][Next]_vars

(***************************************************************************)
(* The loop ticks every five seconds, renderings end (the engine's HTTP    *)
(* calls carry a timeout, ffmpeg reads a finished file), spawned tasks     *)
(* run, and the night comes.  Ticks fall into each of these states again   *)
(* and again, which is why the tick's fairness is strong.                  *)
(***************************************************************************)
LiveSpec ==
    /\ Spec
    /\ SF_vars(Tick /\ vars' # vars)
    /\ WF_vars(Clock)
    /\ \A p \in Producers : WF_vars(Producer(p))
    /\ \A b \in Books : WF_vars(Spawned(b))

-----------------------------------------------------------------------------
(***************************************************************************)
(* The in-memory status a 409 and the queue loop rely on is true: while a  *)
(* producer works on a book its job says running, and no second producer   *)
(* works on the same book and voice.                                       *)
(***************************************************************************)
OneProducer ==
    /\ \A p \in Producers :
         run[p].pc # "idle" => jobs[BookOf(p)].status = "running"
    /\ run[Loop].pc # "idle" => run[BookOf(Loop)].pc = "idle"

\* The loop renders into a folder that is not the listener's any more.
Moved(r) == run[Loop].pc = "rendering" /\ run[Loop].dir # Dir(Book[r])

(***************************************************************************)
(* When a row becomes complete, every segment it asked for is where a      *)
(* listener of the book looks for it ("the cache is the authority,         *)
(* counters are derived").  The exception is a book that was published or  *)
(* unpublished, or whose owner's rules were changed, while its row was     *)
(* processed, unless it has moved back since: the rest went to the folder  *)
(* chosen at the start.                                                    *)
(***************************************************************************)
CompleteIsListenable ==
    [][\A r \in Reqs :
        /\ row'[r] = "complete" /\ row[r] # "complete"
        /\ Book[r] \in there /\ ~Moved(r)
        => Scope[r] \subseteq cache'[Book[r]][Dir(Book[r])]]_vars

(***************************************************************************)
(* The same without the exception: it does not hold (the folder is chosen  *)
(* once, before the first rendering).                                      *)
(***************************************************************************)
CompleteWhereListened ==
    [][\A r \in Reqs :
        row'[r] = "complete" /\ row[r] # "complete" /\ Book[r] \in there
        => Scope[r] \subseteq cache'[Book[r]][Dir(Book[r])]]_vars

(***************************************************************************)
(* After a cancel or the deletion of the book no further rendering starts: *)
(* the segment in flight is the last one.                                  *)
(***************************************************************************)
CancelStops ==
    [][\A p \in Producers :
        run[p].pc = "rendering" /\ jobs[BookOf(p)].cancel /\ run'[p] # run[p] =>
            run'[p].pc = "idle"]_vars

(***************************************************************************)
(* Every queued row of a book that is not deleted is worked off or         *)
(* cancelled some day, whatever happens to other rows and books.           *)
(***************************************************************************)
EveryRowServed ==
    \A r \in Reqs :
        row[r] \in {"pending", "processing"} ~>
            row[r] \in {"complete", "error", "cancelled"} \/ Book[r] \notin there
=============================================================================
