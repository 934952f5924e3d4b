# Vocarium: a TLA+ verification project

Vocarium is a self-hosted speech studio: voice cloning and text to speech,
audiobooks, generated podcasts, and radio plays built from the subtitles of a
series. One docker compose stack runs it. This directory holds TLA+ modules of
the parts of it where order, failure and concurrency matter, the TLC
configurations that check them, and TLAPS proofs of the results that matter
most. Every definition is a translation of source code; `PROJECT.json` names
the lines of each one, lists the hazards the properties are for, and holds for
every property a mutant of the code that breaks it.

    cd tla
    tlc -workers 2 -config MCGpuQueue_queue.cfg MCGpuQueue    # a run
    tlapm GpuQueueProofs.tla      # the proofs, and so for each *Proofs.tla

`HsPlanProofs` and `HsProofs` take about ten minutes each, the others less.

Contents: 1 inventory, 2 modules, 3 runs, 4 bounds, 5 fairness, 6 proofs,
7 disagreements found, 8 what is not modelled, 9 plan.

## 1. Inventory

Three execution models meet in this system. `vocarium-api` is one asyncio
process: code between two awaits is atomic, and everything else interleaves.
`hoerspiele` inside it uses real threads and one re-entrant lock. The model
servers and the agent are processes of their own that the API calls over HTTP.
SQLite, the file system and the GPU are what they share; the compose file can
start a second API replica over the same database and volume.

| Part | State it keeps | Operations | What is hard | Correct when |
|---|---|---|---|---|
| GPU queue (`vocarium-api/gpu_queue.py`) | `_jobs`, an `asyncio.Queue`, `_current`, a future per caller | submit, cancel, worker loop (unload others, guard, work, heartbeat), retry, eviction | a cancel falls into each await of the worker; callers leave; a retried job counts as running for a while; eviction while a job closes | nothing is lost, a cancel wins, every caller is answered, one job at a time |
| GPU job rows (`vocarium-api/database.py`) | table `gpu_queue_jobs` | upsert, interrupt at startup, cancel by row, quota | restarts, another replica, failing writes | rows follow the jobs, the quota counts live jobs only |
| Audiobook queue (`vocarium-api/audiobooks/routes.py`) | `ab_generation_queue`, in-memory jobs, cached segments | enqueue, cancel, queue loop, foreground generation, delete, publish | two kinds of producers for one book, recovery after a restart, off-hours rows | one producer per book, no duplicate work, complete means listenable, no row starves |
| Audiobook segment files (same file) | temporary files, segment cache | `render_segment`, `serve_segment_live` | batch and listeners render the same segment, encoders are processes | what is in the cache is whole, nobody disturbs another's files |
| Podcasts (`vocarium-api/podcast/routes.py`, `audio_assembler.py`) | table `podcasts`, mix file, archive | claim, event stream, workers, edits, delete | clients disconnect, edits wait between reading and writing, ffmpeg and the threads that copy files outlive their worker | one production at a time, audio playable at any moment and fitting the script |
| Artifact cleanup (`vocarium-api/artifact_cleanup.py`) | files on disk | sweep of unreferenced files | references are read long before files are removed | never removes what is referenced |
| Radio plays: runs (`vocarium-api/hoerspiele/engine.py`, `store.py`) | one state under a lock, dirty rows in SQLite, a thread per run | pipeline, realign, reconcile, rewrite, repair, render, edits, reviews | checks outside the lock, rollback of some fields, restart in the middle | old audio is marked, timeline fits audio, revisions are unique, runs end |
| Radio plays: script (`engine.py` 3950-7550) | cues, introductions, checkpoints of packages | research of episodes, packages for the agent, locks of a repair, closing of silent stretches | answers that forget locks, failures between packages, windows at boundaries | a repair changes what was asked for only, no line is lost, a retry continues |
| Radio plays: timeline (`engine.py` 2089-3134, 5140-6411, 7637-9700) | placements in the cues, detected sections, timeline, quality report | detect titles, plan the narration, speak, lay out, judge, publish | numbers: intervals that touch, cuts found after the plan, cues changed by a render | the source is heard once, nobody talks over it, only titles are cut, a second render agrees |
| GPU guard (`gpu_queue.py`, `main.py` 835-893) | none | measure memory, unload conflicting services, unload oneself | a measurement is old when it is used, callbacks that fail, memory of others | who is admitted finds the memory, nobody is refused for its own model |
| Podcast sources, script generation | tables of sources, chunks | upload, process, reprocess, delete; prompts | deletion while processing | a source is ready or failed in the end |
| Agent: answers (`vocarium-agent/runner.py`) | the request and what its repair keeps, for the time of a run | ask the providers of a chain, judge, repair, salvage | up to 14 attempts for each provider, each with another part of the answer locked | what is delivered keeps the contract, what passed stays |
| Agent: service (`runner.py`, `maintenance.py`, `agent_post` in `engine.py`) | run lock, login sessions, releases of the CLIs, `status.json` | run, log in, check and update CLIs, restart | full disks, failing npm, restarts, callers that gave up | the lock has one holder, the CLI in use is whole, every request ends |
| Model servers (`whisper-stt`, `omnivoice-api`, `kikiri-tts`) | resident models, time of last use | load, infer, unload, unload when idle | unload against a request, several models at the limit | never unloads a model in use |
| Trainer (`kikiri-trainer`) | a job on disk | train, status | one run at a time, restart | a second run is refused |
| Web and Android clients | players, offline copies, drafts | play, download, edit | stale copies | — (outside the server) |

How they interact: a handler that needs the GPU submits a job to the GPU queue
and awaits its future; the audiobook loop, the foreground generations and the
listeners' requests all do, and so do podcast segments. The agent is called by
script generation and by the radio plays. The cleanup reads the podcast table
and deletes files that podcast workers write. The GPU queue asks `gputasks` and the
model servers before it starts a job. Restarts hit all of them at once,
and each recovers on its own or, in the case of podcasts, not at all.

`PROJECT.json` lists every part with its status and, under `hazards`, what can
go wrong in it at which line.

## 2. Modules

| Module | Models | Written about it |
|---|---|---|
| `GpuRows` | one row of `gpu_queue_jobs`: the SQL statements as operators | used by `GpuQueue` |
| `GpuQueue` | the GPU queue with its rows, callers, restart | `GpuQueueProofs`, `MCGpuQueue` |
| `SerialExecutor` | the abstract promise: one job at a time, bounded attempts, an answer for all | `GpuQueue` implements it (`AbsSpec`) |
| `AbQueue` | the audiobook queue and all producers of segments | `AbQueueProofs`, `MCAbQueue` |
| `AbCache` | the files one rendering goes through | `AbCacheProofs`, `MCAbCache` |
| `PodcastProduction` | the life of one podcast | `PodcastProofs`, `MCPodcastProduction` |
| `GpuGuard` | what the worker does with the GPUs before a job | `GpuQueueProofs`; composed with `GpuQueue` in `MCGpuFaults` |
| `HsRuns` | the runs and the script of one radio play | `HsProofs`, `MCHsRuns` |
| `HsIntervals` | interval arithmetic of the timeline, as operators | `HsPlanProofs`; used by the three below |
| `HsDetect` | detection of titles, endings and commercial bumpers by fingerprints | `HsPlanProofs`; used by `HsRender` |
| `HsPlan` | from book and transcript to the placed cues | `HsPlanProofs`; used by `HsRender` |
| `HsRender` | script, detection, speech, layout, quality gate, and a second render | `HsProofs`, `MCHsRender` |
| `HsPackages` | how a script is divided among calls of the agent | used by `HsAlignment` |
| `HsAlignment` | runs that write and repair a script, with failures and checkpoints | `HsAlignmentProofs`, `MCHsAlignment` |
| `AlignmentContract` | what an answer of a model is checked against, and the salvage stages | used by `AgentRepair` |
| `AgentRepair` | the loop over providers and attempts | `AgentProofs`, `MCAgentRepair` |
| `CliMaintenance`, `CliLogins`, `ModelRun` | the jobs, the logins and one run of the agent | composed in `AgentService` |
| `AgentService` | callers, run lock, jobs, logins, restarts | `AgentProofs`, `MCAgentService` |
| `ContextResearch` | mapping of chapters and research of episodes | `AgentProofs`, `MCAgentService`, `MCContextResearch` |

Definitions called "Mutant of ..." stand before the definition they change and
are used by no specification. They are the plausible bugs each property is
known to catch.

### GpuQueue, GpuRows, SerialExecutor

A step is what runs between two awaits. `pc` names the await at which the worker
is suspended: `idle` (queue.get), `unloading` (the unload callbacks), `guarding`
(the resource guard), `selfUnloading`, `rechecking` (the guard again), `working`
(`work_fn`), `closing` and `requeueing` (the wait for the heartbeat task in the
finally block). `Submit`, `CancelQueued`, `CancelRunning`, `CancelByRow` and
`CallerLeaves` happen at any of these. `Record` is `_record_job`: an upsert
whose errors the code swallows, hence the disjunct that leaves the row alone
when `DbFaults`. `CancelSeen` is `_is_cancel_requested`, a set of possible
answers because the lookup may fail and then counts as "not cancelled". A
finished job's future may already be cancelled, which the code ignores.

`job` holds `Job.status`, `cancel_requested`, `attempts` and `finished_at`
(ordered by `clock`, since eviction sorts by it). `retained` is the key set of
`_jobs`: an evicted job is gone for status and cancel calls. Priorities do not
exist in the code; the queue is FIFO. `Crash` drops memory and keeps rows,
`Startup` interrupts the rows left active. `CancelByRow` is the endpoint's path
for jobs this process does not know, and with `Replicated` the other replica.

`SerialExecutor` knows phases, answers and tries only. The refinement maps
`queued` to waiting, `running` and `cancel_requested` to running and the final
statuses to over; evictions, heartbeats, rows and the order of the queue are
stutters.

### AbQueue and AbCache

The only await in a generation is the rendering of a segment that is not
cached; the two modules split there. In `AbQueue` a rendering is one step
(`Rendered` or `RenderFailed`), and `Continue` runs the loop from one await to
the next: look at the cancel flag, pass over cached segments, start the next
rendering or end. The producers are the queue loop and one foreground
generation per book. The folder of a book (`Dir`) is its own or that of the
store book it is linked to, and a subfolder for each set of its owner's
pronunciation rules; `Publish`, `Unpublish` and `ChangeRules` move it. Every
publication makes a new store book, which fills with what the book's own
directory has. A producer keeps the folder it chose at the start (`dir`), and so
does the request of a listener (`LiveBegins`, `LiveEnds`).
`Recover` is part of the first `Tick` of a process, as in `queue_loop`.

`AbCache` takes one rendering apart: synthesis writes a wav, ffmpeg is spawned,
opens the output (truncating a file that is there, since a path names a file),
exits, and the result is renamed into the cache. A file remembers its writers
and whether two wrote at a time. Listeners hold the per-book lock of
`serve_segment_live` and look into the cache again once they have it; batches
take no lock. That the two modules fit together is the reading of `Rendered`:
the segment is in the cache, whole, when the rendering returns
(`PublishedIsWhole`), except for the books of `MCAbCache_shared`.

### PodcastProduction

A production's `pc` is where its request or worker waits: `checking` (the voice
engines are asked before the claim), `claimed`, `opened` (the first event went
out, the worker task exists), then the worker's awaits, then `cancelling` when
the client's disconnect cancelled it. `Claim` is the conditional UPDATE. An
edit reads the script, waits for the engines, looks at the status again and
writes what it read (`edit.read`). Scripts are known by who generated them and
the edits they hold. `work` holds the bytes of the assembler's mix file, one of
`Takes`: a new mix may have the bytes of an old one, when no segment changed.
`archive` are the files named by hash: not there, whole, torn, or being written
by the copy of a production, which remembers in `copy` what it copies where.
`aged` are the files old enough for the cleanup, `sweep.keep` the references the
cleanup read before it deletes. Copies and the cleanup run in threads
(`asyncio.to_thread`) and ffmpeg is a process, so each begins and ends in steps
of its own (`Archive`, `ArchiveEnds`; `CopyMix`, `CopyMixEnds`; `Mix`, `Mixed`),
and one whose worker was cancelled runs on (`OrphanExits`, `OrphanCopyEnds`). A
copy begins with emptying its target, breaks off if ffmpeg empties its source,
and gives the target the age of the source in the end, as `shutil.copy2` does.

Left out: which bytes of a file are wrong once it is not whole. All such files
have the one content `torn`, and a later production that archives one finds it
under that name. A cleanup whose age limit is shorter than a production
(`max_age_hours` may be 0, `main.py:1064`) takes whatever is not named yet; `Day`
lets files age only while nothing is produced.

### HsRuns

What a thread does under `LOCK` is one step and ends in `save_state`, so the
database holds the state of the last step and a restart finds exactly that.
`pc` follows the stages of a run: mapping, transcribing, reconciling, then
`rewrite_narration` (detecting, writing), then `render_project` (speaking,
encoding, numbering, publishing). Kinds of runs enter and leave at their own
stages. `Look`/`Enqueue` are two steps because `active_project_run` reads
outside the lock; `rerender` does both under it (`Rerender`). `Changed` is what
every change of the script does to timeline, staleness and report; `Restored`
is `project.update(previous)` after a failed rewrite, which does not contain
`audio_stale` and the report. A script is known by the run that wrote it and
its edits, the voice and language of the binding by who set them last, audio by
the script and the voice heard in it and its revision. `Bind` replaces the
binding whatever is going on, with the voice there was or another (`"rebound"`);
`WriteVoice` is `update_narrator_voice`, which also marks the audio. The cues of one
render are spoken in one step (`Speak`), although a binding that is replaced
meanwhile reaches only those not yet spoken.

`rushed` is an aid of the properties and of nothing else: it records that a
request decided while another had decided and not yet acted, or in the moment in
which the reconciliation has marked a pipeline as succeeded that goes on.
Properties that these races break are stated for behaviours without them, and
say so; everything else is stated for all behaviours.

### GpuGuard

`step` is where the worker waits: for the unload callbacks, for the report of
`gputasks`, for the callback of its own service, for the second report. A
measurement lists each process or leaves it out, and may miss a GPU; the
decision (`Allowed`, `Reserved`, `Reclaimable`) is the arithmetic of
`_decision_for_service` on what was listed. `Unload` is a callback: it may end
without unloading, since a server that is busy or does not answer is passed over.
Everything else on the machine is `LoadsElsewhere`, `FallsIdle`, `Begins` and
`EndsElsewhere`: services load and unload without the queue (transcriptions do
not pass through it), programs come and go. `fresh` is an aid of the properties: nothing happened
elsewhere since the last measurement.

`MCGpuFaults` puts the queue and the guard into one instance. `GpuQueue` takes any
answer of the guard, so what is shown of the queue holds for any guard, and the
guard does not know which job it decides about; the two halves are scenes of
one run, each with the other at rest.

### HsIntervals, HsDetect, HsPlan, HsRender

A project is a record of episodes, lines, recognised words and passages; a unit
of time is a millisecond and a sample. `HsDetect` is the voting of fingerprint
matches over the episodes (how many must agree, how the edges are smoothed, the
pauses in the dialogue an edge is moved into); `HsPlan` chooses the line, the
side and the pause of each comment and applies what the agent answered;
`HsRender` runs the stages: `WriteScript`, `Prepare` (detect, cut, re-anchor,
realign, snap), `SpeakCue` for one cue after the other with its fitting,
`Demote` for what does not fit its pause, `Place` for each episode, `Release`
with the `Report` of the quality gate, and `Again`. What a render writes into the cues stays there for the next one.
The cases are the state `case`: a project, its sound, the length of each clip
and the agent's answer.

### HsPackages and HsAlignment

Time runs over moments, some of which have no line a comment can stand at
(`Mute`). `HsPackages` computes the candidates of a fresh script, of a repair
(whose untouched cues are `locked`) and of a repair that closes silent stretches,
and divides them into windows; one call of the agent gets one window. The number
of a candidate says what it is: a passage, a figure's introduction, or a comment
proposed for a silent stretch.
`HsAlignment` runs through the packages: a checkpoint of the same question is
reused, an answer is taken with the locked cues put back, the agent fails, or its
repair loop has lost the locks (`LosesLocks`). A failure ends the run and keeps
script and checkpoints; `heard` turns true when the audio is there and cuts are
found, which changes the candidates. A render moves each comment that lies in a
cut to the next line of its episode that sounds, at the end to the last one, and
fails when there is none (`Outward`, `Render`).
A text is who wrote it and the names it has in a spelling that is not the
recordings' (`Aliases`). An answer may report some of those, checked against its
passages; when a run is applied they join the `lexicon`, and every comment, locked
or not, is respelt by it (`Respelt`).

### AlignmentContract and AgentRepair

An answer gives cues a segment and a text. `Judge` is the order in which
`research_scene_alignment` checks and the first error it raises: form, anchors,
order, texts, repetitions, budget, density, gaps, introductions. Of a text its
verdict under each of these rules is kept. `AgentRepair` has two
steps, an `Attempt` and the handling of its error (`Settle`): keep what passed,
lock it, ask again, go to the next provider, and when all are through,
`GiveUp` with the salvage stages in their order.

### CliMaintenance, CliLogins, ModelRun, AgentService

`worker` is the thread of a maintenance job, from the acquisition of the lock
(`start`) through npm, verification, the move of the symlink and the record
of it to the end. `Saves`/`SaveFails` are `status.json` on a disk that may be full. A
login is a request, a session in a table and a CLI on a pseudo terminal
whose thread outlives both; the check of the limit and the insertion are
separate steps. `ModelRun` counts time in time limits. `AgentService` adds
`agent_post` with its two deadlines, `RUN_LOCK`, a caller whose connection broke
and whose run goes on, and the replacement of the container.

### ContextResearch

`stored` is what the database holds, `research.found` the copy of the thread.
Packages are answered, fail, or come from what was stored; a script that fails
later restores `before`. Figures are required in the first episode they appear
in of those a request names.

## 3. Runs

| Run | Configuration | States | Question |
|---|---|---|---|
| `gpu_queue` | `MCGpuQueue_queue` | 183 000 | do jobs, futures and rows stay consistent in all interleavings with one replica, and is it a serial executor? |
| `gpu_faults` | `MCGpuFaults_faults` | 196 000 | what survives failing database calls, a restart and another replica; does every job end; does the guard admit and refuse rightly? |
| `ab_queue` | `MCAbQueue_queue` | 3 500 000 | rows, jobs, producers and segments under cancel, delete, publish, changed rules, faults and restart |
| `ab_live` | `MCAbQueue_live` | 210 000 | is every row served when no book is deleted? |
| `ab_cache` | `MCAbCache_cache` | 21 000 | do batch and listeners of one book keep apart, and is every listener answered? |
| `podcast` | `MCPodcastProduction_production` | 811 000 | one production at a time, audio playable and fitting, workers end |
| `hs_runs` | `MCHsRuns_runs` | 930 000 | two runs of any of four kinds, an edit of the script or its voice, bindings, a deletion, a restart |
| `hs_render` | `MCHsRender_render` | 43 000 | from plan to published timeline and once more, over 289 cases |
| `hs_align` | `MCHsAlignment_repair` | 570 000 | three runs that write and repair a script, with failing packages |
| `agent_repair` | `MCAgentRepair_repair` | 158 000 | every sequence of answers of one or two providers to 16 requests |
| `agent_service` | `MCAgentService_service` | 144 000 | calls, jobs, logins and restarts; and the research of episodes |
| `research_lost` | `MCContextResearch_lost` | violation | does a finished package of the research stay when another fails? |

The properties, by run:

* `gpu_queue`: `NothingLost` (a queued job is in the queue exactly once, a
  running one is the worker's, both can be found by a cancel), `Answered` (a job
  that ended gave its caller the answer its status announces), `RowsFollow` (the
  rows say what the jobs do, and none waits or runs of which the process knows
  nothing, also after a restart), and the refinement `AbsSpec`.
* `gpu_faults`: `CancelWins`, `EveryJobEnds`; `AdmittedFits` (who is admitted
  finds the memory unless it was taken after the measurement),
  `DeniedOnlyWhenFull` (nobody is refused because of its own model).
* `ab_queue`: `OneProducer`, `CompleteIsListenable`, `CancelStops`.
  `ab_live`: `EveryRowServed`.
* `ab_cache`: `PublishedIsWhole`, `LiveNeverTwice`, `ListenersServed`.
* `podcast`: `ActiveOwnsStatus`, `AudioStaysPlayable` (named audio is there and
  whole, but for the two steps section 7 shows), `AudioMatchesScript`,
  `ProductionsEnd`.
* `hs_runs`: `OldAudioIsStale` (of script and voice; a binding that is replaced is
  excepted until a voice is chosen, section 7), `TimelineFitsAudio`, `RevisionsTellAudioApart`,
  `RunsEnd`.
* `hs_render`: `SourceOnce` (the timeline plays the retained source once, in
  order, without a hole), `ReleasedIsClean` (what the gate releases talks over
  no line and tells every comment once), `OnlyTitlesAreCut` (against a
  definition by what was planted in the sound), `RerenderIsStable`.
* `hs_align`: `NothingDropped` (what the packages deliver is in the script),
  `LockedStay` (a repair leaves what it was not asked for, but for names that are
  respelt), `GapsClosed`, `RetryContinues` (no finished package is asked for again).
* `agent_repair`: `DeliveredIsSound` (what is delivered keeps the parts of the
  contract no stage may give up), `RepairNeverWaived` (a repair is done in full
  or fails), `PassedStay` (what passed stays from attempt to attempt).
* `agent_service`: `ActiveIsWhole`, `LockHasOneHolder`,
  `EveryCliHasItsSession`, `IntroducedAtFirst`, `CallsEnd`.

Type invariants are part of the modules. Those of the modules with a proof
module are proved, in the form the inductive invariant needs; the others are
stated for the reader and can be added to any configuration as an `INVARIANT`.
The lists of the runs are kept to what could really be wrong.

`MCAgentService` is an instance of scenes, because the parts meet at few
places. Requests and jobs meet at the lock, logins and jobs where a job looks
for logins; requests and logins share nothing. So "calls" has a caller and no
jobs, "jobs" a caller and every kind of job with runs that end soon, "logins"
two logins and the shortest job, and "research" the research of episodes,
for which an answer of the agent is one step. A scene only removes steps,
and none that fairness speaks of is removed while it could stay enabled for
ever: a run that may not go on to a CLI may always end the provider's turn.

Exceptions written into a property (an `IF ... exception` in its comment) are
behaviours of the code that section 7 describes.

Deadlock is not checked where the modelled requests run out: after the last
job, segment or run the system rests. `AbQueue` has a clock and a loop that
tick for ever, and there it is checked.

## 4. Bounds, and why they are enough

* **Jobs** (2 or 3), two attempts, history of one: three jobs are one running,
  one queued and one being closed or evicted, the most positions a job can have
  at a time; a second attempt is a retry, a third would repeat it. The quota of
  two active and one queued is reached and refused with three. The run with
  three jobs takes one owner so that the jobs are symmetric; the one with two
  takes two owners.
* **Restarts** (1): a restart returns to a state whose memory is empty; what a
  second one adds is a row interrupted twice, which `Interrupt` maps to itself.
* **Books and rows** (`ab_queue`: one book, two rows for the same work, one of
  them for the night; `ab_live`: two books with a row each): duplicates and
  producers collide within a book, starvation needs a second one. Two segments
  are the least with a rendering between them; the liveness run takes one, and
  one segment rendered for a listener. One store book and two sets of rules move
  the folder away and back; a second store book is a folder no producer has
  chosen (`StoreShape`), which the proof covers for any number.
  `created` counts seconds in which rows are inserted, so it is bounded by the
  rows.
* **Producers of `ab_cache`** (a batch, three listeners, two segments): two
  listeners of one segment and one of another share the lock, the batch meets
  each of them.
* **Productions** (one script, two audio requests) and one edit: the races are
  between pairs: a production and the next, an edit and a claim, a sweep and a
  copy. The third lets a production be cancelled, replaced and overtaken.
  Two contents a mix can have, one of them that of the old audio, are the same
  bytes again and new ones; a third would be a file no copy has to do with.
* **GPUs** of `gpu_faults` (two, five services, four foreign processes, in GiB as
  deployed; four changes from elsewhere): a service whose model, tolerance and
  estimate differ, one with no GPU, one on a protected GPU, a known container and
  strangers above and below the limit. Four changes are one between every two
  awaits of the worker.
* **Cases of `hs_render`**: one episode of 40 units with three comments, each at
  any of three lines on either side, over two dialogues and recognised words
  that fill a pause; four episodes with the titles at every combination of
  {missing, 0, 2}, with endings and bumpers, in pauses, across lines and over a
  whole episode. Clips are short, as long as the contract allows, or too long.
  Lengths and margins are scaled down together, so every margin is one to a few
  units and every comparison is met from both sides.
* **Script of `hs_align`** (two episodes, 15 moments, five passages, two figures, a
  package limit of two, three runs): a run, a repair of named cues or of silent
  stretches and a third one after a failure; a stretch that can be closed and
  one that cannot; windows of one and of several cues; one passage with a name
  spelt its own way, which any answer about it may report or not.
* **Answers of `agent_repair`** (three cues, five segments, two attempts, one or two
  providers): 16 requests, fresh, first and middle packages, three kinds of
  repair, a seed; the offers of each contain texts that pass and that fail by each
  of nine rules. Two attempts are a repair of a repair, two providers the
  hand-over.
* **`agent_service`**: one caller beside runs that go on without one, one update,
  two logins with a limit of one, one restart. A second caller behaves as the run
  that is not the first's; a second update would start where the first ended,
  and `AgentProofs` has any number of both.
* **`research`** (three episodes, two chapters, two figures, packages of two, two
  changes of the mapping): a first and a second package, figures that appear
  early and late.
* **Runs** (two of four kinds), one edit: every pair of kinds, in one of its two orders
  (`MCSpec`: the runs differ in their names only). The kinds
  `realign` and `rewrite` pass through the same steps as `pipeline` and
  `repair` and differ in what they do not tell the project; `MCHsRuns_locked`
  covers them.

Counters that no code bounds (`clock`, `created`) are bounded by the number of
jobs, attempts and rows; the bounds on restarts, updates, changes of the mapping,
changes from elsewhere and foreground generations are constants in the guards.

## 5. Fairness

Liveness is claimed of workers, never of users: no request, cancel, failure,
restart, cleanup or second replica is assumed to happen or to stop.

* `GpuQueue`: weak fairness of the worker. The event loop keeps scheduling the
  task, the calls inside it carry HTTP timeouts, and the heartbeat task is
  cancelled before it is awaited.
* `AbQueue`: weak fairness of each producer (renderings time out) and of tasks
  that were created; weak fairness of the clock (night comes); strong fairness
  of a tick that changes something. The loop ticks every five seconds whatever
  happens, so if such a state recurs for ever some tick falls into it.
* `AbCache`: weak fairness of renderings. Strong fairness of the lock for a
  waiting listener, since `asyncio.Lock` wakes its waiters in order.
* `PodcastProduction`: weak fairness of a production (`Serve`: the server's first
  look at a response, then the worker, whose language model and engines have
  timeouts). A copy or an encoder without a worker may last for ever.
* `HsRuns`: weak fairness of a handler that decided and of each thread; Plex,
  the agent and ffmpeg are called with timeouts.
* `AgentService`: weak fairness of a caller's next request, of what becomes of a
  request that was sent, of the run (every child process and request has a time
  limit), of a job that began, and of the container's start. Strong fairness is
  not needed: `CallsEnd` counts the pauses of a caller that is told 409, so a lock
  that is always taken when it asks still ends the call.

## 6. Proofs

The runs of section 3 look at a few jobs, requests or runs. The theorems
below hold for every number of them and for every value of the other constants
that the named assumptions admit. Each proof module defines an inductive
invariant (`IInv`, `RInv`, `AbInv`, ...), proves that it holds initially and that
every step keeps it, with one lemma per action or per family of actions that
disturb the same part, and derives the theorems from it. The invariants were
model-checked on the instances of section 3 before they were proved.

Two theorems and a refinement have a hypothesis beyond the assumptions on
constants. `~Replicated` and `~Shared` are flags of the models that are `FALSE` in
the deployment by one process and with books that do not share a store book;
where they are `TRUE`, TLC finds the property violated (with the constants of
`MCGpuQueue_replica` and of `MCAbCache_shared`), so the hypothesis cannot be
dropped. The last step of each temporal theorem is
PTL; facts about finite sets are proved by smallest counterexamples
(`HasLeast`), which needs no induction theorem.

### GpuQueueProofs

Assumes `JobsAssumption` (no job is called NoJob), `OwnerAssumption`,
`LimitsAssumption` (at least one attempt; the other limits are natural numbers)
and `FlagsAssumption`. Replicas, failing databases and restarts are included.

| Theorem | Says |
|---|---|
| `TypeCorrect` | `TypeOK` |
| `NothingIsLost` | `NothingLost` |
| `CancelAlwaysWins` | `CancelWins` |
| `FinalIsFinal` | `FinalStaysFinal` |
| `RowsAlwaysFollow` | `RowsFollow` |
| `EveryEndIsAnswered` | `Answered`, if `~Replicated` |
| `QueueImplementsSerialExecutor` | `AbsSpec`, if `~Replicated` |

`NothingLost` is not inductive: it allows a queue that holds a completed job,
which `Start` would run again, and a closing job that is still enqueued.
`QueueShape` (only queued and cancelled jobs are in the queue, each once),
`WorkerShape` (status and position of the current job fit at each await),
`JobShape` (what each status says of flag and future) and `DownShape` (a dead
process holds nothing) exclude that. The delicate step is the retry, where a job
is queued and current at once; it is why `pc` distinguishes `requeueing` from
`closing`. Eviction chooses among jobs with a final status and is handled by one
lemma on `EvictOld`.

What the rows say needs a second invariant on top of it, `RInv`. `RowShape`: a row
follows the status of its job except between the final status and the closing
record, the only moment at which the code has changed the one and not the other;
and a row that waits or runs has a job that does, which a restart restores by
marking the rows it finds.
`AnswerShape`: with one process the row of a live job is flagged only after the
job is, so that a job the worker skips has an answered caller; with a second
replica that is false and so is `Answered`. `TryShape`: a job that waits has an
attempt left, which is what makes a retry a step of `SerialExecutor`. The
refinement is proved action by action: each step maps to a step of the serial
executor or leaves phases, answers and tries alone (`AbsStep`).

### GpuQueueProofs: the guard

Assumes `GuardAssumption` (an estimate covers the model and its tolerance, limits
are integers) and `ProcessAssumption` (there is a service, memory is a natural
number, and nobody else's process has the name of a service's container).

| Theorem | Says |
|---|---|
| `GuardInvariant` | the invariant below |
| `AdmittedJobsFit` | `AdmittedFits` |
| `RefusalsAreRight` | `DeniedOnlyWhenFull` |

Both properties are decided by a measurement some steps before the state they
speak of, so neither is inductive. `Measured` says what is still true of it until
somebody else changes the memory: an admitted job fits, one that is about to
unload itself or was refused finds the GPU full. The lemmas beneath are about
sums over finite sets of processes: the order of counting makes no difference
(`SumWithout`), more processes hold no less (`SumOfMore`). From these it follows
that processes missing from the list, however many, never admit a job that does
not fit (`AllowedFits`) and that a refusal by a list with gaps is right
(`RefusedIsFull`).

### AbQueueProofs

Assumes `DataAssumption` and `BoundsAssumption`. Books, rows, priorities,
foreground generations, deletions, store books, rules, listeners' renderings,
failing updates and restarts are any.

| Theorem | Says |
|---|---|
| `AbTypeCorrect` | `TypeOK` |
| `OneProducerPerBook` | `OneProducer` |
| `CancelTakesHold` | `CancelStops` |
| `CompleteMeansListenable` | `CompleteIsListenable` |

`OneProducer` says nothing of rows, and the loop takes its book from its row:
`ProducerShape` adds that a loop at work has a row and a foreground producer
none, and that the job of a book somebody works on says running, which is what
both kinds of producers look at. `CacheShape` carries `CompleteIsListenable`: what
the loop no longer has before it is in the folder it writes to, unless that is a
store folder that was deleted since. `StoreShape` keeps such a folder from coming
back: a store number is not the loop's before it is given out.

### AbCacheProofs

Assumes `CacheAssumption`. Engine and encoder may fail at any point.

| Theorem | Says |
|---|---|
| `CacheTypeCorrect` | `TypeOK` |
| `ListenersRenderOnce` | `LiveNeverTwice` |
| `CacheAlwaysWhole` | `PublishedIsWhole`, if `~Shared` |

`LockInv` (a listener that renders has the lock of its book) suffices for the
first two, whether books share a folder or not. `PublishedIsWhole` is not
inductive: it does not exclude an encoder that opens a file already in the
cache. `PathShape` ties each file to one temporary path and one segment for all
its life, which needs that no two producers at work have a path in common, and
this is where `~Shared` is used (`OwnPath`); `CleanShape` follows it from the
spawn of the encoder to the rename.

### PodcastProofs

Assumes `ProductionAssumption`: script requests, audio requests and edits are
different things, and the names for contents are different from them.

| Theorem | Says |
|---|---|
| `TypeCorrect` | `TypeOK` |
| `OneProductionAtATime` | `ActiveOwnsStatus` |
| `FinishedAudioMatches` | `AudioMatchesScript` |
| `AudioAlwaysPlayable` | `AudioStaysPlayable` |

`ActiveOwnsStatus` together with types is inductive, since the claim is a
conditional UPDATE and every later write has the same condition. That finished
audio matches needs `ReadShape`: while an audio production occupies its podcast
the script it read is the one in the database, because every edit looks at the
status again in the same step in which it writes.

That audio stays playable needs the most, and the threads are why. `LegacyShape`:
audio that exists only as the mix file has been archived before ffmpeg opens the
file for the next mix. `MixShape`: the mix file is young while it is mixed and
copied. `CopyShape`: the copy of a worker writes its own file, so the file is
whole when the worker names it, and it is young then. `OrphanShape` is about the
copies whose worker is gone: whatever they still write is a copy of the mix
file, so a file that is named is never the one they write unless the bytes are
the same. `SweepShape`: a sweep under way has either seen the reference or finds
the file too young. `Kept` is what a step does to the files named, and each
action has a lemma that shows it together with the invariant. The two exceptions
in `AudioStaysPlayable` are case (7) of section 7; both are needed, since TLC
violates `ArchivedAudioIsThere` and `ArchivedAudioIsWhole`, which have none.

### HsProofs: the runs

Assumes `RunsAssumption` and `NoneAssumption` (what is not there yet is none of
the values that come).

| Theorem | Says |
|---|---|
| `IInvHolds` | the invariant below |
| `TimelineAlwaysFits` | `TimelineFitsAudio` |
| `OldAudioIsMarked` | `OldAudioIsStale` |
| `RevisionsIncrease` | `RevisionsTellAudioApart` |

The argument: unless requests raced (`rushed`), at most one run or one edit is
under way (`Alone`); hence the copy a rewrite would return to is still equal to
the project where it matters (`KeptIsCurrent`), a render speaks the script that
is there and has a number above that of the audio it will replace
(`RenderIsCurrent`, `NumberShape`), and `RunShape` says where each thread is.
`TimelineFitsAudio` holds in raced behaviours too, save for the report, which is
why `KeptShape` is unconditional. `Alone` needs that a request that looks and
finds no active run finds nobody at work at all; that fails in one place only,
the moment in which a pipeline is marked as succeeded and goes on
(`reconciled`), and `Rush` records it.

### HsProofs: the render

Assumes `RenderBounds`, `PlanBounds`, `DetectionBounds` and `IntervalBounds` (margins,
limits and window sizes are natural numbers, and a shortest finding is not empty) and
`CasesAssumption`: a case is well formed (each line belongs to an episode, each episode
has fingerprints, an answer names lines of the transcript) and a narration that was
spoken has a length; no line need lie within the length of its episode. Projects, fingerprints, what counts as alike (`Near`, `SameBands`),
answers and lengths are any.

| Theorem | Says |
|---|---|
| `RenderInvariant` | the invariant below |
| `RetainedSourceIsPlayed` | `SourceOnce` |
| `ReleasedStaysClean` | `ReleasedIsClean` |

`SourceOnce` speaks of a finished render and is not inductive: an episode is laid out
by a fold over its cues, one fold per step. `RenderInv` is made of three parts.
`RenderTypeOK` says among other things that what is cut from an episode is a finite set
of intervals, for which the whole detection has to be typed. `LaidOut` says that until
the timeline is begun it is empty, that the cues before the next one are spoken,
and that every episode is played up to where it is laid out (`Plays`: its pieces lie
in order, and their points are those before the cursor that are in no cut).
`GapsKept` says that since the cuts were made no overlay has a pause that meets one of
them. It is `Reanchor` that brings this about, and `Demote` keeps it, for it
only turns overlays into insertions.

Inside a step the same thing is shown of each cue the fold comes to: an overlay plays the
source up to its beginning and then the stretch it lies on, which meets no cut because
`PlaceOverlay` looks (`PlaceOverlayType`); an insertion plays it up to its place,
and never takes the cursor back (`PlaceInsertType`). `PlaysOnce` ends it: intervals are told
by their points (`CanonicalUnique`), so the pieces joined are what
`SourceRanges` leaves, which is what the gate computes too.

`ReleasedIsClean` asks three things of what the gate lets through. That each narration
is heard once follows from the check of rendered cues; that nobody talks under an
overlay from the check of the dialogue, whose margin is not negative; that no
overlay lies in a pause cut since it was planned is not looked at by the gate and is
`GapsKept`.

### HsPlanProofs

The lemmas about operators the render rests on; no theorem of its own. Three layers:

* Folds. The folds of the community modules are chosen functions: `FoldsExist` proves that
  there is one to choose, over the subsets of any finite set, and `FoldOfSeq` that the
  fold of a sequence takes its elements one after the other. What a fold keeps is
  shown by the least number of elements at which it is lost (`Counting`).
* Intervals. `SortedFacts` (sorting lists each element once and along the order),
  `MergedFacts` and `SourceRangesFacts` (joining keeps the points and cutting takes away
  exactly those of the cuts, in order and as long as they can be), `OnlyFacts`.
* Types, one lemma per operator of `HsPlan` (`GenerateType`, `AlignType`, `ApplyType`:
  every cue stands at a line, is named by a passage of the book, and an overlay has
  a pause) and of `HsDetect` (`BestMatchType`, `ConsensusType`,
  `ClusterType`, `CutsType`: a cut is an interval that is not empty, whatever the
  fingerprints).

### HsAlignmentProofs

Assumes `PackageAssumption`: the lines stand in the order of the episodes, a
passage's home is a moment, no two figures are proposed at one line, the numbers
of passages, figures and stretches are apart, and the limits are natural numbers
(a package has room for something). Books, cuts, limits, requests, answers,
failures and checkpoints are any.

| Theorem | Says |
|---|---|
| `AlignmentInvariant` | the invariant below |
| `DroppedNothing` | `NothingDropped` |
| `LocksStay` | `LockedStay` |
| `RetryGoesOn` | `RetryContinues` |

Why is nothing dropped and nothing locked moved, though each answer is checked
against its own package only, by a program that sees no other? Because of how
the packages lie: in a run they follow each other in candidates *and* in windows
(`PackagesRanged`), and every locked comment that stands at a line still heard is
a candidate of one of them. So an answer that keeps inside its window cannot be
out of order with the others, and the check of order over the whole script
(`Chronological`) passes. That is proved for each of the three ways in which a
run finds its candidates: fresh from the book, from the script, and filled into
silent stretches.

`IInv` carries this through a run. Of the script: every comment has a line and a
number of its own (`ScriptOk`). Of the run: its request is a possible one
(`Begun`), what is told so far is sorted, has numbers of its own and lies within
the packages that are done (`DoneOk`), every finished package has given back
what was locked in it and has its answer on disk (`Delivered`), and what a
failed run leaves can be asked again by the next with the same question
(`BrokenOk`), which is what `RetryContinues` needs.

`HsPackages` is written with recursive functions: where packages begin, how a
stretch is filled. A recursive function of TLA+ is chosen, and says nothing
unless one exists; `Recursion` proves that it does, `StartsExist` and `FillExists`
apply it. What they compute is then shown by a least index at which it is
false, in place of an induction. `Ranks` and `SortedFacts` do the same for sorting
by rank.

### AgentProofs: the repair of answers

Assumes `PackageAssumption`, `ChainAssumption` (a request has the type
`RequestType`, there is at least one attempt) and `EngineAssumption`: the engine
locks cues only in a repair and never waives the introduction beforehand
(`engine.py:4663`). Packages, answers, providers and attempts are any.

| Theorem | Says |
|---|---|
| `AgentRepairInvariant` | the invariant below |
| `DeliveredAlignmentIsSound` | `DeliveredIsSound` |
| `RepairsAreDoneInFull` | `RepairNeverWaived` |
| `PassedCommentsStay` | `PassedStay` |

An error of an early attempt may be delivered after many more, in a salvage stage
that gives up a part of the contract. So `RepairInv` speaks of every error that is
kept, not of the result: each holds the engine's locked comments (`ErrorShape`),
one that is only thin passes all rules for cues (`Passes`), one whose introduction
may be rewritten has no locked cue among the invalid, and what is asked next
holds the locks too (`CandidateShape`). `ResultShape` is the lemma on `Judge`:
which rules have been checked when a given error is raised. `PassedStay` follows
from the fourth conjunct of `RepairInv` (an error at hand has what the attempt had
locked) and from what `RepairCandidate` keeps.

### AgentProofs: the service and the research

Of the service it assumes `MaintenanceAssumption` only: the bound on the updates
is a natural number. Callers, logins, models, chains and limits are any. Of the
research, `ResearchAssumption` (finitely many episodes, numbered) and `NoContext`.

| Theorem | Says |
|---|---|
| `ShapeOfTheService` | the invariant below |
| `LockIsHeldByOne` | `LockHasOneHolder` |
| `CliInUseIsWhole` | `ActiveIsWhole` |
| `LoginsStayInReach` | `EveryCliHasItsSession` |
| `ResearchTypeCorrect` | `ResearchType` |
| `FiguresIntroducedAtFirst` | `IntroducedAtFirst` |

`ReleaseShape` carries `ActiveIsWhole`: a job that installs works on a release of
its own that is not the active one, so neither a failure that removes it nor an
npm that fills it can touch what is in use; and at the swap its release has been
found whole. `LockHasOneHolder` is inductive once the steps of a job are known
to end with giving the lock back (`JobStep`); its third part, that a run
keeps the CLI it began with, follows from the exclusion, because only a job at
its swap changes the link. `SessionShape` is the login table with
`EveryCliHasItsSession`; every step changes one session and at most cleans the
others (`OneSession`).

`IntroducedAtFirst` speaks of the contexts a script is written with, and these were
researched in earlier packages and earlier runs by what was stored then. So
`ResearchInv` says of everything that is kept (the database, the thread's copy,
the copy for a rollback) that, under one mapping, a context requires exactly
the figures whose first episode it is (`IsSound`). That a package of the agent
keeps this is the lemma on `Introduced` and `Required`: the episodes of a mapping
are in the order of the chapters, and no two of them in one place
(`OrderedOnce`). `Writes => Mapped \subseteq Of(research.found) /\ Once(research.found)`
is the other half: a script is written when no episode is without a context, and
after `Normalized`, which takes the second introduction of a figure away whatever
mapping the contexts were researched under. So the property holds of one mapping
with "exactly the first episode", and of all with "no second".

### What stays with the model checker

* Liveness (`EveryJobEnds`, `EveryRowServed`, `ListenersServed`,
  `ProductionsEnd`, `RunsEnd`, `CallsEnd`) depends on fairness and
  ENABLED, which the prover does not handle.
* `GpuQueue!Answered` and `AbsSpec` with a second replica, `AbCache!PublishedIsWhole`
  with a shared store folder: false there (section 7). `GpuRows` has no theorem of
  its own; its operators are expanded in `GpuQueueProofs`.
* `MCHsRender!OnlyTitlesAreCut` compares the cuts with what was planted in the sound
  of an instance. Of every sound it is false: where episodes share something else that
  is long enough, that is cut.
* `HsRender!RerenderIsStable` relates the places of two renders. It depends on how the
  lines of a project lie around a comment that is moved (the neighbouring properties
  that do fail are in section 7), and is checked over the cases of an instance.
* `HsAlignment!GapsClosed` speaks of the stretches that can be closed at all, which
  depends on where the lines of an instance lie; it is checked on one.
* The bound on revisions in `HsRuns!TypeOK` counts renders; the proofs use
  `Types`, which is `TypeOK` without it.

## 7. Disagreements found while modelling

One has a run, `research_lost`. The comment in `engine.py:3696` says that each
finished package of the research is saved at once, so that a failure of the next
one costs this package only. The error handler of the rewrite restores the
research of the beginning (`engine.py:7552`) and keeps the local copy only if
that is current; but the local copy is filled after the last package
(`engine.py:7341`), so what was saved meanwhile is taken back.

The following have a configuration that shows them and are no runs of the
project, because each says that something goes on to be wrong which the passing
runs exclude. Each is a property of its own in the module named.
`MCHsRender_beyond` has three of them: run it with `-continue` to see all. Where the
row says "with", replace the properties of the configuration by the one named.

| Configuration | Property | Shows |
|---|---|---|
| `MCGpuQueue_replica` | `EveryCallerAnswered` | a queued job another replica cancelled is skipped (`gpu_queue.py:639`), its future never resolved, its request waits for ever |
| `MCAbQueue_starved` | `EveryRowServed` | deleting an audiobook leaves its queue rows; the row at the head fails before it leaves `pending` (`audiobooks/routes.py:951`) and is selected again for ever |
| `MCAbQueue_queue`, with `PROPERTY CompleteWhereListened` | `CompleteWhereListened` | the folder is chosen once (`audiobooks/routes.py:227`); a publication, the deletion of the store book or a changed rule during the row moves the listener, and the row is `complete` with nothing where he looks |
| `MCAbCache_shared` | `PublishedIsWhole` | two books of one store book are generated at once with the same temporary names (`audiobooks/routes.py:200`) |
| `MCPodcastProduction_torn` | `ReadyAudioIsWhole` | a cancelled worker's ffmpeg runs on (`audio_assembler.py:935`) and shares the mix file with the next production |
| `MCPodcastProduction_production`, with `INVARIANT ArchivedAudioIsThere` | `ArchivedAudioIsThere` | the cleanup reads the references before it deletes (`artifact_cleanup.py:44`); old audio archived in between (`podcast/routes.py:2035`) has the old age and is removed, named as it is |
| `MCPodcastProduction_production`, with `INVARIANT ArchivedAudioIsWhole` | `ArchivedAudioIsWhole` | a production that gives the same bytes copies them over the published file (`podcast/routes.py:2048`), which is emptied first and stays torn if the copy fails |
| `MCHsRuns_locked` | `EditingIsLockedTemporarily` | an error in the detection before a rewrite is handled by code that reads a variable assigned later (`engine.py:7551`); the project stays locked until a restart |
| `MCHsRuns_runs`, with `INVARIANT OldVoiceIsStale` | `OldVoiceIsStale` | a series that is bound again brings another voice or language; `bind_plex` (`engine.py:915`) does not mark the audio as `update_narrator_voice` does (`engine.py:1064`) |
| `MCHsAlignment_repair`, with `PROPERTY LockedWordForWord` | `LockedWordForWord` | locked cues are to stay "wortgleich" (`engine.py:4352`), but names are respelt in all comments (`engine.py:6195`, `engine.py:7464`), by what this repair's answers have just reported (`engine.py:7458`) |
| `MCHsAlignment_repair`, with `INVARIANT OneIntroduction` | `OneIntroduction` | "one required introduction per character across the whole book", but a comment that stands before the figure's episode gets no clone removed (`engine.py:3959`) |
| `MCAgentRepair_repair`, with `INVARIANT OnlyThin` | `OnlyThin` | an accepted coverage gap skips the check of the introduction (`runner.py:3104`) |
| `MCHsRender_beyond` | `LongCutsAreReported` | an insertion that has to cut an utterance is not always reported to the gate (`engine.py:2999`) |
| `MCHsRender_beyond` | `InsertsStartAtTheirScene` | an insertion that was moved by a first render does not start at its scene in the next (`engine.py:9143`) |
| `MCHsRender_beyond` | `LengthNeverFails` | a narration too long to be fitted ends the render (`engine.py:9236`) |

The rest are in the models or were met beside them, and are allowed for by the
comments of the properties they touch. Exceptions inside a property belong here.

*GPU queue and guard.* A row interrupted by a restart can be cancelled afterwards and then
counts against its owner's quota for good (`database.py:998`). A job that is
being closed can be evicted from the history and no longer be found. The report
of the GPUs may be old when the work starts; `AdmittedFits` excludes what happened
before it, nothing excludes what happens after. Speech recognition does not
go through the queue.

*Audiobooks.* A job cancelled after its last look at the flag has its row
overwritten with `complete` or `error` (`routes.py:968`). A generation keeps the
folder it chose while the book is published or unpublished or a rule changes,
and leaves the rest of the segments in the old one (`Moved` excepts it from
`CompleteIsListenable`); the old folder of a store book that was deleted is
created again. The window of off-hours rows is checked at the start
only. A rendering that outlives the deletion of its book creates the book's
folder again. A batch and a listener may both synthesize a segment; both are
whole.

*Podcasts.* (6) A restart leaves a podcast generating, and nothing resets it
(`main.py:1091`); a client that leaves between the claim and the worker's first
step does the same (`routes.py:1654`). (7) Named audio
can be lost in two ways, both shown above and excepted from `AudioStaysPlayable`:
a cleanup that read its references before old audio was archived removes the
archived copy, which keeps the old time stamp, and a production that gives the
same bytes again writes over the published file. Two edits that both read before either writes lose
the first one's change. A segment that could not be synthesized is left out and
the podcast becomes ready (`audio_assembler.py:805`).

*Radio plays, runs.* Starting a run looks for an active one outside the lock
(`engine.py:955`), so two requests start two runs of one project, which share
`audiobook.m4a` and may give the same revision. The reconciliation reports a
pipeline as succeeded that goes on (`engine.py:6939`); requests are let through in
between. An edit that was let through before a run began writes after it, or into
a cue list that was replaced, and is lost (`engine.py:1017`). A new placement of
an unchanged script always fails, since the warnings read a scene alignment that
does not exist on that path (`engine.py:7525`); the project is rolled back, but
`audio_stale` stays set. A run of a project that was deleted before its thread
began is never ended.

*Radio plays, script.* A locked cue whose line is cut later is dropped without
a word, against the docstring at `engine.py:4352`; `LockedStay` speaks of lines that
still sound, and allows the names to be respelt, against the same docstring. A second repair of the same cues for the same reason has the same
digest and is answered from the checkpoint of the first, against
`engine.py:1347`. `coverage_gap_repair_ids` may unlock and move a locked cue.
After the mapping was changed, contexts that are reused may introduce a figure
later than its first episode; of changed mappings `IntroducedAtFirst` says only
that no figure is introduced twice. Research
without a synopsis is used in the run that got it and asked for again by the next
one. That a figure is introduced in the *first* episode is a matter of the order
the episodes are given in, that of the chapters.

*Radio plays, timeline.* An overlay and an insertion may share a pause. An
utterance whose middle lies in a cut is no utterance for the search of pauses.
The pause of the opening block is not marked as used, and one that a dense scene
was refused stays used.

*Agent.* The deadline of an agent that cannot be reached starts with the first
failed connection of a call and is never reset: a second restart more than 15
minutes later fails the call at once, against the comment at `engine.py:3492`. The
engine reads an answer for twice the providers' limits and a minute; the runner
may take up to 14 attempts for each of them, so a run may go on with the lock held
after its request was given up. An answer that introduces a figure in another
cue takes the label off the locked introduction, which is then lost. The locks are
lost for the next provider after an error that is no validation error. A failed
job says that the previous executable remains active, also when the failure
came after the swap; a job whose first save failed stays `running` in memory with
the lock given back. `MAX_LOGIN_SESSIONS` may be exceeded by two requests at a
time, since the limit is checked in another section than the insertion. A login
that is cancelled while its request still waits is an error to that request.
Sessions past their time are cleaned by the next look only.

*Model servers* (read, not modelled). In `whisper-stt` the model is a global that
a second request may replace, and unloading takes it from a running
transcription. `kikiri-tts` evicts the voice loaded first, not the one used least
recently. `omnivoice-api` unlinks the first registration's recording when a second
one of the same name fails.

## 8. What is not modelled, and why

* **Content.** Texts, prompts, transcripts, audio: the modules know who wrote a
  script or a file, which of two it is and what the rules say of it, nothing of
  what is in it. Matching of subtitles with the book, `scene_evidence.py` (what a
  frame shows) and the editorial quality of a text are inputs.
* **External programs**: language models, engines, Plex, ffmpeg. They succeed,
  fail or, where the code does not wait for them, go on; their answers are
  values.
* **The model servers and the trainer** have no module yet.
* **Export, import, sources, settings, reviews, voices, health, metrics**: see
  the notes of the components in `PROJECT.json`. Most are requests that read or
  write one row.
* **Clients**: their requests come at any time and their connections break at
  any time, which is all the server knows of them.

Simplifications worth knowing:

* Time is not measured: an interval that may pass is a step that may happen. In
  `ModelRun` and `AgentService` it is counted in limits and pauses.
* SQLite's statements are atomic, and they survive the end of the process, as
  its write-ahead log promises. The rename of `status.json` and of a symlink is
  atomic.
* `GpuGuard`: no caller gives its own estimate, and the switches that turn guard
  or retry off are left out.
* `CliMaintenance`: one CLI and one provider, which the jobs treat alike; the
  versions a check reads are not kept. A login check takes no time.
* `AlignmentContract`: one episode and at most one figure in a package, in the
  density `audio_drama`; a short text is judged by the pauses near its proposed
  place. A seed holds no text that repeats another.
* `HsAlignment`: the contract of a package is reduced to distinct lines, the order
  of the novel, its density and its introductions; `AgentRepair` has the rest.
  Which figures a passage names does not depend on the spelling; a spelling is put
  right once and for all, where the code may chain two aliases. An editor's own
  changes to the lexicon, between runs, are left out, like all other edits of the
  script there. Candidates have different keys.
* `HsRender`: a unit is a millisecond and a sample, stretching is exact, and of
  the gate the checks of evidence, editorial quality and technical delivery are
  left out. Cuts at the book's edges are not part of the detection.

## 9. Plan

What is left, most important first.

1. `ModelServer`: one module for the lock, the time of last use, idle unload and
   eviction of `whisper-stt`, `omnivoice-api` and `kikiri-tts`; never unloads a
   model in use, at most the configured number resident. Section 7 lists where
   it will disagree.
2. Proofs: under which conditions on a project a second render is stable
   (`RerenderIsStable`), on the lemmas of `HsPlanProofs`.
3. `PodcastSources` and the synthesis of segments with its batches, retries and
   skipped lines; `AbExport`; the trainer's job.
4. `IntroducedAtFirst` across changes of the mapping, once reused contexts are
   compared with it; the composition of `HsAlignment` with `AgentRepair`, whose
   contract it takes as an assumption on answers.
