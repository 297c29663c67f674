# ProjectOS core: a TLA+ verification project

ProjectOS core is a ledger-first project system in Rust. A project is a `.pos`
directory: an append-only SQLite event log, projection tables folded from it, a
content-addressed blob store and a manifest. Everything else (jobs, schedules,
agent Runs, ingest, model calls) is events in that log plus a little ephemeral
state beside it. Two processes may have one project open ("one UI plus one
CLI", `pos-store/src/db.rs:13`), each with worker threads of its own, and either
may be killed at any time: that is what makes the code hard, and what these
modules are about.

A run is `tlc -config <run>.cfg <module>`, with the module that `PROJECT.json`
names for it; the proofs are `tlapm <module>.tla` for each
module whose name ends in `Proofs`.

`PROJECT.json` lists the components, the runs, the source lines each definition
models, the hazards and the theorems. This file explains them.

## 1. The system

| component (crate) | state | operations | talks to |
|---|---|---|---|
| project log (`pos-log`) | `events`, per-device lamports, projection tables, `applied_seq`, `schema_digest`, `snapshots` | open, append (with and without an expected head), rebuild, restore from snapshot, verify, dump | database, projection registry of the build |
| project database (`pos-store` db) | one writer connection, a reader pool, a fail-stop flag | IMMEDIATE transaction, commit, rollback | every component that persists |
| blob store (`pos-store` cas) | fan-out directories, blobs named by BLAKE3 hash, temp files | open (sweeps temp files), write, finish (dedup, rename, directory sync), drop, verify, copy | ingest, agents, API |
| manifest, fault plan (`pos-store`) | a file written once; test-only fault points | create, load | log open |
| job queue (`pos-sched` queue) | `proj_jobs` (from events), `sched_leases` (ephemeral) | enqueue, claim, heartbeat, complete, fail, supersede, reap | log, pool, cron |
| worker pool (`pos-sched` pool) | threads per class, heartbeat tasks, maintenance task, shutdown flag | start, poll, run job, tick and reap, shutdown | queue, cron, handlers |
| cron driver (`pos-sched` cron) | `proj_crons` | register, set enabled, tick | queue, log |
| cron schedules (`pos-sched` cron expr) | none (pure) | parse, matches, next_fire_after, preview | driver |
| Run harness (`pos-agents`) | `proj_runs`, step rows, receipts | start, prepare, record, settle, pause, cancel, resume, ask, answer, finish | log with an expected head, gateway, tools |
| tool authorization, runtimes (`pos-agents` tools, roster) | grants, taint, lineage, committed calls | start with an allowlist, authorize, commit, resume, cross the boundary | harness |
| Echo agent, run operations (`pos-agents` echo, `pos-api` run_ops, stream) | the Run's row, one thread per process, a set of active Runs, a window of frames | start, pause, cancel, resume, three steps, verdict, follow | harness, blobs, gateway |
| domain (`pos-domain`) | event types and projections | apply | all writers |
| ingest pipeline (`pos-ingest` pipeline, reprocess) | evidence, stage, chunk, vector and health rows; stage jobs | submit, run stage, commit finished or failed, reprocess | queue, log, stages |
| intake (`pos-ingest` intake, `pos-api` ingest_ops) | a plan and a report per request | walk, classify, submit each file | pipeline, blobs |
| bounded streams (`pos-ingest` budget) | a capped window, the resident-bytes meter | window, consume, drop | every stage |
| text stages (normalize, captions, segment, chunk) | text blob, segment index, chunk facts | scan, close a record, cut windows and pieces | pipeline |
| audio, transcription (`audio`, `transcribe`, engines) | decoder history, committed segments, speakers, edits | decode, resample, window, commit, resume, publish | gateway, log |
| embedding (`embed`, local and cloud engines) | vector blobs, vector rows | plan, reuse, batch, store, commit | gateway, blobs, log |
| model gateway and adapters (`pos-gateway`) | routing, policy, secrets, endpoint profile, ledger rows | complete, transcribe, embed, qualify, preflight | harness, ingest, providers |
| model manager (`pos-gateway` models) | partial and final model files | pull, resume, verify, rename | sources, engines |
| API host and sessions (`pos-api`) | open projects, worker pool and its registry | open, close, start and stop workers, drain | all of the above |
| server (`pos-server`) | accounts, sessions, memberships, audit log, a runtime per account | sign up, log in and out, authorize, audit, forward | API host |
| capabilities, foundation | detected runtimes; ids, clock, telemetry | probe, default | all |
| shells (`pos`, desktop, UI), repository checks, benchmarks | none of their own | forward to the API | API |
| skeleton crates | none | none | none |

What is hard, component by component, and what correctness means there:

* **Job queue and pool.** The row is in the log and the lease is not; each
  operation is two commits with other processes between them, leases expire by
  the clock, and a worker learns late that it was declared dead. Correct means
  one job per key, at most one worker at a job, exactly the budgeted number of
  attempts, terminal states that stay, every job eventually retired.
* **Project log.** Tables, applied seq, digest and snapshots are four views of
  one log, written by builds that may differ. Correct means that each is the
  replay of the log, through rollbacks, lost commits, kills and damaged
  snapshots, and that events are never rewritten.
* **Cron.** A tick reads rows, then acts on them one append at a time, while
  jobs finish, schedules are re-registered and another process ticks. Correct
  means no overlap where the policy says so, no firing lost, no watermark going
  back. The calendar search must find every firing across DST changes and end.
* **Run harness.** Each operation reads the state, then the head, then appends
  if the head has not moved; controls arrive while an effect is in flight.
  Correct means at most one outstanding step, a non-idempotent effect applied
  at most once, spending accounted for exactly, a cancel that holds.
* **Blob store.** Visible is not durable: file data, a directory entry and the
  directory's own name are three syncs. Correct means that a hash that was
  handed out resolves, whole, after a kill or a power failure.
* **Tools and Echo Runs.** A call is decided on a state that was read earlier,
  committed, and handed out again after a kill, perhaps by another build; a
  model's answer is stored before its receipt; followers lose their connection
  while the window moves on. Correct means no effect without its sanction, a
  verdict about the recorded answer, and frames without gap or repetition.
* **Ingest.** Stages are jobs delivered at least once, a rewind lands at any
  moment, and a stage commits in several batches. Correct means that no item is
  left without its next work, none is embedded short of what the stage lists, a
  transcript is in order without overlap and what a resume may lose is bounded, and a
  citation points at its words.
* **Gateway and models.** An answer arrives in pieces and breaks off, the sink
  closes early, the row is written after the call; a partial file may hold
  another source's bytes. Correct means one truthful row per call, nothing sent
  for a route the policy does not allow, and no model file that is not the artifact.
* **API host and server.** A session and its registration are two locks, a
  request is a chain of statements with grants, expiry, logouts and kills
  between them. Correct means tracked if and only if served, and nothing run
  without a role and an audit row.

`PROJECT.json` gives under `hazards` the main ones at their lines, with the
properties that cover them; section 4 has the cases in which the code does not
keep what one might expect.

## 2. The modules

Each component has one module; the `MC_` modules give the functions that the
configurations use as constants. `MC_JobQueue`, `MC_Cron` and `MC_RunHarness`
each instantiate one specification. `MC_Services` and `MC_Ingest` hold the parts
that share no state with one another: a behaviour is one *scene*, in which the
part it is about runs and the others stay as they start, so that one run checks
them all and its states are the sum, not the product, of the parts' states. A
scene takes the part's own next-state relation (for the log that of
`UniformSpec`); the parts that stand still are fixed at one of their initial
states. The theorems about `X` are in `XProofs`, those
about `ToolAuth` and `EchoRun` in `AgentProofs`, about `ApiHost` and `WebServer` in
`HostProofs`, about `BlobStore`, `ModelPull`, `Gateway` and `TextStages` in `FileProofs`, about `Cron` and
`CronSearch` in `CronProofs`, about `Ingest`, `Embed`, `BoundedStream`, `Intake`,
`Transcript` and `Audio` in `IngestProofs`. The definitions named *Slip of X* in the
comments stand before the operator X they vary: each is X with a plausible
mistake (a dropped guard, an off-by-one, a missing reset). No specification uses
them; they are there to replace X and confirm that a property can fail.

### JobQueue, JobLifecycle

`jobs` is `proj_jobs`, `leases` is `sched_leases`; `wpc`, `claim` and `beat` are
each worker thread's place, the job in its hands and its heartbeat task's last
answer; `mpc`, `todo`, `cur` are the maintenance task inside a reap or a
supersede; `admit` is each enqueuer between its read of the key and its append;
`pool` is open, draining or down. `created` and `started` are history: the
number of `JobEnqueued` events and of claims of each job.

| action | code |
|---|---|
| `EnqueueRead`, `EnqueueAppend` | `enqueue`: duplicate check, then an append without an expected head |
| `Claim` | `claim_next`: one transaction, by class, due time and priority |
| `Heartbeat`, `HeartbeatError` | `heartbeat` and the heartbeat task |
| `Complete`, `Fail`, `FinishRelease`, `FinishError` | the outcome's event, then the release of the lease |
| `ReapRead`, `ReapCheck`, `ReapAppend`, `ReapRelease` | `reap_expired`, one expired lease at a time |
| `SupersedeRead`, `SupersedeAppend`, `SupersedeRelease` | `supersede` |
| `WorkerExit`, `MaintenanceExit`, `Shutdown`, `Start`, `Crash` | the pool; a shutdown that gives up after its wait and leaves threads detached has the effect of `Crash` |
| `BecomeDue`, `Expire` | the clock: a retry's delay passes, a lease runs out |

`Spec` lets a lease run out at any moment, even under a running handler.
`TimelySpec` lets only orphaned leases run out: a lease lasts 30 s and is
extended every 5 s. `JobLifecycle` is the promise a reader of the queue sees
(absent, queued, leased, done, dead); `LiveStateOf` is the refinement mapping and
`ImplementsLifecycle` the refinement. `CronJobs` are the jobs a cron tick may
supersede under a running worker, as the code allows.

### ProjectLog

`db` is the committed file (events, device lamports, tables, applied seq,
digest, snapshots), `tx`, `owner` and `kind` the one IMMEDIATE transaction,
`mode` and `runsBuild` each process's handle (closed, open, or open and fail-stopped)
and its build's registry. A table is the sequence of events applied to it, each
tagged with the registry that applied it, so "the tables are the replay of the
log" can be said without modelling any projection. Actions: `OpenBegin` (the
digest decides between nothing, restore and replay), `RebuildBegin`,
`RestoreBegin`, `ReplayOne`, `ReplayCommit`, `AppendBegin`, `AppendOne`,
`AppendCommit`, `Rollback`, `CommitLost`, `Exit`, `DamageSnapshot`.
`UniformSpec` is the case in which processes that are open together run one
build.

### Cron and CronSearch

`Cron` keeps the clock, the rows of `proj_crons`, the jobs its firings enqueue
(by schedule and instant: the idempotency key) and, for each ticking process,
the rows its tick has read and where in the loop it is. `TickBegin` takes the
rows, `TickOne` decides by the overlap policy, `SupersedeRead`,
`SupersedeAppend` and `Enqueue` are the appends, `TickFault` cuts a tick short.
Any number of processes tick: the desktop, the CLI and the server each start a pool
that does. `crossed` is history: the schedules that a tick fired while another tick
still had them to do (`Crosses`), so with a row that this made stale.

`CronSearch` is `next_fire_after` and the preview that iterates it, step for
step: skip a day, an hour or a minute, or hit. The calendar is scaled (2-minute
hours, 3-hour days, 2 days) and keeps what the search depends on: carries, the
"either day field" rule, and a zone that is fixed or has one gap or fold of any
length. The expressions are all the non-empty field sets over it.

### RunHarness

`run` is the Run's row, `cost` the receipts, `act` each actor inside an
operation (the state it read, the batch it decided, the head it will compare,
its retries), `fresh` which actors' heads are still current, `applied` how often
each step's effect really happened. An operation is `Call`, `ReadState`,
`ReadHead`, then `Append`, `AppendRefused` (the projection rejects the event) or
`HeadChanged` (retry). `WorkerLoop` is the driver, `ApplyEffect` the effect
outside the log, `Crash` a kill. A worker's thread ends on the first error, be it
that of an effect (`EffectFails`), of the harness or of the last retry, and on a
paused, terminal or unreadable Run (`Ended`); nothing but `Launch` starts another. `Spec` allows a fact to land between an
operation's state read and its head read, as the code does; `CalmSpec` excludes
only that.

### BlobStore

The file system below the store is external and modelled from how `cas.rs` uses
it: `seen` is what processes see, `disk` what a power failure leaves, `flushed`
which temp data is synced, `dirs` and `diskDirs` the fan-out directories. The
writer's steps are `Create`, `SyncTemp`, `Dedup`, `MakeDir`, `Rename` (or
`RenameFails`), `SyncDir`, `Refer`, `Drop`; `Open` sweeps; `Writeback`, `Kill`
and `PowerLoss` are the environment. A rename's entry may reach the disk before
it is synced, or not.

### ToolAuth and EchoRun

`ToolAuth` takes the harness operations that authorize a call: a Run starts with
an allowlist (its parent's lineage bounded), `AuthorizeTool` decides on the
grant, the descriptor of the running build, the taint it read and a receipt,
`CommitStep` appends with the descriptor's version (`DecideAgain` when the head
moved), and `CrossBoundary` is the effect. `Replace` kills the process and starts
another build; `ResumeCommitted` hands out the committed call again. `effects`
records what reached the outside.

`EchoRun` keeps the harness operations whole and models what runs around them:
`request` is the run operation a process is in, `attached` its `ActiveEchoRuns`,
`thread` the worker it started, `blobs` the stored answers, `viewer` what a
client received and where its follow loop is. Two processes may drive the Run,
one may be killed, and clients drop and reconnect with their cursor.

### Ingest, Intake, BoundedStream

`Ingest` composes the pipeline with what `JobQueue` promises: `jobs` by
idempotency key (item, stage, pass), delivered at least once, with a lease that
may expire under a live attempt. `SubmitRead` and `SubmitAppend` are a connector,
`WorkerStep` an attempt (claim and load, refusals, the handler's batches, the
completion with the next job, the settlement), `StageFails` its failure path,
`ReprocessRead` and `ReprocessOne` a rewind from a list that was read before.
`calm` is history: no live attempt lost its lease and no rewind overlapped one.

`Intake` is `ingest.submit`: the walk under its bounds, then one file after the
other, each failure a row of the report. `BoundedStream` is the capped window
over a reader that returns short reads, and the process-wide meter.

### TextStages, Audio, Transcript, Embed

`TextStages` runs NORMALIZE and CHUNK on one item: the byte scan with its window
ends, the caption reader, the segment index, windows, pieces and ids. `Audio`
opens a track (or fails to probe it) and resamples packet by packet; a sample is its
position, and an output sample is its centre and the positions its kernel saw. The
position is an `f64` that accumulates a ratio (`audio.rs:370`): it is counted in grains, `Grains`
of them to a step of the exact grid, and each addition, of the rounded ratio, is off by
any amount up to `Rounding`, less than such a step. So is the sum that the emit loop compares (`MayStop`);
floors and the subtraction of whole samples are exact. `Transcript` fills a window
packet by packet, so past its size, calls the engine, commits the segments in
sub-batches, drains, and renders the text page by page, with attempts lost anywhere
and a user correcting rows. Audio is counted in samples (`from`, `len`) and labelled in
milliseconds (`start`), with the two conversions of the code (`SamplesFor`, `MsFor`);
the engine is external, and its times are not held to the window (`Stretched`). The
history variable `flawed` notes that a window before the last one was shorter than two
overlaps, that a resume dropped part of a millisecond, or that an answer ended past its
window. `Embed` plans what `list_chunks` returns of an item's chunks (`Listed`), reuses vectors by
content, flushes batches under the padded-token bound, stores the blob and then
commits the rows, with two workers and a cloud endpoint that answers in any
order.

### Gateway and ModelPull

`Gateway` takes a call through `Complete`, `Transcribe` or `EmbedBatch` (policy
and request checks), `ResolveAuth`, `SendRequest` or `EngineCall`, `OnChunk` for
each piece of the body, `BodyEnds`, and the ledger row of `RecordOutcome`,
`RecordTranscribe` or `RecordEmbed`. Policy, credentials and preflight judge the
endpoint of the route; the provider of that family sends to the `base_url` its adapter
was built with (`AdapterUrl`), and nothing compares the two. A body is a sequence of SSE
lines, decoded as the three stream families do, up to an event over the size cap; secrets are inserted and revoked meanwhile, the
process is killed, `Qualify` settles an endpoint's profile: the list of models, a pass
that asks for usage, and one more without it when the field is refused.

`ModelPull` has files as inodes, because a handle outlives its name: read the
partial file, open it, ask for the rest, append what an honest or another source
sends (with redirects and ignored ranges), verify, rename. `apart` and `strikes`
are history: whether pulls ever overlapped, and the failed verifications in a row
that no dishonest answer explains.

### ApiHost and WebServer

`ApiHost` is the session table and the pool: each of open and close is two steps,
a start replaces the pool, `DrainStart`, `DrainRead`, `DrainRound` and
`DrainReturns` are the drain. `muddled` is history: projects whose open and close
overlapped, whose registration failed, or that were open when a pool started.

`WebServer` takes a request through `Authenticate`, `AuthorizePath`,
`AuditOperation`, `RuntimeForAccount` and `Respond`, one database statement at a
time, while accounts are created, roles granted, sessions ended and the process
killed. `ran` records what the API host was given and the roles the account held
since the request arrived. `Targets` are the workspaces an operation's input names,
`Asked` those that `acl.rs` has authorized.

## 3. What TLC checks

| run | properties | what it shows |
|---|---|---|
| `JobQueue_safety` | `TypeOK`, `EnqueuedOnce`, `RetryBudget`, `NeverRequeued` | with leases lost under running handlers, racing enqueuers, a cron and one fault anywhere (1.7 million states) |
| `JobQueue_timely` | `ExclusiveAttempt`, `AttemptsExact`, `ShutdownLeavesNoLease`, `TerminalIsFinal`, `ImplementsLifecycle` | the stronger guarantees while no lease runs out under its worker, through two faults and a shutdown |
| `JobQueue_liveness` | `EventuallyTerminal` | every job is retired, through a kill, a shutdown and lost leases |
| `Cron_ticks` | `TypeOK`, `NoOverlap`, `SupersededHasSuccessor`, `OwedEventuallySettled` | two tickers: no two live jobs of a schedule unless its policy is Queue or two ticks fired it at once, and then one for each ticker at most; nothing retired without a successor and nothing owed for ever where no two did |
| `RunHarness_races` | `TypeOK`, `OneOutstandingStep`, `NonIdempotentOnce` | these two survive stale reads, two drivers and a kill |
| `RunHarness_calm` | `RowReadable`, `SpendBounded`, `CancelHonored`, `ControlSettles` | without stale reads and kills: a row that can be read back, spending that is the sum of the receipts and bounded, controls that hold, and that do not stay pending under a worker that runs |
| `Services_scenes` | one per part, below | twelve scenes (1.5 million states) |
| `Ingest_scenes` | one per part, `CalmPassGrows` and `IngestSettles`, below | five scenes (838 thousand states) |

The scenes and what each shows:

| scene | property | what it shows |
|---|---|---|
| log | `LogSound`, `EventsEternal` | tables and snapshots are the replay of the log, lamports are contiguous and events eternal, with two processes, an upgrade between openings and every way a transaction ends |
| search | `SearchSound` | the search lists the firings and only them, all those whose civil time exists and that no firing in a part-hour gap overtakes, and its step bound never ends it |
| store | `StoreSound` | what is referred to is there and whole, and what was published and synced survives a power failure |
| gateway | `GatewaySound` | one truthful ledger row per returned call, an answer that is the provider's, no request made for a route that the policy or the preflight refuses, and a qualified endpoint that serves |
| pull | `PullSound` | the model's name only ever names the artifact, and wrong bytes are not resumed again and again |
| tools | `DispatchSanctioned` | every effect ran under the descriptor it was authorized under, with the receipt it needed, through kills and other builds |
| echo, follow | `EchoSound` | the verdict is about the stored, recorded answer; a follower gets consecutive frames, each once, and the end only on the last |
| host | `SessionAgrees` | tracked if and only if served, for projects nothing is working on |
| server | `RequestsSanctioned` | account, role, audit row and runtime bound of whatever reached the API host, `job.list` excepted for the role |
| transcript | `TranscriptSound` | segments in order without overlap, a label late by less than a millisecond for each window a resume dropped, and no short word missing once published unless `flawed` |
| text | `CitationsSound` | every word in exactly one chunk, with the lines it is on, and no two chunks with one id |
| pipeline | `IngestSound`, `CalmPassGrows`, `IngestSettles` | no item without its next work, none embedded short of its list, no pass going back in calm behaviours, and every item comes to rest |
| embed | `VectorsSound` | a row names a stored vector of its own content, and a finished attempt left none of the chunks it lists without one |
| intake | `NothingLeftOut` | every regular file is planned or the report says the walk was cut short; every planned file is stored, refused or gone |
| stream | `StreamSound` | what was consumed and is held is what was read, in order; the meter is exact |
| audio | `ResampleSound` | however packets are cut and additions round: no kernel misses a sample, the grid is kept but for the roundings, the end is neither cut nor overrun, and the history stays bounded |

Four runs show the code disagreeing with a sentence of its own comments. TLC's
counterexample is the shortest such behaviour; the quoted line is in
`PROJECT.json` under `findings`.

| run | property | the code |
|---|---|---|
| `JobQueue_lost_lease` | `LostLeaseHandsOff` | a worker told that its lease is gone still records its handler's outcome |
| `Cron_reregister` | `WatermarkPreserved` | re-registering a schedule resets its watermark, and what it owed is dropped |
| `RunHarness_stale_finish` | `TerminalIsFinal` | a finish that read the state before a cancel overwrites the cancel |
| `ApiHost_failed_open` | `FailedOpenUntracked` | an open whose registration fails leaves its row in the session table |

### Bounds

The interesting cases need few actors. Two jobs let one be superseded or retried
while another is claimed; a third worker, of another class, shows that a class
never takes another's job; one lost lease already gives two workers on one job,
and one fault lands in every gap between commits. `ProjectLog` runs a log of 6
with a snapshot every 2 events and 2 kept, so snapshots are taken, pruned,
damaged and restored from, with a suffix to replay; two registries give an
upgrade and a downgrade. In `Cron_ticks` time passes the scan bound (`MaxTime` >
`ScanMax`), so a tick falls behind, and one of the two schedules is registered
twice; the second process ticks, to the end of the modelled time, while one schedule
is registered, once, and not disabled, which is where the two meet. `RunHarness` has two steps, the last one not idempotent, a budget that one
overrun exceeds and one retry; questions and answers are in the run with stale reads. `BlobStore` has a writer in each
of two processes, the smallest set in which dedup and sweep each meet a live
writer, and one fan-out directory that exists and one that does not. Every counter is
capped by a constant named `Max...`.
Symmetry is used for workers that differ in nothing, in runs without liveness
only. Deadlock is checked for the `JobQueue` runs; the others
really do stop (a finished Run, the end of the modelled time, the last write,
the end of a scene).

In the scenes:

* The pipeline has one item of plain text, two workers, two connectors and a
  requester, with one retry, one rewind and one fault: the fewest actors with
  which an attempt is delivered twice, a submit races another, and a rewind lands
  under a running stage. The chunker replaces a chunk in the second pass, and the
  first one has one chunk more than `list_chunks` returns. The transcribe stage is registered and not on this item's path;
  the transcript scene is about it. All items share nothing but the health row,
  so a second one adds states and no case.
* Embedding has two items that share a content, one content twice in an item, chunks
  longer in tokens than estimated, and one chunk past the list. Intake has trees at, below and past each
  bound. Streams read a content longer than the buffer, asking for less and for as
  much as it holds. Audio rates are below, at, above and no multiple of the
  engine's, packets are shorter and longer than the kernel, and an addition is off by
  half a step of the grid either way or by nothing.
* Recordings have words across a window's end, a tail that is too short or empty, a
  word in the first half of a window that a resume cut, and as many segments as are
  admitted and one more. A millisecond is two samples and a packet three, so windows end
  inside a millisecond, below the cap and past it; two attempts overlap on the shorter
  recordings only. An engine ends a segment up to a
  millisecond past its window. The overlap is half a window, so that a window can be
  cut below two overlaps and still be one that the engine accepts. Texts are all those of at most five
  characters over four classes and two long ones, caption lists all those of at
  most three blocks over six, which reaches every cut of a window of 3 and a
  maximum of 4.
* The gateway has three routings, three policies, bodies of each family that end
  well, break off or are filtered, and two calls of one caller; parallel callers
  meet only in the ledger, whose rows name their call, and in the secrets, which
  change under a call anyway. The model is two bytes long
  and pulled up to three times, by two pulls, with two bad answers.
* Tools have two Runs (so a parent and a child) and two builds that differ in a
  version, a mode and a missing tool. Echo has two processes and one kill, or one
  process and a client that loses two connections with a window of one frame.
* The host has two connections, two projects and one place in the table. The
  server has one connection, whose requests race grants, logouts, expiry, failed
  statements and a kill: requests of two connections meet in the same tables and
  through nothing else.

### Fairness

* `JobQueue`: weak fairness of the workers' claims, outcomes and exits, the
  reaper's and a supersede's remaining steps, the enqueuer's append, a restart
  after a stop, due times and the expiry of orphaned leases. Tokio schedules
  every task, the clock advances, handlers return and somebody reopens the
  project. Nothing is assumed of heartbeats, new supersedes, faults or lost leases.
* `Cron`: weak fairness of each ticker's steps (of the second one's as long as it
  ticks) and of jobs finishing (which is what `JobQueue_liveness` shows of them).
* `Ingest`: weak fairness of the workers and of the reaper that frees a lease whose
  attempt is gone, as the pool and its maintenance task provide. Nothing is assumed
  of connectors or requesters.
* `RunHarness`: weak fairness of the loop of a worker that runs, of reads, retries
  and effects, which succeed or fail, and strong fairness of an append, which a
  concurrent fact may keep refusing: a thread that runs takes its next step. Nothing
  is assumed of starting one: a worker may end on any error, and `ControlSettles`
  says nothing of a Run without a worker. No user has to call anything, but a call
  once made returns.

## 4. What does not hold

Beside the four runs above, these were met while modelling; each is a change of
one configuration or one property away, and each bounds what a passing run
claims.

* *Two builds open at once.* `TablesAreReplay` holds under `UniformSpec` and not
  under `Spec`: `append_batch_inner` (`pos-log/src/lib.rs:419`) compares the head
  with `applied_seq`, never the registry's digest with the stored one.
* *Two ticks on one schedule.* When a tick fires a schedule that another tick still
  has to do, the second one lists the live jobs after the first has enqueued the
  firing both owe, retires that very job, and its own enqueue is a Duplicate: nothing
  follows (`pos-sched/src/cron.rs:361-398`). With rows of different age, each may also
  enqueue a firing of its own that the other does not see, under Skip too. `NoOverlap`
  bounds such jobs by the number of processes that tick; `SupersededHasSuccessor` and
  `OwedEventuallySettled` leave such schedules out (`crossed`).
* *Catch-up beyond the scan bound.* `due_firing` counts from the oldest firing, so
  a tick that owes more than `CRON_CATCHUP_SCAN_COUNT_MAX` enqueues one that is
  not the most recent (`cron.rs:434`; its comment at 423 says "the most recent
  one"). `OwedEventuallySettled` is what remains true.
* *Several firings in one gap.* `NoFiringPassedOver` leaves out civil times that
  do not exist: the first of them runs, shifted, and the next search starts after
  it, so the others never do. A gap of less than an hour (Lord Howe's is 30
  minutes) can also hide a firing that exists: of `15,35 2 * * *` there, 02:15 does not
  exist on the night of the change and runs shifted, at 02:45; the search goes on from
  there, and 02:35 of that night is behind it. `FallsDue` leaves out exactly the
  firings that one in the gap overtakes so (`Overtaken`).
* *A re-registration during a tick* may also be followed by the tick's older
  firing, which moves the new watermark back; `SupersededHasSuccessor` is about
  schedules registered once.
* *An overrun drops a cancel.* The pause in the batch of a receipt that exceeds
  its reservation clears whatever control was pending
  (`pos-domain/src/projections.rs:758`); `CancelHonored` names this exception.
* *Controls that stay pending.* A worker's thread ends on the first failed effect and
  when its retries are spent (`pos-agents/src/echo.rs:253`, `pos-api/src/run_ops.rs:425-443`),
  and nothing restarts it: a pending control then waits until someone resumes the
  Run. Two of them wait for more. A paused Run with a pending cancel whose requester
  died between its two appends: resume refuses it, a second cancel returns early, and a
  worker returns on paused. And one whose outstanding step may not be repeated: the
  resumed worker fails with `ReconciliationRequired` before any boundary.
* *Durability of a deduplicated write.* `finish` returns as soon as it finds the
  address taken, before the writer that published it has synced the directory
  (`pos-store/src/cas.rs:428`), and the name of a new fan-out directory is never
  synced in its parent (`cas.rs:434-448`). `PublishedDurable` claims neither.
* *The sweep of temp files* takes those of every other process id, live ones
  included (`cas.rs:148-157`): the rename of a write in flight fails. The write
  reports it, so `ReferencedPresent` holds.

* *A Run that can no longer be read.* With stale reads a fact decided on a running
  state can land on a paused row: it writes the status and leaves the pause columns
  (`projections.rs:676-698`, `839-865`), and `read_run` refuses such a row for good
  (`pos-domain/src/run_state.rs:347`). `RowReadable` is checked without stale reads.
* *A launch that finds a leaving thread* (`pos-api/src/run_ops.rs:414`) starts none,
  so the Run waits for the next resume.
* *Taint.* A taint raised between the read of a Run's state and the append of its
  step is not seen by the decision (`pos-agents/src/harness.rs:414`), and a gate
  receipt names run, call and tool, not the input. `DispatchSanctioned` is about the
  taint that was read.
* *Reprocess over a running attempt.* The pass is compared once, before the handler
  runs (`pos-ingest/src/pipeline.rs:687`): an old attempt then moves the item back to
  its pass. `CalmPassGrows` excludes the overlap.
* *The last attempt.* The pipeline calls an attempt the last one when `attempt_index
  >= retry_count_max` (`pipeline.rs:837`), the queue one later: a stage row reads
  dead while its job has an attempt left, and may then come alive again.
* *Short tails.* A last window shorter than the engine accepts is refused for good
  (`pos-gateway/src/transcribe.rs:175`) after everything before it was committed, so
  the recording is never published. Two attempts at one recording overwrite each
  other's rows; `TranscriptSound` is about one at a time. A window configured at the
  largest length exceeds the sample cap by part of a packet (`transcribe.rs:431-441`, "never
  overshoots by more than a packet") and is refused for good too.
* *Cut windows.* An attempt that resumes inside a window cuts it at the committed end
  (`pos-ingest/src/transcribe.rs:449-452`). When less than two overlaps are left and
  the engine reports nothing up to the half, half of it is skipped (`521-530`)
  instead of all but the overlap, and a word that began before that half and was
  left out loses its start. So a resumed transcript can differ from an uninterrupted one,
  which the comments (`49-52`, `614-616`) exclude. A recording of 10 with words at 0-4
  and 5-9, windows of 8 and an overlap of 4 shows it; `TranscriptSound` excepts the
  case by `flawed`.
* *Samples and milliseconds.* A resume drops the windows before it whole and adds their
  length in whole milliseconds to its clock (`pos-ingest/src/transcribe.rs:444-446`,
  `708-710`): at 16 samples to the millisecond up to 15 are lost per window. The label
  falls behind the audio by that much, so as much audio at the resume point is never
  examined and all later segments are labelled early. `TranscriptSound` bounds the lag
  and promises the words of such a recording no more (`flawed`).
* *Ends past the window.* Neither `whisper_local.rs:231-248` nor `cloud_stt.rs:242-246`
  holds a segment's end to its window; only a debug build asserts it. The clock then
  runs ahead of the audio, and what the overrun covers is taken as transcribed. Order
  and disjointness of the rows survive this, coverage does not (`flawed`).
* *Embedding.* The estimate of tokens may be below what the tokenizer counts
  (`pos-ingest/src/embed.rs:538-551`), and such a batch fails for good; `list_chunks`
  takes 500 rows (`embed.rs:70`, `352-357`; `evidence_state.rs:22`), so an item with more is
  embedded in part and reported as done, although the comment at `embed.rs:67-69` calls the
  bound "never the binding limit for a real item". `VectorsSound` and `IngestSound` speak
  of the chunks that are listed.
* *Segments and pieces.* The records of the segment index do not tile the text:
  blanks between them belong to none (`normalize.rs:285-288`). Pieces are cut at
  bytes and may start inside a character (`chunk.rs:342`). A damaged packet that is
  skipped shifts the timestamps of what follows it (`audio.rs:263`).
* *Resampler.* The position is a rounded sum, so the cut into packets can move an output
  by the rounding of the compared sum, and the drained output may have one sample more
  or less than exact arithmetic would give. `ResampleSound` allows for both. The comment
  at `audio.rs:316` bounds the history by `2 * RESAMPLE_HALF_TAPS + ratio`; it is in fact
  one sample more than twice the taps at most, whatever the ratio.
* *Endpoints.* Policy and preflight judge the endpoint that the route names, and the
  request goes to the `base_url` of the adapter registered for its family
  (`openai_wire.rs:310`, `343`, `376`; `anthropic.rs:25`; `google.rs:22`). That the two agree
  is left to whoever builds the gateway.
* *Gateway.* `preflight` resolves the secret although its comment says it never
  does; `LoopbackHttpTransport` ignores the plan's response bound
  (`transport.rs:72`); a delta with text and a tool call delivers the tool call
  after the sink has closed; a close-delimited body that is truncated is taken as
  complete; a transcription or an embedding that has no route leaves no ledger row;
  a kill between a call and its row leaves none either.
* *Overlapping pulls* of one model share a partial file and can publish other bytes
  (`pos-gateway/src/models.rs:14-18`, `415`). `PullSound` is about pulls that do not
  overlap (`apart`).
* *API host.* `drain` reports quiescent when a queue could not be read
  (`workers.rs:312`, `357`); `start_background_workers` does not register the
  projects that are open (`lib.rs:468`); an open at the limit beside a close fails
  its registration; an open and a close of one project that overlap may leave it
  served and not tracked. `SessionAgrees` leaves such projects out.
* *Server.* `job.list` carries a path and opens the log of that project
  (`pos-api/src/sched_ops.rs:32-33`, `125`), and `authorize_query` lets it pass without
  looking at it (`pos-server/src/acl.rs:136-139`), although the module's comment says that
  every path a request names is validated (`acl.rs:6-8`). `RequestsSanctioned` says
  nothing of the workspaces of that query.

## 5. What TLAPS proves

Every theorem holds for every value of the constants that satisfies the named
assumption of its module; the assumptions only say that limits are naturals, that
"no such value" constants lie outside the sets they stand beside, and that
configured functions have the types the code gives them. Each safety theorem
follows from an inductive invariant, which TLC checked first on the instances of
section 3. The step lemma has one case per action.

**`JobQueueProofs`** (any finite set of jobs, any workers, enqueuers, classes,
priorities and retry limits).

* `TypeCorrect`: `Spec => []TypeOK`.
* `QueueSafe`, `OneEnqueue`: `Spec => [](EnqueuedOnce /\ RetryBudget /\ DeadHasReason)`.
  The inductive invariant `SafeInv` adds `KnownJobs`: whatever a worker, a lease
  or the maintenance task holds is a job that was enqueued. Without it a late
  outcome could create a row that no enqueue had made.
* `NeverBack`: `Spec => NeverRequeued`. From `SafeInv` alone: every fact but an
  enqueue maps a terminal row to a terminal row (`Outcome`), and an enqueue
  appends only while its key is absent.
* `TimelyQueue`, `OneWorker`, `CleanShutdown`: `TimelySpec` implies
  `[]ExclusiveAttempt`, `[]AttemptsExact` and `[]ShutdownLeavesNoLease`. `TimelyInv`
  adds `WorkerInv` (a worker at a job holds its live lease, of exactly that
  attempt), `LeaseInv` (a lease stands for the attempt counted last or for the next
  one) and `ReaperInv` (what the reaper has read of an expired lease still holds
  when it acts on it). An attempt has one owner at any time, the worker, or the
  reaper once the worker is gone, and only the owner moves the row.
* `TimelyTerminal`: `TimelySpec => TerminalIsFinal`, by the same invariant: a
  terminal row has no owner left that could write it.
* `LifecycleImplemented`: `TimelySpec => ImplementsLifecycle`, the refinement of
  `JobLifecycle`. Initial states map to initial states, and under `TimelyInv`
  every action maps to one step of the lifecycle of one job or to a stutter.

Jobs in `CronJobs` are outside `TimelyQueue` and `TimelyTerminal`: a supersede
writes the row of a running attempt without its lease.

**`RunHarnessProofs`** (any workers and users, plan, budget, costs, retry bound, any
number of kills).

* `HarnessTyped`, `StepsInOrder`, `EffectsOnce`: `Spec` implies `[]TypeOK`,
  `[]OneOutstandingStep` and `[]NonIdempotentOnce`, so the races that break the
  control columns (section 4) never break the steps. `HarnessInv` adds `Carries`
  (what an actor holds is covered by the rows: a call is of a committed step, a
  receipt of one whose effect happened, a commit it decided was of the next step)
  and `HeldOnce` (a call that may not be repeated is in one actor's hands, and
  only before its effect).
* `CalmRowReadable`, `CalmSpendBounded`, `CalmCancelHonored`: under `CalmSpec`,
  where no fact lands between an operation's state read and its head read.
  `CalmInv` adds `DecidedNow` (an operation whose append will pass would decide
  the same on the row as it is) and `Admitted` (the admission of the outstanding
  step still covers it). That the row's total is the sum of the receipts is stated
  as a count: a receipt of c stands for c units, and the units are counted
  (`SpendIsSum`, lemma `ReceiptAdds`). `DecidedNow` is what it needs: four facts
  write a total that was read before the append.

**`ProjectLogProofs`** (any processes, registries, devices, event bodies, cadence and
retention).

* `LogTyped` and `LogOnlyGrows` (`EventsEternal`) hold under `LogSpec`, with any mix
  of builds: the working copy of a transaction always extends the committed file.
* `FileStaysSound`: `UniformSpec => []LogSound`. `LogInv` adds that the working copy
  of an open transaction is itself sound for the build that runs it (`InFlight`),
  so that a commit at any point the code commits leaves a sound file, and
  `BuildsAgree`. `UniformSpec` is what section 4 shows to be necessary.

**`CronProofs`** (any schedules, firing instants, scan limit and policies).

* `TickTyped`: `Spec => []TypeOK`, for any number of tickers.
* `TicksTrue`, `SchedulesNeverOverlap`, `RetiredIsReplaced`: for any finite set of
  tickers, `Spec` implies `[]CronInv`, `[]NoOverlap` and `[]SupersededHasSuccessor`.
  `CronInv` carries what a tick read across its several transactions, for every
  schedule that no other tick fired meanwhile: its row is the one that was read
  (`SameRow`), its queued jobs are exactly those the tick is about to retire
  (`Retiring`), and if it was registered once it never fired past its watermark
  (`Marked`). Where two ticks crossed, what remains is a count (`CountTrue`): any set
  of queued jobs of a schedule, together with the ticks that are about to fire it and
  saw none of that set when they listed the queue, is no larger than the set of
  tickers, because each of those may yet add one job. The statements on rows exclude
  schedules registered again, as the properties do.
* `SearchIsSound`: `SearchSpec => []SearchSound`, for any calendar of minutes, hours and
  days, any expression, any start and any zone, with a gap or a fold of any length. It
  has one hypothesis, `StepsEnough`, which says what horizon a step bound covers: the
  bound is at least the days of the horizon plus the hours of one day plus the minutes
  of two hours, plus those of a fold that is longer than an hour. With
  `CRON_SEARCH_STEP_COUNT_MAX` (`cron.rs:52`: four years of days, 24, 60 and 64) the
  horizon is 1468 days, the four years of its comment (4 * 366); in a zone whose fold
  takes two hours (Antarctica/Troll) the theorem covers 1348 days. The invariant says that no firing lies between the start and
  the candidate (`NoneBehind`), and that the steps taken are covered by how far the
  candidate has come: it walks the hours of at most one day and the minutes of at
  most two hours (`StepsFew`), because past the hour it starts in it only ever leaves
  days, hours and minutes that do not match.

**`AgentProofs`** (`ToolAuth` and `EchoRun`).

* `EffectsSanctioned`: `AuthSpec => []DispatchSanctioned`, for any Runs, tools, builds,
  allowlists, receipts and plans. `AuthInv` says of every committed step, and of
  the call in a worker's hands, what the property says of an effect
  (`SoundDecision`), so that a decision survives a kill and a replaced build.
* `EchoIsSound`: `EchoSpec => []EchoSound`, for any processes, clients and answers, any
  window and step budget, any number of kills and lost connections. `EchoInv` says
  that what a thread carries from the state it read is still covered by the row
  (`ThreadTrue`): the step it is in is committed, the answer it will record is
  stored, and the verdict it will finish with is the row's. The frames rest on
  `FramesStay`: a settled frame has its final status, so what a client received
  stays true whatever the Run does next (`Received`). That needs an end to come
  only at a boundary (`RowTrue`): otherwise the frame of the last checkpoint could
  be out as "running" before it turns out to be the terminal one.

**`HostProofs`** (`ApiHost` and `WebServer`).

* `SessionsAgree`: `HostSpec => []SessionAgrees`, for any projects, connections and
  limits. `HalvesAgree` names the connection that still owes the second half of an
  open or a close.
* `RequestsAreSanctioned`: `ServerSpec => []RequestsSanctioned`, for any finite sets
  of accounts and connections and any limit on the runtimes. The one operation whose
  path nobody authorizes is excepted by name in the property (section 4). `ServerInv` says of a
  request in the middle of its chain what the property says of one that ran:
  each workspace it names was authorized by a role held since it arrived, or is
  still on its list (`AskTrue`), and past the list all of them were (`PastTrue`).
  A role granted or taken between two lookups keeps this, because `held` collects
  the roles of the whole request. That the audit log covers the runs needs a
  count (`Booked`): the rows of an account and an operation are at least its runs
  plus its requests that are past their row and not run yet. It counts finite
  sets, hence the assumption; a new account has an id nobody has
  (`FreshIdIsFresh`, by counting the accounts against the ids).

**`FileProofs`** (`BlobStore`, `ModelPull`, `Gateway` and `TextStages`).

* `StoreIsSound`: `StoreSpec => []StoreSound`, for any processes, writers, contents and
  directories, any number of kills and power failures. `StoreInv` adds
  `SyncedBeforeNamed`, `ReturnsSeen` and `PublishedOnDisk`: the order of the writer's
  system calls, read as facts about the disk.
* `PullIsSound`: `PullSpec => []PullSound`, for any artifact that is not empty, any
  finite set of processes, any number of pulls, redirects and answers that go
  wrong. `PullInv` says, while no two pulls overlapped, what a pull at each of its
  stages knows of the partial file: the handle is the file's, the hash is of what
  is in it, and a handle that does not append is at its end (so that a write
  appends either way: lemma `WrittenAtEnd`). For the second half it says that after
  a strike the partial file begins the artifact and what is still to come
  completes it, so the next verification succeeds. The proof corrected the
  history variable `strikes`: a dishonest answer between two failures ends a row
  of them, which the model's bounds had hidden.
* `GatewayIsSound`: `GatewaySpec => []GatewaySound`, for any callers, routings, policies,
  requests, statuses, ledger size and kills. `GatewayInv` says what a call knows at
  each place of its dispatch (`CallTrue`: the route it was given is one the policy
  allows, and what it will write into its row is what it will return), that a
  ledger row's number is at most the calls its caller made and a call that has not
  returned has none (`RowsTrue`), and, of an answer being read (`BodyTrue`), that the
  decoder holds the data line of the event it is in and that the stream is what its
  first whole lines make of it. The order of the deliveries is stated by counting
  positions (`Conveys`: the n-th delivery is the n-th line that carries one), which
  needs no recursion and covers a block that stops without having started.
  Assumptions: a provider puts the payload of an event on one data line
  (`BodiesFramed`), requests are of the kinds the dispatcher has (`RequestsTyped`) and
  the routing names endpoints (`RoutingValid`).
* `CitationsAreSound`: `TextSpec => []CitationsSound`, for any documents, shapes, record,
  chunk and cue bounds, and any target and largest chunk size above zero. `TextInv`
  follows an item through its stages. While the scanner runs (`ScanTrue`), the text is
  what was kept of the bytes so far, each at its place (`KeptSoFar`); the line counter
  is that of the text, and the open record has content exactly when a byte of it is
  not blank, on a line between its first and its last (`OpenRecord`). The index is in
  order and of one kind, holds every byte before the open record that is not blank,
  and names the lines these are on (`IndexTrue`); the cues of captions end by where the
  last one was committed (`Cued`). While the chunker runs (`Chunked`), its window is the
  last segments read, from the first one's start to the last one's end (`WindowTrue`),
  and the facts hold the words of all segments before it, end before every segment
  to come and carry their own start in their id (`FactsTrue`). That a window is cut
  without loss is `PiecesTrue`: the cuts reach every offset of it, and a piece without
  content has no word. What is kept of the bytes, of a window's pieces and of a
  piece's words is stated by counting places (`Picked`), without recursion.
  Assumptions: the bounds are naturals and a chunk has room for a byte
  (`TextBounds`), and a document has bytes or caption blocks (`DocumentsTyped`).

**`IngestProofs`** (`Ingest`, `Embed`, `BoundedStream`, `Intake`, `Transcript` and `Audio`).

* `PipelineIsSound`: `IngestSpec => []IngestSound`, for any items, media, stage
  workers, connectors, requesters, faults and passes, and plans of any length: of a plan
  longer than `list_chunks` returns the property promises vectors for the listed part
  (section 4). `IngestInv` has two halves.
  `KnownInv` holds in every behaviour: types, and what exists (a job has its
  item's row, an attempt its job and its stage row, what an attempt will enqueue
  is the job of the next stage). The other half, `ItemTrue`, is per item and only
  while `calm`: no job is ahead of the item's pass, every attempt is of that pass, a
  job that still has to move the item on has not been finished by an attempt
  (`WorkTrue`, `DueOf`), the chunks of the current shape are all there
  (`ShapeTrue`), an embed job exists only after the chunk stage of the same pass
  or in a pass that does not chunk (`StagesInOrder`), and what an attempt has
  not written yet is on its list (`StageTrue`). The last two carry the argument: a
  chunk stage that is redone rewrites what is visible, and it must not do so
  under an item that already says it is embedded.
* `PassesNeverFall`: `IngestSpec => CalmPassGrows`, from the same invariant (an attempt is of its item's pass, so its completion writes
  that pass back).
* `VectorsAreSound`: `EmbedSpec => []VectorsSound`, for any items, chunks, workers and
  batching bounds and any limit on the list. `EmbedInv` says that every listed chunk of
  an attempt has a row, is
  still to be visited or is in the batch (`Covered`), and that the vectors of a
  batch are in the order of its chunks (lemma `ParsedInOrder`: whatever order the
  endpoint answers in).
* `StreamsAreSound`: `StreamSpec => []StreamSound`, for any content, budget, read size
  and finite set of streams. `StreamInv` says byte by byte what was consumed and
  what is visible. The meter is a sum over the streams, stated as a count of units
  (`Total`): a step of one stream changes it by the difference of that stream's
  bytes (lemma `SumChanges`).
* `IntakeLeavesNothingOut`: `IntakeSpec => []NothingLeftOut`, for any trees, limits and
  contents. `IntakeInv` says that some set of directories was read: their files
  are planned, and what is in them was read or waits on the stack (`Walked`). When
  the stack is empty that set holds the root and is closed under subdirectories,
  so it is the whole tree (`IsTree`). The report counts the files up to the cursor,
  and each of these is stored, too large or gone. The order in which entries are
  listed is the increasing one; that there is one is `SortedLists`, from
  `SetInduction`.
* `TranscriptIsSound`: `TranscriptSpec => []TranscriptSound`, for any recording whose
  words are disjoint and in order, any samples to the millisecond, packet, window,
  overlap, engine bounds, batch, page and segment bound, any overrun of the engine and
  any number of lost attempts. What the engine is assumed to answer is proved of the
  two engines of the model (`EngineAnswers`): intervals in order from the label on,
  complete up to the end of each; a word that is left out comes after all of them and
  is cut off by the window's end. `TranscriptInv` says where an attempt is in the
  recording, by how much its label may be late, and that what it will commit lies past
  all it committed (`Placed`); that the label is exactly that of the first sample
  (`OnTime`) as long as nothing is `flawed`; and, while one attempt runs at a time, that
  it knows how many rows there are and where they end (`Alone`), that the short words
  up to its read position are in the rows or in what it is about to commit
  (`WordsKept`), and that the rows are complete up to the end of each of them
  (`RowsTrue`). The last conjunct is the one a resume needs: the new attempt knows
  nothing but the latest end. Order and disjointness do not rest on `OnTime`: they hold
  of labels, whatever the audio below them.
* `ResampleIsSound`: `AudioSpec => []ResampleSound`, for any track, engine rate, kernel
  width, cut into packets and roundings of less than a step of the grid. The invariant says that
  the history holds the decoded samples from the first one still needed, that the next
  centre is off the output grid by at most the roundings so far, that what was dropped
  lies outside the reach of every kernel to come, and that each kernel was applied to
  all the samples it reaches (so a packet boundary never shows in them). The arithmetic
  is with symbolic rates: the quotients and remainders of the grid come from lemmas
  on division by an unknown divisor.

Induction over data is available in one form: a *set* of numbers that holds 0 and
the successor of each of its members holds all (`SetInduction`, from the
well-foundedness of the naturals), so that what has to be shown is written as a set
and not as an operator.

Every invariant and every action property of the passing runs is proved. Only
model-checked: the liveness properties (fairness and `ENABLED` are beyond the
prover). `DeadHasReason` is proved and is no run's property.

## 6. Limits

* One pool at a time drives a queue; two pools and the round robin over several
  projects are not modelled. Worker names are the same in every process
  (`pool.rs:290`), so two pools could mistake each other's leases: that question
  is open. A heartbeat that is in flight when its handler returns is left out: it
  can only extend a lease that is about to be released.
* A Run has one budget dimension in `RunHarness`, and `EchoRun` and `ToolAuth` take
  the harness operations they do not study as one step.
* `Ingest` abstracts the stages to the batches they append; what a stage computes
  is in `TextStages`, `Transcript`, `Audio` and `Embed`, which are not composed
  with it. Reprocess has one requester at a time.
* `BlobStore` assumes that a synced file is whole after a power failure and that
  a rename is atomic on disk.
* Backoff delays are only "not yet due" and "due". Words in `Transcript` begin and end at
  whole milliseconds.
* A ledger row carries what happened and whether usage was measured, not prices.

### Not modelled

* Conversions whose detail no property tells apart: JSON bodies, HTTP framing and
  TLS, the word pieces of the tokenizer, audio codecs and filter weights, the five
  fields of a cron expression, password hashing, cookies, static assets.
* Reads that change no state: `verify` and `dump` of the log, `verify` and
  `copy_all_into` of blobs, listings and queries of the API, the reader pool.
* `pos-capabilities` (environment probing), `pos-foundation` (ids, clock,
  telemetry), the CLI, desktop and web shells (they forward to the API and keep no
  state), the repository's own lints and benchmarks, the manifest (written once),
  and the skeleton crates (empty).

## 7. Plan

The plan is carried out: the components of section 1 that have state of their own
are modelled, and the safety properties of the runs are proved. What could extend
it, in order of worth: two worker pools on one queue (section 6), `TextStages`,
`Transcript` and `Embed` composed with `Ingest`, and the manifest.
