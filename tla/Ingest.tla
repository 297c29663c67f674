------------------------------- MODULE Ingest -------------------------------
(***************************************************************************)
(* The ingest pipeline of pos-ingest over the job queue and the project      *)
(* log: connectors submit evidence, workers run its stages as queued jobs,   *)
(* users rewind it, and the evidence projections of pos-domain record how    *)
(* far it is.                                                                *)
(*                                                                          *)
(* A status is the stage that finished last, or "failed".  A stage job is    *)
(* identified by its idempotency key <<item, stage, pass>>.  The queue is    *)
(* what JobQueue.tla promises: at-least-once delivery, where the lease of a  *)
(* running attempt can expire and the job be delivered again.  An append of  *)
(* a batch is one atomic step, and so is a claim with the load and the start *)
(* fact that follow it, which no other actor's step can tell apart.          *)
(***************************************************************************)
EXTENDS Integers, Sequences, FiniteSets, SequencesExt

CONSTANTS
    Items,          \* evidence items, by derived id
    Media,          \* Media[e]: the item's media kind
    Registered,     \* stages this build has a handler for
    StageWorkers,   \* worker threads of the ingest class
    Connectors,     \* callers that submit evidence
    Requesters,     \* callers that rewind evidence
    RewindTo,       \* bound: the stages they rewind to
    ChunkPlan,      \* ChunkPlan[p + 1]: the chunk contents of pass p, in order
    ListMax,        \* EVIDENCE_LIST_ROW_COUNT_MAX
    StageRetryMax,  \* STAGE_RETRY_COUNT_MAX
    MaxPass,        \* bound: rewinds of an item
    MaxStageFaults, \* bound: failed stages, killed workers and lost leases
    NoRow, Idle

StageOrder == <<"raw", "normalize", "transcribe", "chunk", "embed", "extract", "index">>
IngestStages == Range(StageOrder)
JobStages == IngestStages \ {"raw"}
Passes == 0..MaxPass
JobIds == Items \X JobStages \X Passes
Statuses == IngestStages \cup {"failed"}
ChunkContents == UNION {Range(ChunkPlan[p + 1]) : p \in Passes}
ChunkIds == Items \X ChunkContents

Rank(s) == CHOOSE i \in DOMAIN StageOrder : StageOrder[i] = s
AppliesTo(s, media) == s = "transcribe" => media \in {"audio", "video"}

(* next_for: the first later stage that applies to the media.                *)
NextFor(s, media) ==
    LET later == {t \in IngestStages : Rank(t) > Rank(s) /\ AppliesTo(t, media)}
    IN IF later = {} THEN "none" ELSE CHOOSE t \in later : \A u \in later : Rank(t) <= Rank(u)

(* The columns of the evidence tables.                                      *)
Unset == {NoRow}
EvidenceRows == [status: Statuses, pass: Passes, text: BOOLEAN, chunkPass: Passes \cup Unset,
                 chunkCount: Nat]
StageRowSet == [pass: Passes, state: {"running", "done", "retrying", "dead"}, attempt: Nat]
ChunkRowSet == Passes
HealthRows == [ok: Nat, failed: Nat, dead: Nat]

(* What a worker carries through an attempt, and a requester through a       *)
(* rewind of several items.                                                  *)
AttemptPcs == {"begin", "work", "commit", "done", "failed", "refused"}
Attempts == [job: JobIds, attempt: Nat, pc: AttemptPcs, todo: SUBSET (Nat \X ChunkContents),
             text: BOOLEAN, fresh: SUBSET JobIds]
Rewinds == [from: JobStages, todo: SUBSET (Items \X Passes)]

ASSUME IngestAssumption ==
    /\ Registered \subseteq JobStages /\ RewindTo \subseteq IngestStages
    /\ ListMax \in Nat /\ StageRetryMax \in Nat /\ MaxPass \in Nat /\ MaxStageFaults \in Nat
    /\ \A p \in Passes : p + 1 \in DOMAIN ChunkPlan /\ ChunkPlan[p + 1] \in Seq(ChunkContents)
    /\ NoRow \notin EvidenceRows \cup StageRowSet \cup Passes
    /\ Idle \notin Attempts \cup Rewinds \cup Items

(* StageRegistry: this build has a handler for the stage.                    *)
HasHandler(s) == s \in Registered

VARIABLES
    rows,       \* rows[e]: proj_evidence
    stageRows,  \* stageRows[e][s]: proj_evidence_stages
    chunkRows,  \* chunkRows[c]: the pass of the chunk's row, NoRow if it has none
    vectors,    \* chunks with a row in proj_chunk_embedding
    health,     \* health[s]: proj_source_health of the one source
    jobs,       \* jobs[j]: the queue's view of a stage job
    att,        \* att[w]: the attempt the worker is running
    conn,       \* conn[c]: the submission the connector is between read and append of
    rep,        \* rep[r]: the rewind the requester is in the middle of
    faults,     \* failures injected so far
    calm        \* no lease is lost by a live attempt, no rewind overlaps one

evidence == <<rows, stageRows, chunkRows, vectors, health>>
ingestVars == <<rows, stageRows, chunkRows, vectors, health, jobs, att, conn, rep, faults, calm>>

IngestInit ==
    /\ rows = [e \in Items |-> NoRow]
    /\ stageRows = [e \in Items |-> [s \in JobStages |-> NoRow]]
    /\ chunkRows = [c \in ChunkIds |-> NoRow]
    /\ vectors = {}
    /\ health = [s \in IngestStages |-> [ok |-> 0, failed |-> 0, dead |-> 0]]
    /\ jobs = [j \in JobIds |-> [state |-> "absent", attempt |-> 0]]
    /\ att = [w \in StageWorkers |-> Idle]
    /\ conn = [c \in Connectors |-> Idle]
    /\ rep = [r \in Requesters |-> Idle]
    /\ faults = 0
    /\ calm \in BOOLEAN

Live(j) == jobs[j].state \in {"queued", "leased"}
InFlight(e) == \E w \in StageWorkers : att[w] # Idle /\ att[w].job[1] = e

Fault == faults < MaxStageFaults /\ faults' = faults + 1

-----------------------------------------------------------------------------
(* The projections.                                                          *)

(* added_row.                                                                *)
Added == [status |-> "raw", pass |-> 0, text |-> FALSE, chunkPass |-> NoRow, chunkCount |-> 0]

(* output_assignments: what the completion of a stage assigns to the row.    *)
Output(row, s, p, count) ==
    CASE s \in {"normalize", "transcribe"} -> [row EXCEPT !.text = TRUE]
      [] s = "chunk" -> [row EXCEPT !.chunkPass = p, !.chunkCount = count]
      [] OTHER -> row

(* proj_evidence on IngestStageFinished: the pass is the event's.            *)
Finished(row, s, p, count) == [Output(row, s, p, count) EXCEPT !.status = s, !.pass = p]

(* The chunks of a pass, each with its ordinal.                              *)
Listing(p) == {<<i, ChunkPlan[p + 1][i]>> : i \in 1..Len(ChunkPlan[p + 1])}

(* list_chunks: the rows of the current shape, the first ListMax of them.    *)
Visible(e) ==
    IF rows[e].chunkPass = NoRow THEN {}
    ELSE LET p == rows[e].chunkPass
             ofPass == {t \in Listing(p) : chunkRows[<<e, t[2]>>] = p}
         IN {t \in ofPass : Cardinality({u \in ofPass : u[1] < t[1]}) < ListMax}

(* proj_evidence_stages: an upsert at the start, updates at the end.         *)
StageStarted(e, s, p, n) == [stageRows EXCEPT ![e][s] = [pass |-> p, state |-> "running", attempt |-> n]]
StageSettled(e, s, p, state) ==
    [stageRows EXCEPT ![e][s].pass = p, ![e][s].state = state]

CountOk(s) == [health EXCEPT ![s].ok = @ + 1]
CountFailed(s, dead) ==
    [health EXCEPT ![s].failed = @ + 1, ![s].dead = IF dead THEN @ + 1 ELSE @]

-----------------------------------------------------------------------------
(* enqueue_request reads whether the job exists and the caller appends the   *)
(* event later: JobEnqueued is an insert, so that a job that appeared in     *)
(* between fails the whole batch.                                            *)
Absent(j) == jobs[j].state = "absent"
Enqueued(j) == [jobs EXCEPT ![j] = [state |-> "queued", attempt |-> 0]]

(* stage_job_request: the job of the next stage, when this build runs it.    *)
NextJob(e, s, p) ==
    LET next == NextFor(s, Media[e])
    IN IF HasHandler(next) THEN {<<e, next, p>>} ELSE {}

(* submit, up to the append: a known item is a duplicate.                    *)
SubmitRead(c, e) ==
    /\ conn[c] = Idle
    /\ rows[e] = NoRow
    /\ conn' = [conn EXCEPT ![c] = e]
    /\ UNCHANGED <<evidence, jobs, att, rep, faults, calm>>

(* The fact and the first stage job in one batch.  EvidenceAdded is an       *)
(* insert: the second of two submissions that both read "unknown" fails.     *)
SubmitAppend(c) ==
    LET e == conn[c]
        first == NextJob(e, "raw", 0)
    IN /\ e # Idle
       /\ \/ /\ rows[e] = NoRow
             /\ rows' = [rows EXCEPT ![e] = Added]
             /\ health' = CountOk("raw")
             /\ jobs' = [j \in JobIds |-> IF j \in first THEN Enqueued(j)[j] ELSE jobs[j]]
          \/ /\ rows[e] # NoRow
             /\ UNCHANGED <<rows, health, jobs>>
       /\ conn' = [conn EXCEPT ![c] = Idle]
       /\ UNCHANGED <<stageRows, chunkRows, vectors, att, rep, faults, calm>>

-----------------------------------------------------------------------------
(* The stage attempt.                                                        *)

(* The queue's answer to a failed attempt.                                   *)
QueueFailed(n, permanent) ==
    [state |-> IF permanent \/ n > StageRetryMax THEN "dead" ELSE "queued", attempt |-> n]

Claimable(w, j) == att[w] = Idle /\ jobs[j].state = "queued"

(* Slip of Refused: the pass is not compared.                                *)
RefusedAnyPass(j) == ~HasHandler(j[2])

(* load_for_stage and the handler lookup: what run_stage refuses for good,   *)
(* before any event.                                                         *)
Refused(j) == rows[j[1]].pass # j[3] \/ ~HasHandler(j[2])

Refuse(w, j) ==
    /\ Claimable(w, j)
    /\ Refused(j)
    /\ jobs' = [jobs EXCEPT ![j] = QueueFailed(@.attempt + 1, TRUE)]
    /\ UNCHANGED <<evidence, att, conn, rep, faults, calm>>

(* StageJobHandler::run: the project closed between claim and run.           *)
ProjectNotOpen(w, j) ==
    /\ Claimable(w, j)
    /\ Fault
    /\ jobs' = [jobs EXCEPT ![j] = QueueFailed(@.attempt + 1, FALSE)]
    /\ UNCHANGED <<evidence, att, conn, rep, calm>>

(* The attempt starts: the evidence row it loaded is not read again.         *)
Start(w, j) ==
    LET n == jobs[j].attempt + 1
    IN /\ Claimable(w, j)
       /\ ~Refused(j)
       /\ jobs' = [jobs EXCEPT ![j] = [state |-> "leased", attempt |-> n]]
       /\ stageRows' = StageStarted(j[1], j[2], j[3], n)
       /\ att' = [att EXCEPT ![w] = [job |-> j, attempt |-> n, pc |-> "begin", todo |-> {},
                                     text |-> rows[j[1]].text, fresh |-> {}]]
       /\ UNCHANGED <<rows, chunkRows, vectors, health, conn, rep, faults, calm>>

AtPc(w, pc) == att[w] # Idle /\ att[w].pc = pc
Stage(w) == att[w].job[2]

(* The handler's plan: the chunker's boundaries, or the current chunks that  *)
(* have no vector under this model yet.                                      *)
Work(w) ==
    LET e == att[w].job[1]
        p == att[w].job[3]
    IN CASE Stage(w) = "chunk" -> Listing(p)
         [] Stage(w) = "embed" -> {t \in Visible(e) : <<e, t[2]>> \notin vectors}
         [] OTHER -> {}

(* CHUNK needs the normalized text.                                          *)
HandlerBegin(w) ==
    /\ AtPc(w, "begin")
    /\ Stage(w) = "chunk" => att[w].text
    /\ att' = [att EXCEPT ![w].pc = "work", ![w].todo = Work(w)]
    /\ UNCHANGED <<evidence, jobs, conn, rep, faults, calm>>

(* emit_chunks and emit_embeddings: each batch is durable before the next,   *)
(* in the order of the ordinals.                                             *)
HandlerBatch(w) ==
    /\ AtPc(w, "work")
    /\ \E t \in att[w].todo :
          LET c == <<att[w].job[1], t[2]>>
          IN /\ \A u \in att[w].todo : t[1] <= u[1]
             /\ IF Stage(w) = "chunk"
                THEN /\ chunkRows' = [chunkRows EXCEPT ![c] = att[w].job[3]]
                     /\ UNCHANGED vectors
                ELSE /\ vectors' = vectors \cup {c}
                     /\ UNCHANGED chunkRows
             /\ att' = [att EXCEPT ![w].todo = @ \ {t}]
    /\ UNCHANGED <<rows, stageRows, health, jobs, conn, rep, faults, calm>>

(* commit_failed: the disposition, from the attempt the worker holds.        *)
DeadAt(n, permanent) == permanent \/ n >= StageRetryMax

CommitFailed(w, permanent) ==
    LET j == att[w].job
        dead == DeadAt(att[w].attempt, permanent)
    IN /\ stageRows' = [StageSettled(j[1], j[2], j[3], IF dead THEN "dead" ELSE "retrying")
                            EXCEPT ![j[1]][j[2]].attempt = att[w].attempt]
       /\ rows' = IF dead THEN [rows EXCEPT ![j[1]].status = "failed"] ELSE rows
       /\ health' = CountFailed(j[2], dead)
       /\ att' = [att EXCEPT ![w].pc = IF permanent THEN "refused" ELSE "failed"]
       /\ UNCHANGED <<chunkRows, vectors, jobs, conn, rep, calm>>

(* A handler error: the store, the engine, the content.                      *)
StageFails(w, permanent) ==
    /\ AtPc(w, "begin") \/ AtPc(w, "work")
    /\ Fault
    /\ CommitFailed(w, permanent)

(* StageInputMissing: a rewind to CHUNK of an item that has no text.         *)
InputMissing(w) ==
    /\ AtPc(w, "begin")
    /\ Stage(w) = "chunk" /\ ~att[w].text
    /\ CommitFailed(w, TRUE)
    /\ UNCHANGED faults

(* commit_finished, up to the append.                                        *)
FinishRead(w) ==
    LET j == att[w].job
    IN /\ AtPc(w, "work")
       /\ att[w].todo = {}
       /\ att' = [att EXCEPT ![w].pc = "commit",
                             ![w].fresh = {k \in NextJob(j[1], j[2], j[3]) : Absent(k)}]
       /\ UNCHANGED <<evidence, jobs, conn, rep, faults, calm>>

(* Slip of FinishAppend: the completion is appended without the next job.    *)
FinishAppendFactOnly(w) ==
    LET e == att[w].job[1]
        s == att[w].job[2]
        p == att[w].job[3]
    IN /\ AtPc(w, "commit")
       /\ rows' = [rows EXCEPT ![e] = Finished(@, s, p, Len(ChunkPlan[p + 1]))]
       /\ stageRows' = StageSettled(e, s, p, "done")
       /\ health' = CountOk(s)
       /\ att' = [att EXCEPT ![w].pc = "done"]
       /\ UNCHANGED <<chunkRows, vectors, jobs, conn, rep, faults, calm>>

(* The completion and the next stage's job in one batch.  A job that exists  *)
(* already is left as it is; one that appeared since the read fails the      *)
(* batch, and the attempt with it, retriable and without a fact.             *)
FinishAppend(w) ==
    LET e == att[w].job[1]
        s == att[w].job[2]
        p == att[w].job[3]
        fresh == att[w].fresh
    IN /\ AtPc(w, "commit")
       /\ \/ /\ \A k \in fresh : Absent(k)
             /\ rows' = [rows EXCEPT ![e] = Finished(@, s, p, Len(ChunkPlan[p + 1]))]
             /\ stageRows' = StageSettled(e, s, p, "done")
             /\ health' = CountOk(s)
             /\ jobs' = [j \in JobIds |-> IF j \in fresh THEN Enqueued(j)[j] ELSE jobs[j]]
             /\ att' = [att EXCEPT ![w].pc = "done"]
          \/ /\ \E k \in fresh : ~Absent(k)
             /\ att' = [att EXCEPT ![w].pc = "failed"]
             /\ UNCHANGED <<rows, stageRows, health, jobs>>
       /\ UNCHANGED <<chunkRows, vectors, conn, rep, faults, calm>>

(* The queue settles the attempt if the lease is still its own.              *)
Settle(w) ==
    LET j == att[w].job
        n == att[w].attempt
        result == IF att[w].pc = "done" THEN [state |-> "done", attempt |-> n]
                  ELSE QueueFailed(n, att[w].pc = "refused")
    IN /\ AtPc(w, "done") \/ AtPc(w, "failed") \/ AtPc(w, "refused")
       /\ jobs' = IF jobs[j] = [state |-> "leased", attempt |-> n]
                  THEN [jobs EXCEPT ![j] = result] ELSE jobs
       /\ att' = [att EXCEPT ![w] = Idle]
       /\ UNCHANGED <<evidence, conn, rep, faults, calm>>

(* The worker's process dies.                                                *)
Killed(w) ==
    /\ att[w] # Idle
    /\ Fault
    /\ att' = [att EXCEPT ![w] = Idle]
    /\ UNCHANGED <<evidence, jobs, conn, rep, calm>>

Held(j) == \E w \in StageWorkers : att[w] # Idle /\ att[w].job = j /\ att[w].attempt = jobs[j].attempt

Expire(j) ==
    /\ jobs[j].state = "leased"
    /\ jobs' = [jobs EXCEPT ![j] = QueueFailed(@.attempt, FALSE)]
    /\ UNCHANGED <<evidence, att, conn, rep, calm>>

(* The lease of an attempt whose worker died expires.                        *)
LeaseExpires(j) == Expire(j) /\ ~Held(j) /\ UNCHANGED faults

(* The lease of a running attempt expires: its renewals did not get through. *)
LeaseLost(j) == Expire(j) /\ Held(j) /\ ~calm /\ Fault

-----------------------------------------------------------------------------
(* reached: the item completed the stage before the target, or failed.       *)
Reached(status, from) == status = "failed" \/ Rank(status) + 1 >= Rank(from)

(* reprocess: the targets are read once.                                     *)
ReprocessRead(r, from) ==
    LET targets == {e \in Items : rows[e] # NoRow /\ Reached(rows[e].status, from)
                                  /\ rows[e].pass < MaxPass}
    IN /\ rep[r] = Idle
       /\ from # "raw"
       /\ targets # {}
       /\ rep' = [rep EXCEPT ![r] = [from |-> from, todo |-> {<<e, rows[e].pass>> : e \in targets}]]
       /\ UNCHANGED <<evidence, jobs, att, conn, faults, calm>>

(* One item: the rewind and the job that redoes the work in one batch, under *)
(* the pass after the one that was read.                                     *)
ReprocessOne(r) ==
    /\ rep[r] # Idle
    /\ \E t \in rep[r].todo :
           LET e == t[1]
               job == <<e, rep[r].from, t[2] + 1>>
           IN /\ calm => rows[e].pass = t[2] /\ ~InFlight(e)
              /\ rows' = [rows EXCEPT ![e].pass = t[2] + 1]
              /\ jobs' = IF Absent(job) THEN Enqueued(job) ELSE jobs
              /\ rep' = [rep EXCEPT ![r] = IF rep[r].todo = {t} THEN Idle
                                           ELSE [rep[r] EXCEPT !.todo = @ \ {t}]]
    /\ UNCHANGED <<stageRows, chunkRows, vectors, health, att, conn, faults, calm>>

-----------------------------------------------------------------------------
(* What a worker does of its own accord.                                     *)
WorkerStep(w) ==
    \/ \E j \in JobIds : Refuse(w, j) \/ Start(w, j)
    \/ HandlerBegin(w) \/ HandlerBatch(w) \/ InputMissing(w)
    \/ FinishRead(w) \/ FinishAppend(w) \/ Settle(w)

IngestNext ==
    \/ \E c \in Connectors : (\E e \in Items : SubmitRead(c, e)) \/ SubmitAppend(c)
    \/ \E w \in StageWorkers :
           \/ WorkerStep(w)
           \/ \E j \in JobIds : ProjectNotOpen(w, j)
           \/ \E permanent \in BOOLEAN : StageFails(w, permanent)
           \/ Killed(w)
    \/ \E j \in JobIds : LeaseExpires(j) \/ LeaseLost(j)
    \/ \E r \in Requesters : (\E from \in RewindTo : ReprocessRead(r, from)) \/ ReprocessOne(r)

(* The pool keeps its workers running and the reaper its sweeps.             *)
IngestFairness ==
    /\ \A w \in StageWorkers : WF_ingestVars(WorkerStep(w))
    /\ \A j \in JobIds : WF_ingestVars(LeaseExpires(j))

IngestSpec == IngestInit /\ [][IngestNext]_ingestVars

-----------------------------------------------------------------------------
(* Types of the evidence tables, and of the dead count, which is part of the   *)
(* failed one.                                                               *)
IngestTypeOK ==
    /\ rows \in [Items -> EvidenceRows \cup Unset]
    /\ stageRows \in [Items -> [JobStages -> StageRowSet \cup Unset]]
    /\ chunkRows \in [ChunkIds -> ChunkRowSet \cup Unset]
    /\ vectors \subseteq ChunkIds
    /\ health \in [IngestStages -> HealthRows]
    /\ \A s \in IngestStages : health[s].dead <= health[s].failed

(* P1, while nobody overlaps anybody: an item is never between two stages    *)
(* without the work that moves it on.  At the pass its row has, the job of   *)
(* the stage after its status was enqueued, or a job of another stage is not *)
(* done (a rewind, or a retry).                                              *)
WorkEnqueued ==
    calm => \A e \in Items : rows[e] # NoRow /\ rows[e].status # "failed" =>
        LET next == NextJob(e, rows[e].status, rows[e].pass)
        IN \/ \A j \in next : ~Absent(j)
           \/ \E s \in JobStages : jobs[<<e, s, rows[e].pass>>].state \notin {"absent", "done"}

(* E1 and the shape of an item: while nobody overlaps anybody, an item that  *)
(* says it is embedded has the rows of all the chunks of the pass that       *)
(* produced them, as many as it counts, and a vector for each of those that  *)
(* list_chunks returns.                                                      *)
EmbeddedIsComplete ==
    calm => \A e \in Items :
        rows[e] # NoRow /\ rows[e].status = "embed" /\ ~InFlight(e) /\ rows[e].chunkPass = rows[e].pass =>
            /\ rows[e].chunkCount = Cardinality(Listing(rows[e].pass))
            /\ \A t \in Listing(rows[e].pass) : chunkRows[<<e, t[2]>>] = rows[e].pass
            /\ \A t \in Visible(e) : <<e, t[2]>> \in vectors

(* The pipeline is sound: typed, no item without its next work, none embedded *)
(* short of its list.                                                        *)
IngestSound == IngestTypeOK /\ WorkEnqueued /\ EmbeddedIsComplete

(* P5 while nobody overlaps anybody: a job of an older pass never moves an   *)
(* item back.                                                                *)
CalmPassGrows ==
    [][calm => \A e \in Items : rows[e] # NoRow => rows[e].pass <= rows'[e].pass]_ingestVars

(* Every item comes to rest: no stage job stays queued or leased, and, if    *)
(* nobody overlapped anybody, the item failed or the job of every stage that *)
(* its status and its pass still ask for was run.                            *)
AtRest(e) ==
    \/ rows[e].status = "failed"
    \/ \A j \in NextJob(e, rows[e].status, rows[e].pass) : ~Absent(j)
    \/ \E s \in JobStages : jobs[<<e, s, rows[e].pass>>].state = "dead"

IngestSettles ==
    <>[](/\ \A j \in JobIds : ~Live(j)
         /\ calm => \A e \in Items : rows[e] # NoRow => AtRest(e))
=============================================================================
