------------------------------ MODULE JobQueue ------------------------------
(***************************************************************************)
(* The durable job queue of pos-sched and the worker pool that drives it.   *)
(*                                                                          *)
(* Durable state is the row of each job in proj_jobs, which only facts      *)
(* appended to the project log change, and the node-local table             *)
(* sched_leases.  Everything else is memory of one process: the class       *)
(* workers, the maintenance task that reaps leases and retires cron jobs,   *)
(* and the callers of enqueue.  An append is one transaction and so is a    *)
(* claim, a heartbeat or the release of a lease; whatever the code reads in  *)
(* one transaction and uses in the next is kept here between two actions.   *)
(*                                                                          *)
(* Time is abstracted to what the code asks of the clock: whether a row's   *)
(* run_at_ts_ms has come (due) and whether a lease is still unexpired       *)
(* (live).  BecomeDue and Expire are the clock passing those instants.      *)
(***************************************************************************)
EXTENDS Integers, FiniteSets

CONSTANTS
    Jobs,           \* job ids: one per (project, kind, idempotency key)
    Workers,        \* worker names, "<class>-<slot>"
    Enqueuers,      \* concurrent callers of enqueue
    Class,          \* Class[j]: the worker class the job asks for
    WorkerClass,    \* WorkerClass[w]: the class the worker serves
    Rank,           \* Rank[j]: priority rank, 0 first
    RetryMax,       \* RetryMax[j]: retry_count_max of the job
    CronJobs,       \* the jobs a CancelPrevious cron may retire
    ReapBatchMax,   \* LEASE_REAP_BATCH_COUNT_MAX
    MaxFaults,      \* bound: process kills and store errors of a behaviour
    MaxShutdowns,   \* bound: orderly shutdowns of a behaviour
    NoJob, NoClaim, NoLease

Claims == [job: Jobs, attempt: Nat]
Leases == [worker: Workers, attempt: Nat, live: BOOLEAN]
DeadReasons == {"none", "refused", "retries_exhausted", "superseded_by_cron"}
Rows == [state: {"absent", "queued", "done", "dead"}, attempts: Nat,
         due: BOOLEAN, reason: DeadReasons, seq: Nat]

ASSUME ConstantsAssumption ==
    /\ IsFiniteSet(Jobs)
    /\ RetryMax \in [Jobs -> Nat]
    /\ Rank \in [Jobs -> Nat]
    /\ CronJobs \subseteq Jobs
    /\ ReapBatchMax \in Nat \ {0}
    /\ MaxFaults \in Nat
    /\ MaxShutdowns \in Nat
    /\ NoJob \notin Jobs
    /\ NoClaim \notin Claims
    /\ NoLease \notin Leases

VARIABLES
    jobs,       \* proj_jobs: [Jobs -> Rows]
    leases,     \* sched_leases: [Jobs -> Leases \cup {NoLease}]
    wpc,        \* where each class worker is
    claim,      \* the ClaimedJob each worker holds
    beat,       \* the heartbeat task of each worker's attempt
    mpc,        \* where the maintenance task is
    todo,       \* expired leases the reaper has read and not yet handled
    cur,        \* the lease or job the maintenance task is working on
    admit,      \* the job each enqueuer has found absent
    pool,       \* the shutdown flag: "open" or "closing"
    faults,     \* process kills and store errors so far
    shutdowns,  \* orderly shutdowns so far
    created,    \* history: enqueue calls that answered Enqueued, per job
    started     \* history: attempts handed to a worker, per job

durable == <<jobs, leases>>
workers == <<wpc, claim, beat>>
maint == <<mpc, todo, cur>>
vars == <<jobs, leases, wpc, claim, beat, mpc, todo, cur, admit, pool,
          faults, shutdowns, created, started>>

Terminal(j) == jobs[j].state \in {"done", "dead"}

-----------------------------------------------------------------------------
(* The facts, as the jobs projection folds them into a row.                 *)

(* JobEnqueued: a strict insert, so a second one refuses the whole append.   *)
EnqueuedRow(seq, due) ==
    [state |-> "queued", attempts |-> 0, due |-> due, reason |-> "none",
     seq |-> seq]

(* Slip of AttemptFailedRow: it also rewrites the state.                    *)
AttemptFailedRowRequeues(row, attempt, due) ==
    [row EXCEPT !.attempts = attempt, !.due = due, !.state = "queued"]

(* JobAttemptFailed: unconditional, and the state column is not touched.     *)
AttemptFailedRow(row, attempt, due) ==
    [row EXCEPT !.attempts = attempt, !.due = due]

CompletedRow(row, attempt) ==
    [row EXCEPT !.state = "done", !.attempts = attempt]

DeadRow(row, attempt, reason) ==
    [row EXCEPT !.state = "dead", !.attempts = attempt, !.reason = reason]

(* Slip of FailureRow: one retry too many.                                   *)
FailureRowOneMore(row, retryMax, attempt, permanent, due) ==
    IF permanent \/ attempt > retryMax + 1
    THEN DeadRow(row, attempt,
                 IF permanent THEN "refused" ELSE "retries_exhausted")
    ELSE AttemptFailedRow(row, attempt, due)

(* append_failure: the DLQ with a typed reason, or another attempt later.    *)
(* The full-jitter delay may be zero, so the retry may be due at once.       *)
FailureRow(row, retryMax, attempt, permanent, due) ==
    IF permanent \/ attempt > retryMax
    THEN DeadRow(row, attempt,
                 IF permanent THEN "refused" ELSE "retries_exhausted")
    ELSE AttemptFailedRow(row, attempt, due)

(* release_lease deletes by job id alone: whoever holds the row loses it.    *)
ReleaseLease(j) == leases' = [leases EXCEPT ![j] = NoLease]

-----------------------------------------------------------------------------
Init ==
    /\ jobs = [j \in Jobs |-> [state |-> "absent", attempts |-> 0,
                               due |-> FALSE, reason |-> "none", seq |-> 0]]
    /\ leases = [j \in Jobs |-> NoLease]
    /\ wpc = [w \in Workers |-> "poll"]
    /\ claim = [w \in Workers |-> NoClaim]
    /\ beat = [w \in Workers |-> "off"]
    /\ mpc = "sleep"
    /\ todo = {}
    /\ cur = NoClaim
    /\ admit = [e \in Enqueuers |-> NoJob]
    /\ pool = "open"
    /\ faults = 0
    /\ shutdowns = 0
    /\ created = [j \in Jobs |-> 0]
    /\ started = [j \in Jobs |-> 0]

-----------------------------------------------------------------------------
(* enqueue: an admission read, then the append.  A read that finds the row   *)
(* answers Duplicate and changes nothing.                                    *)
EnqueueRead(e, j) ==
    /\ admit[e] = NoJob
    /\ jobs[j].state = "absent"
    /\ admit' = [admit EXCEPT ![e] = j]
    /\ UNCHANGED <<durable, workers, maint, pool, faults, shutdowns, created, started>>

(* Slip of EnqueueAppend: the insert is an upsert, the admission read is     *)
(* trusted.                                                                  *)
EnqueueAppendUpserts(e, due) ==
    LET j == admit[e]
        seq == 1 + Cardinality({k \in Jobs : jobs[k].state # "absent"})
    IN /\ j # NoJob
       /\ jobs' = [jobs EXCEPT ![j] = EnqueuedRow(seq, due)]
       /\ created' = [created EXCEPT ![j] = @ + 1]
       /\ admit' = [admit EXCEPT ![e] = NoJob]
       /\ UNCHANGED <<leases, workers, maint, pool, faults, shutdowns, started>>

(* The projection's insert is strict: an enqueue that lost the race fails    *)
(* the append, re-reads the row and answers Duplicate.                       *)
EnqueueAppend(e, due) ==
    LET j == admit[e]
        seq == 1 + Cardinality({k \in Jobs : jobs[k].state # "absent"})
    IN /\ j # NoJob
       /\ \/ /\ jobs[j].state = "absent"
             /\ jobs' = [jobs EXCEPT ![j] = EnqueuedRow(seq, due)]
             /\ created' = [created EXCEPT ![j] = @ + 1]
          \/ /\ jobs[j].state # "absent"
             /\ UNCHANGED <<jobs, created>>
       /\ admit' = [admit EXCEPT ![e] = NoJob]
       /\ UNCHANGED <<leases, workers, maint, pool, faults, shutdowns, started>>

-----------------------------------------------------------------------------
(* The class workers.                                                       *)

(* Slips of Claimable: the lease is not looked at, or the state is not.      *)
ClaimableUnderLease(j, c) ==
    jobs[j].state = "queued" /\ Class[j] = c /\ jobs[j].due

ClaimableAnyState(j, c) ==
    jobs[j].state # "absent" /\ Class[j] = c /\ jobs[j].due /\ leases[j] = NoLease

Claimable(j, c) ==
    /\ jobs[j].state = "queued"
    /\ Class[j] = c
    /\ jobs[j].due
    /\ leases[j] = NoLease      \* an expired lease still blocks

ClaimedBefore(j, k) ==
    \/ Rank[j] < Rank[k]
    \/ Rank[j] = Rank[k] /\ jobs[j].seq <= jobs[k].seq

(* Where a worker goes when its loop comes round to the shutdown flag.       *)
NextPoll == IF pool = "open" THEN "poll" ELSE "exited"

(* claim: candidate and lease in one IMMEDIATE transaction.                  *)
Claim(w, j) ==
    LET c == [job |-> j, attempt |-> jobs[j].attempts + 1]
    IN /\ wpc[w] = "poll"
       /\ Claimable(j, WorkerClass[w])
       /\ \A k \in Jobs : Claimable(k, WorkerClass[w]) => ClaimedBefore(j, k)
       /\ leases' = [leases EXCEPT ![j] =
                       [worker |-> w, attempt |-> c.attempt, live |-> TRUE]]
       /\ claim' = [claim EXCEPT ![w] = c]
       /\ wpc' = [wpc EXCEPT ![w] = "running"]
       /\ beat' = [beat EXCEPT ![w] = "on"]
       /\ started' = [started EXCEPT ![j] = @ + 1]
       /\ UNCHANGED <<jobs, maint, admit, pool, faults, shutdowns, created>>

(* Slip of WorkerExit: the worker leaves a job in flight behind.             *)
WorkerExitAbandons(w) ==
    /\ wpc[w] \in {"poll", "running"}
    /\ pool = "closing"
    /\ wpc' = [wpc EXCEPT ![w] = "exited"]
    /\ claim' = [claim EXCEPT ![w] = NoClaim]
    /\ beat' = [beat EXCEPT ![w] = "off"]
    /\ UNCHANGED <<durable, maint, admit, pool, faults, shutdowns, created, started>>

(* A poll that came back empty once the pool is closing.                     *)
WorkerExit(w) ==
    /\ wpc[w] = "poll"
    /\ pool = "closing"
    /\ wpc' = [wpc EXCEPT ![w] = "exited"]
    /\ UNCHANGED <<durable, claim, beat, maint, admit, pool, faults, shutdowns, created, started>>

HoldsLease(w) ==
    LET c == claim[w]
    IN /\ c # NoClaim
       /\ leases[c.job] # NoLease
       /\ leases[c.job].worker = w
       /\ leases[c.job].attempt = c.attempt

(* heartbeat: extends the row it matches even when that row has expired; a   *)
(* beat that matches nothing ends the beating task, not the handler.         *)
Heartbeat(w) ==
    /\ wpc[w] = "running"
    /\ beat[w] = "on"
    /\ \/ /\ HoldsLease(w)
          /\ leases' = [leases EXCEPT ![claim[w].job].live = TRUE]
          /\ UNCHANGED beat
       \/ /\ ~HoldsLease(w)
          /\ beat' = [beat EXCEPT ![w] = "lost"]
          /\ UNCHANGED leases
    /\ UNCHANGED <<jobs, wpc, claim, maint, admit, pool, faults, shutdowns, created, started>>

(* A beat that meets a store error also ends the task.                       *)
HeartbeatError(w) ==
    /\ wpc[w] = "running"
    /\ beat[w] = "on"
    /\ faults < MaxFaults
    /\ beat' = [beat EXCEPT ![w] = "broken"]
    /\ faults' = faults + 1
    /\ UNCHANGED <<durable, wpc, claim, maint, admit, pool, shutdowns, created, started>>

(* The handler returned: the beating task is aborted and the fact appended.  *)
Finish(w, row) ==
    /\ wpc[w] = "running"
    /\ jobs' = [jobs EXCEPT ![claim[w].job] = row]
    /\ wpc' = [wpc EXCEPT ![w] = "appended"]
    /\ beat' = [beat EXCEPT ![w] = "off"]
    /\ UNCHANGED <<leases, claim, maint, admit, pool, faults, shutdowns, created, started>>

Complete(w) ==
    Finish(w, CompletedRow(jobs[claim[w].job], claim[w].attempt))

(* fail: a handler error, a panic (retriable) or no handler (permanent).     *)
Fail(w, permanent, due) ==
    LET c == claim[w]
    IN Finish(w, FailureRow(jobs[c.job], RetryMax[c.job], c.attempt, permanent, due))

(* Slip of FinishRelease: the claim is not dropped with the lease.           *)
FinishReleaseKeepsClaim(w) ==
    /\ wpc[w] = "appended"
    /\ ReleaseLease(claim[w].job)
    /\ wpc' = [wpc EXCEPT ![w] = NextPoll]
    /\ UNCHANGED <<jobs, claim, beat, maint, admit, pool, faults, shutdowns, created, started>>

(* The second half of complete and fail.                                    *)
FinishRelease(w) ==
    /\ wpc[w] = "appended"
    /\ ReleaseLease(claim[w].job)
    /\ claim' = [claim EXCEPT ![w] = NoClaim]
    /\ wpc' = [wpc EXCEPT ![w] = NextPoll]
    /\ UNCHANGED <<jobs, beat, maint, admit, pool, faults, shutdowns, created, started>>

(* finish_job met a store error, before the fact or between fact and         *)
(* release: it is noted, and the worker moves on.                            *)
FinishError(w) ==
    /\ wpc[w] \in {"running", "appended"}
    /\ faults < MaxFaults
    /\ faults' = faults + 1
    /\ claim' = [claim EXCEPT ![w] = NoClaim]
    /\ beat' = [beat EXCEPT ![w] = "off"]
    /\ wpc' = [wpc EXCEPT ![w] = NextPoll]
    /\ UNCHANGED <<durable, maint, admit, pool, shutdowns, created, started>>

-----------------------------------------------------------------------------
(* The maintenance task: reap_expired_leases, then the cron tick.            *)

ExpiredLeases ==
    {c \in {[job |-> j, attempt |-> leases[j].attempt] :
              j \in {k \in Jobs : leases[k] # NoLease}} : ~leases[c.job].live}

ReapRead ==
    /\ mpc = "sleep"
    /\ \E batch \in SUBSET ExpiredLeases :
          /\ Cardinality(batch) <= ReapBatchMax
          /\ batch = ExpiredLeases \/ Cardinality(batch) = ReapBatchMax
          /\ todo' = batch
          /\ mpc' = IF batch = {} THEN "cron" ELSE "reap"
    /\ UNCHANGED <<durable, workers, cur, admit, pool, faults, shutdowns, created, started>>

(* Slips of ReapCheck: the attempt is never counted, is counted whatever the *)
(* row says, or a terminal job is passed over with its lease in place.       *)
ReapCheckNeverCounts(c) ==
    /\ mpc = "reap" /\ c \in todo
    /\ todo' = todo \ {c} /\ cur' = c /\ mpc' = "reapRelease"
    /\ UNCHANGED <<durable, workers, admit, pool, faults, shutdowns, created, started>>

ReapCheckAlwaysCounts(c) ==
    /\ mpc = "reap" /\ c \in todo
    /\ todo' = todo \ {c} /\ cur' = c /\ mpc' = "reapAppend"
    /\ UNCHANGED <<durable, workers, admit, pool, faults, shutdowns, created, started>>

(* read_job and I3: only an attempt no fact has counted becomes a failure.   *)
ReapCheck(c) ==
    /\ mpc = "reap"
    /\ c \in todo
    /\ todo' = todo \ {c}
    /\ cur' = c
    /\ mpc' = IF jobs[c.job].state = "queued" /\ jobs[c.job].attempts < c.attempt
              THEN "reapAppend" ELSE "reapRelease"
    /\ UNCHANGED <<durable, workers, admit, pool, faults, shutdowns, created, started>>

ReapAppend(due) ==
    /\ mpc = "reapAppend"
    /\ jobs' = [jobs EXCEPT ![cur.job] =
                  FailureRow(@, RetryMax[cur.job], cur.attempt, FALSE, due)]
    /\ mpc' = "reapRelease"
    /\ UNCHANGED <<leases, workers, todo, cur, admit, pool, faults, shutdowns, created, started>>

(* Slip of ReapRelease: the expired lease stays.                             *)
ReapReleaseForgets ==
    /\ mpc = "reapRelease"
    /\ cur' = NoClaim
    /\ mpc' = IF todo = {} THEN "cron" ELSE "reap"
    /\ UNCHANGED <<durable, workers, todo, admit, pool, faults, shutdowns, created, started>>

ReapRelease ==
    /\ mpc = "reapRelease"
    /\ ReleaseLease(cur.job)
    /\ cur' = NoClaim
    /\ mpc' = IF todo = {} THEN "cron" ELSE "reap"
    /\ UNCHANGED <<jobs, workers, todo, admit, pool, faults, shutdowns, created, started>>

(* supersede: the record is read, its attempt count copied into JobDead.     *)
SupersedeRead(j) ==
    /\ mpc = "cron"
    /\ j \in CronJobs
    /\ jobs[j].state = "queued"
    /\ cur' = [job |-> j, attempt |-> jobs[j].attempts]
    /\ mpc' = "supersedeAppend"
    /\ UNCHANGED <<durable, workers, todo, admit, pool, faults, shutdowns, created, started>>

SupersedeAppend ==
    /\ mpc = "supersedeAppend"
    /\ jobs' = [jobs EXCEPT ![cur.job] = DeadRow(@, cur.attempt, "superseded_by_cron")]
    /\ mpc' = "supersedeRelease"
    /\ UNCHANGED <<leases, workers, todo, cur, admit, pool, faults, shutdowns, created, started>>

SupersedeRelease ==
    /\ mpc = "supersedeRelease"
    /\ ReleaseLease(cur.job)
    /\ cur' = NoClaim
    /\ mpc' = "cron"
    /\ UNCHANGED <<jobs, workers, todo, admit, pool, faults, shutdowns, created, started>>

SweepDone ==
    /\ mpc = "cron"
    /\ mpc' = IF pool = "open" THEN "sleep" ELSE "exited"
    /\ UNCHANGED <<durable, workers, todo, cur, admit, pool, faults, shutdowns, created, started>>

(* A store error in the reap pass is noted and the cron tick still runs; one *)
(* in the tick ends the sweep.  The next sweep starts over.                   *)
SweepError ==
    /\ mpc # "exited"
    /\ faults < MaxFaults
    /\ faults' = faults + 1
    /\ todo' = {}
    /\ cur' = NoClaim
    /\ mpc' = CASE mpc \in {"sleep", "reap", "reapAppend", "reapRelease"} -> "cron"
                [] OTHER -> IF pool = "open" THEN "sleep" ELSE "exited"
    /\ UNCHANGED <<durable, workers, admit, pool, shutdowns, created, started>>

MaintenanceExit ==
    /\ mpc = "sleep"
    /\ pool = "closing"
    /\ mpc' = "exited"
    /\ UNCHANGED <<durable, workers, todo, cur, admit, pool, faults, shutdowns, created, started>>

-----------------------------------------------------------------------------
(* The process and the clock.                                               *)

Shutdown ==
    /\ pool = "open"
    /\ shutdowns < MaxShutdowns
    /\ shutdowns' = shutdowns + 1
    /\ pool' = "closing"
    /\ UNCHANGED <<durable, workers, maint, admit, faults, created, started>>

Stopped ==
    /\ mpc = "exited"
    /\ \A w \in Workers : wpc[w] = "exited"

(* WorkerPool::start in a process that takes over the same project.          *)
FreshPool ==
    /\ pool' = "open"
    /\ wpc' = [w \in Workers |-> "poll"]
    /\ claim' = [w \in Workers |-> NoClaim]
    /\ beat' = [w \in Workers |-> "off"]
    /\ mpc' = "sleep"
    /\ todo' = {}
    /\ cur' = NoClaim

Start ==
    /\ Stopped
    /\ FreshPool
    /\ UNCHANGED <<durable, admit, faults, shutdowns, created, started>>

(* kill -9 and a new process: rows and leases are on disk, nothing else is.  *)
Crash ==
    /\ faults < MaxFaults
    /\ faults' = faults + 1
    /\ FreshPool
    /\ admit' = [e \in Enqueuers |-> NoJob]
    /\ UNCHANGED <<durable, shutdowns, created, started>>

BecomeDue(j) ==
    /\ jobs[j].state = "queued"
    /\ ~jobs[j].due
    /\ jobs' = [jobs EXCEPT ![j].due = TRUE]
    /\ UNCHANGED <<leases, workers, maint, admit, pool, faults, shutdowns, created, started>>

Expire(j) ==
    /\ leases[j] # NoLease
    /\ leases[j].live
    /\ leases' = [leases EXCEPT ![j].live = FALSE]
    /\ UNCHANGED <<jobs, workers, maint, admit, pool, faults, shutdowns, created, started>>

(* The lease of an attempt that no worker of this process is running.        *)
Orphaned(j) == \A w \in Workers : claim[w] # NoClaim => claim[w].job # j

-----------------------------------------------------------------------------
WorkerNext(w) ==
    \/ \E j \in Jobs : Claim(w, j)
    \/ WorkerExit(w)
    \/ Heartbeat(w)
    \/ HeartbeatError(w)
    \/ Complete(w)
    \/ \E permanent, due \in BOOLEAN : Fail(w, permanent, due)
    \/ FinishRelease(w)
    \/ FinishError(w)

MaintenanceNext ==
    \/ ReapRead
    \/ \E c \in todo : ReapCheck(c)
    \/ \E due \in BOOLEAN : ReapAppend(due)
    \/ ReapRelease
    \/ \E j \in CronJobs : SupersedeRead(j)
    \/ SupersedeAppend
    \/ SupersedeRelease
    \/ SweepDone
    \/ SweepError
    \/ MaintenanceExit

EnqueueNext ==
    \E e \in Enqueuers :
        \/ \E j \in Jobs : EnqueueRead(e, j)
        \/ \E due \in BOOLEAN : EnqueueAppend(e, due)

ProcessNext == Shutdown \/ Start \/ Crash \/ \E j \in Jobs : BecomeDue(j)

(* Everything but the expiry of leases.                                      *)
Steps ==
    \/ EnqueueNext
    \/ \E w \in Workers : WorkerNext(w)
    \/ MaintenanceNext
    \/ ProcessNext

Next == Steps \/ \E j \in Jobs : Expire(j)

(* The assumption behind the 30 s lease and the 5 s heartbeat: a lease does   *)
(* not run out while the worker that took it is still at the job.            *)
TimelyNext == Steps \/ \E j \in Jobs : Orphaned(j) /\ Expire(j)

Spec == Init /\ [][Next]_vars
TimelySpec == Init /\ [][TimelyNext]_vars

(* What the tokio runtime and the clock guarantee: a handler returns and its *)
(* outcome is recorded, an idle worker polls again, the maintenance task is  *)
(* scheduled again, a closed pool is eventually reopened, and instants pass. *)
Fairness ==
    /\ \A e \in Enqueuers : WF_vars(\E due \in BOOLEAN : EnqueueAppend(e, due))
    /\ \A w \in Workers :
          /\ WF_vars(\E j \in Jobs : Claim(w, j))
          /\ WF_vars(WorkerExit(w))
          /\ WF_vars(Complete(w) \/ \E permanent, due \in BOOLEAN : Fail(w, permanent, due))
          /\ WF_vars(FinishRelease(w))
    /\ WF_vars(ReapRead)
    /\ WF_vars(\E c \in todo : ReapCheck(c))
    /\ WF_vars(\E due \in BOOLEAN : ReapAppend(due))
    /\ WF_vars(ReapRelease \/ SupersedeAppend \/ SupersedeRelease)
    /\ WF_vars(SweepDone)
    /\ WF_vars(MaintenanceExit)
    /\ WF_vars(Start)
    /\ \A j \in Jobs : WF_vars(BecomeDue(j)) /\ WF_vars(Orphaned(j) /\ Expire(j))

FairSpec == Spec /\ Fairness

-----------------------------------------------------------------------------
(* Types of the tables and of the memory of the process.                     *)
TypeOK ==
    /\ jobs \in [Jobs -> Rows]
    /\ leases \in [Jobs -> Leases \cup {NoLease}]
    /\ wpc \in [Workers -> {"poll", "running", "appended", "exited"}]
    /\ claim \in [Workers -> Claims \cup {NoClaim}]
    /\ \A w \in Workers : claim[w] # NoClaim <=> wpc[w] \in {"running", "appended"}
    /\ beat \in [Workers -> {"off", "on", "lost", "broken"}]
    /\ mpc \in {"sleep", "reap", "reapAppend", "reapRelease", "cron",
                "supersedeAppend", "supersedeRelease", "exited"}
    /\ todo \in SUBSET Claims
    /\ cur \in Claims \cup {NoClaim}
    /\ cur # NoClaim <=> mpc \in {"reapAppend", "reapRelease",
                                 "supersedeAppend", "supersedeRelease"}
    /\ admit \in [Enqueuers -> Jobs \cup {NoJob}]
    /\ pool \in {"open", "closing"}
    /\ faults \in Nat
    /\ shutdowns \in Nat
    /\ created \in [Jobs -> Nat]
    /\ started \in [Jobs -> Nat]

(* I1: however admission reads and appends interleave, one enqueue of a job  *)
(* is answered Enqueued, and exactly then the row exists.                    *)
EnqueuedOnce ==
    \A j \in Jobs : created[j] = IF jobs[j].state = "absent" THEN 0 ELSE 1

(* The retry budget survives late and duplicated outcomes: a job still in    *)
(* the queue has an attempt left, and no worker, lease or reaper entry is    *)
(* for an attempt beyond the first one and its retries.                      *)
RetryBudget ==
    /\ \A j \in Jobs : jobs[j].state \in {"absent", "queued"} =>
                          jobs[j].attempts <= RetryMax[j]
    /\ \A j \in Jobs : leases[j] # NoLease => leases[j].attempt <= RetryMax[j] + 1
    /\ \A w \in Workers : claim[w] # NoClaim =>
                             claim[w].attempt <= RetryMax[claim[w].job] + 1
    /\ \A c \in todo : c.attempt <= RetryMax[c.job] + 1

(* I5: whatever the order of late outcomes, a job in the DLQ says why.        *)
DeadHasReason == \A j \in Jobs : jobs[j].state = "dead" => jobs[j].reason # "none"

(* A late outcome may rewrite a terminal row, but never puts the job back in *)
(* the queue.                                                                *)
NeverRequeued ==
    [][\A j \in Jobs : Terminal(j) => jobs'[j].state \in {"done", "dead"}]_vars

(* I2 as the pool needs it: while leases outlive their attempts, one worker  *)
(* at most is at a job, and it is the one the lease names.                   *)
ExclusiveAttempt ==
    \A w \in Workers : claim[w] # NoClaim /\ claim[w].job \notin CronJobs => HoldsLease(w)

(* I3: attempts are counted exactly once.  The attempts ever handed to a     *)
(* worker are those the row counts plus the one a lease still stands for,    *)
(* whichever step a crash or a store error fell between.                     *)
AttemptsExact ==
    \A j \in Jobs \ CronJobs :
        started[j] = jobs[j].attempts +
            (IF leases[j] # NoLease /\ jobs[j].attempts < leases[j].attempt THEN 1 ELSE 0)

(* A terminal row is never written again.                                    *)
TerminalIsFinal ==
    [][\A j \in Jobs \ CronJobs : Terminal(j) => jobs'[j] = jobs[j]]_vars

(* shutdown waits for jobs in flight, so that no attempt is burned: without  *)
(* faults, a pool that has stopped leaves no lease behind.                   *)
ShutdownLeavesNoLease ==
    Stopped /\ faults = 0 => \A j \in Jobs \ CronJobs : leases[j] = NoLease

(* Every job that was enqueued ends in done or dead, through lost leases,    *)
(* crashes and restarts.                                                     *)
EventuallyTerminal == \A j \in Jobs : jobs[j].state = "queued" ~> Terminal(j)

(* live_state_of: the read view the API, the pool and the tests share.        *)
LiveStateOf(j) ==
    CASE jobs[j].state = "absent" -> "absent"
      [] jobs[j].state = "done" -> "Done"
      [] jobs[j].state = "dead" -> "Dead"
      [] jobs[j].state = "queued" ->
            IF leases[j] # NoLease /\ leases[j].live THEN "Running"
            ELSE IF jobs[j].attempts > 0 THEN "Failed" ELSE "Queued"

Lifecycle == INSTANCE JobLifecycle
                 WITH Jobs <- Jobs \ CronJobs,
                      live <- [j \in Jobs \ CronJobs |-> LiveStateOf(j)]

(* While leases outlive their attempts, the read view of every job follows   *)
(* the frozen contract, reaper, crashes and shutdowns included.              *)
ImplementsLifecycle == Lifecycle!Spec

(* heartbeat's contract: once a beat has found the lease gone, the worker    *)
(* records nothing more for the job.                                         *)
LostLeaseHandsOff ==
    [][\A w \in Workers : wpc[w] = "running" /\ beat[w] = "lost" =>
                            wpc'[w] # "appended"]_vars
=============================================================================
