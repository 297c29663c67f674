-------------------------------- MODULE Cron --------------------------------
(***************************************************************************)
(* The cron driver of pos-sched: registered schedules become jobs.          *)
(*                                                                          *)
(* Durable state is the row of each schedule in proj_crons and the row of   *)
(* each cron job in proj_jobs; a job is keyed by its schedule and the       *)
(* nominal fire instant.  A ticker is the maintenance task of one process   *)
(* (the desktop, a server, or a CLI call that drains the queue): there may  *)
(* be several.  tick reads the clock and all the rows once and works from   *)
(* those copies, so everything a tick carries from one transaction to the   *)
(* next is its own state here.                                              *)
(*                                                                          *)
(* Instants are small numbers; a schedule (expression and zone) is the set  *)
(* of instants it fires at, in Fires.                                       *)
(***************************************************************************)
EXTENDS Integers, FiniteSets, FiniteSetsExt

CONSTANTS
    Crons,         \* cron ids, ordered as their bytes are
    Tickers,       \* processes whose maintenance task ticks this project
    Schedules,     \* parsed (expression, zone) pairs
    Fires,         \* Fires[s]: the instants schedule s fires at
    Policies,      \* Policies[c]: the overlap policies c is registered with
    ScanMax,       \* CRON_CATCHUP_SCAN_COUNT_MAX
    MaxTime,       \* bound: the last instant of a behaviour
    MaxRegisters,  \* MaxRegisters[c]: bound on registrations of c
    MaxToggles,    \* bound: enablement changes
    MaxFaults,     \* bound: ticks cut short by a kill or a store error
    NoRow, NoFire

Instants == 0..MaxTime
JobIds == Crons \X Instants
JobStates == {"absent", "queued", "done", "superseded"}
OverlapPolicies == {"Skip", "CancelPrevious", "Queue"}
Rows == [schedule: Schedules, policy: OverlapPolicies, enabled: BOOLEAN,
         registered: Instants, lastFired: Instants \cup {NoFire}]
Idle == [pc |-> "idle", now |-> 0, rows |-> [c \in Crons |-> NoRow], todo |-> {},
         due |-> NoFire, kill |-> {}, victim |-> NoFire]

ASSUME ConstantsAssumption ==
    /\ IsFiniteSet(Crons) /\ Crons \subseteq Nat
    /\ IsFiniteSet(Tickers)
    /\ Fires \in [Schedules -> SUBSET (1..MaxTime)]
    /\ Policies \in [Crons -> SUBSET OverlapPolicies]
    /\ ScanMax \in Nat \ {0}
    /\ MaxTime \in Nat
    /\ MaxRegisters \in [Crons -> Nat]
    /\ NoRow \notin Rows
    /\ NoFire \notin Instants

VARIABLES
    now,       \* the wall clock
    crons,     \* proj_crons: [Crons -> Rows \cup {NoRow}]
    jobs,      \* the cron jobs of proj_jobs: [JobIds -> JobStates]
    tick,      \* what each ticker carries through its tick
    registers, \* registrations so far, per schedule
    toggles,   \* enablement changes so far
    faults,    \* ticks cut short so far
    crossed    \* history: schedules fired by one tick under the eyes of another

vars == <<now, crons, jobs, tick, registers, toggles, faults, crossed>>

Live(c) == {i \in Instants : jobs[<<c, i>>] = "queued"}

(* watermark_ts_ms: the last firing, or the registration before the first.   *)
Watermark(row) == IF row.lastFired = NoFire THEN row.registered ELSE row.lastFired

(* due_firing: next_fire_after from the watermark, at most ScanMax times;    *)
(* the last instant reached is the one owed.                                 *)
Elapsed(row, at) == {f \in Fires[row.schedule] : Watermark(row) < f /\ f <= at}

DueFiring(row, at) ==
    LET scanned == {f \in Elapsed(row, at) :
                       Cardinality({g \in Elapsed(row, at) : g <= f}) <= ScanMax}
    IN IF scanned = {} THEN NoFire ELSE Max(scanned)

-----------------------------------------------------------------------------
Init ==
    /\ now = 0
    /\ crons = [c \in Crons |-> NoRow]
    /\ jobs = [j \in JobIds |-> "absent"]
    /\ tick = [t \in Tickers |-> Idle]
    /\ registers = [c \in Crons |-> 0]
    /\ toggles = 0
    /\ faults = 0
    /\ crossed = {}

(* register: CronRegistered replaces the whole row.                          *)
RegisteredRow(s, p, e) ==
    [schedule |-> s, policy |-> p, enabled |-> e, registered |-> now, lastFired |-> NoFire]

Register(c, s, p, e) ==
    /\ registers[c] < MaxRegisters[c]
    /\ registers' = [registers EXCEPT ![c] = @ + 1]
    /\ crons' = [crons EXCEPT ![c] = RegisteredRow(s, p, e)]
    /\ UNCHANGED <<now, jobs, tick, toggles, faults, crossed>>

(* CronEnablementSet touches one column of an existing row.                  *)
SetEnabled(c, e) ==
    /\ toggles < MaxToggles
    /\ crons[c] # NoRow
    /\ crons[c].enabled # e
    /\ toggles' = toggles + 1
    /\ crons' = [crons EXCEPT ![c].enabled = e]
    /\ UNCHANGED <<now, jobs, tick, registers, faults, crossed>>

-----------------------------------------------------------------------------
(* tick: the clock and the list of rows, read once.                          *)
TickBegin(t) ==
    LET enabled == {c \in Crons : crons[c] # NoRow /\ crons[c].enabled}
    IN /\ tick[t].pc = "idle"
       /\ enabled # {}
       /\ tick' = [tick EXCEPT ![t] =
                     [Idle EXCEPT !.pc = "next", !.now = now, !.rows = crons, !.todo = enabled]]
       /\ UNCHANGED <<now, crons, jobs, registers, toggles, faults, crossed>>

(* The schedule tick_one is at: rows are visited in the order of their ids.  *)
Current(t) == Min(tick[t].todo)

(* Slip of NextSchedule: the firing is carried over to the next schedule.    *)
NextScheduleCarries(t) ==
    LET rest == tick[t].todo \ {Current(t)}
    IN tick' = [tick EXCEPT ![t] = [@ EXCEPT !.pc = IF rest = {} THEN "idle" ELSE "next",
                                             !.todo = rest]]

(* The tick is through with the current schedule.                            *)
NextSchedule(t) ==
    LET rest == tick[t].todo \ {Current(t)}
    IN tick' = [tick EXCEPT ![t] =
                  IF rest = {} THEN Idle
                  ELSE [@ EXCEPT !.pc = "next", !.todo = rest, !.due = NoFire, !.kill = {}]]

(* Slip of TickOne: Skip does not look for a live job.                       *)
TickOneOverlaps(t) ==
    LET c == Current(t)
        row == tick[t].rows[c]
        due == DueFiring(row, tick[t].now)
    IN /\ tick[t].pc = "next"
       /\ IF due = NoFire THEN NextSchedule(t)
          ELSE tick' = [tick EXCEPT ![t] =
                          [@ EXCEPT !.pc = "fire", !.due = due,
                                    !.kill = IF row.policy = "CancelPrevious"
                                             THEN Live(c) ELSE {}]]
       /\ UNCHANGED <<now, crons, jobs, registers, toggles, faults, crossed>>

(* tick_one up to the overlap policy: nothing owed, an overlap skipped, or a *)
(* firing to enqueue after the live jobs of CancelPrevious are retired.       *)
TickOne(t) ==
    LET c == Current(t)
        row == tick[t].rows[c]
        due == DueFiring(row, tick[t].now)
        skipped == row.policy = "Skip" /\ Live(c) # {}
    IN /\ tick[t].pc = "next"
       /\ \/ /\ due = NoFire \/ skipped
             /\ NextSchedule(t)
          \/ /\ due # NoFire /\ ~skipped
             /\ tick' = [tick EXCEPT ![t] =
                           [@ EXCEPT !.pc = "fire", !.due = due,
                                     !.kill = IF row.policy = "CancelPrevious"
                                              THEN Live(c) ELSE {}]]
       /\ UNCHANGED <<now, crons, jobs, registers, toggles, faults, crossed>>

(* supersede: a job found terminal is left alone; between this read and the  *)
(* append of JobDead the job may still finish, and is overwritten.            *)
SupersedeRead(t, i) ==
    /\ tick[t].pc = "fire"
    /\ i \in tick[t].kill
    /\ tick' = [tick EXCEPT ![t] =
                  IF jobs[<<Current(t), i>>] = "queued"
                  THEN [@ EXCEPT !.pc = "kill", !.kill = tick[t].kill \ {i}, !.victim = i]
                  ELSE [@ EXCEPT !.kill = tick[t].kill \ {i}]]
    /\ UNCHANGED <<now, crons, jobs, registers, toggles, faults, crossed>>

(* Slip of SupersedeAppend: the watermark moves with the retirement.         *)
SupersedeAppendMarks(t) ==
    /\ tick[t].pc = "kill"
    /\ jobs' = [jobs EXCEPT ![<<Current(t), tick[t].victim>>] = "superseded"]
    /\ crons' = [crons EXCEPT ![Current(t)].lastFired = tick[t].due]
    /\ tick' = [tick EXCEPT ![t].pc = "fire", ![t].victim = NoFire]
    /\ UNCHANGED <<now, registers, toggles, faults, crossed>>

SupersedeAppend(t) ==
    /\ tick[t].pc = "kill"
    /\ jobs' = [jobs EXCEPT ![<<Current(t), tick[t].victim>>] = "superseded"]
    /\ tick' = [tick EXCEPT ![t].pc = "fire", ![t].victim = NoFire]
    /\ UNCHANGED <<now, crons, registers, toggles, faults, crossed>>

(* A firing enqueued while another tick still has the schedule to do.         *)
Crosses(t, c) ==
    crossed' = IF \E u \in Tickers \ {t} : c \in tick[u].todo THEN crossed \cup {c} ELSE crossed

(* Slip of Enqueue: the watermark is not part of the append.                 *)
EnqueueLeavesWatermark(t) ==
    LET j == <<Current(t), tick[t].due>>
    IN /\ tick[t].pc = "fire"
       /\ tick[t].kill = {}
       /\ jobs' = [jobs EXCEPT ![j] = IF @ = "absent" THEN "queued" ELSE @]
       /\ Crosses(t, Current(t))
       /\ NextSchedule(t)
       /\ UNCHANGED <<now, crons, registers, toggles, faults>>

(* enqueue: JobEnqueued inserts the job and advances the watermark in one    *)
(* append; an instant that already has its job is a Duplicate and does       *)
(* neither.                                                                  *)
Enqueue(t) ==
    LET c == Current(t)
        j == <<c, tick[t].due>>
    IN /\ tick[t].pc = "fire"
       /\ tick[t].kill = {}
       /\ \/ /\ jobs[j] = "absent"
             /\ jobs' = [jobs EXCEPT ![j] = "queued"]
             /\ crons' = [crons EXCEPT ![c].lastFired = tick[t].due]
             /\ Crosses(t, c)
          \/ /\ jobs[j] # "absent"
             /\ UNCHANGED <<jobs, crons, crossed>>
       /\ NextSchedule(t)
       /\ UNCHANGED <<now, registers, toggles, faults>>

(* A kill or a store error ends the tick, later schedules included.          *)
TickFault(t) ==
    /\ tick[t].pc # "idle"
    /\ faults < MaxFaults
    /\ faults' = faults + 1
    /\ tick' = [tick EXCEPT ![t] = Idle]
    /\ UNCHANGED <<now, crons, jobs, registers, toggles, crossed>>

-----------------------------------------------------------------------------
(* A worker records the outcome of a job (see JobQueue); one that was still  *)
(* at a superseded job overwrites the row.                                   *)
FinishJob(j) ==
    /\ jobs[j] \in {"queued", "superseded"}
    /\ jobs' = [jobs EXCEPT ![j] = "done"]
    /\ UNCHANGED <<now, crons, tick, registers, toggles, faults, crossed>>

Advance ==
    /\ now < MaxTime
    /\ now' = now + 1
    /\ UNCHANGED <<crons, jobs, tick, registers, toggles, faults, crossed>>

TickNext(t) ==
    \/ TickBegin(t)
    \/ TickOne(t)
    \/ \E i \in tick[t].kill : SupersedeRead(t, i)
    \/ SupersedeAppend(t)
    \/ Enqueue(t)

Next ==
    \/ \E c \in Crons, s \in Schedules, e \in BOOLEAN : \E p \in Policies[c] : Register(c, s, p, e)
    \/ \E c \in Crons, e \in BOOLEAN : SetEnabled(c, e)
    \/ \E t \in Tickers : TickNext(t) \/ TickFault(t)
    \/ \E j \in JobIds : FinishJob(j)
    \/ Advance

Spec == Init /\ [][Next]_vars

(* The maintenance task ticks again and again, and handlers return.          *)
FairSpec ==
    /\ Spec
    /\ \A t \in Tickers : WF_vars(TickNext(t))
    /\ \A j \in JobIds : WF_vars(jobs[j] = "queued" /\ FinishJob(j))

-----------------------------------------------------------------------------
(* Types of the rows and of what a tick carries.                             *)
TypeOK ==
    /\ now \in Instants
    /\ crons \in [Crons -> Rows \cup {NoRow}]
    /\ jobs \in [JobIds -> JobStates]
    /\ \A t \in Tickers :
          /\ tick[t].pc \in {"idle", "next", "fire", "kill"}
          /\ tick[t].todo \subseteq {c \in Crons : tick[t].rows[c] # NoRow}
          /\ tick[t].pc # "idle" <=> tick[t].todo # {}
          /\ tick[t].due # NoFire <=> tick[t].pc \in {"fire", "kill"}
          /\ tick[t].victim # NoFire <=> tick[t].pc = "kill"

(* No overlap under Skip and CancelPrevious: a schedule never has two jobs   *)
(* in the queue, whatever ticks are cut short, jobs finish or registrations  *)
(* and enablement change between the reads of a tick and its appends; and    *)
(* once a tick fired it while another tick still had it to do, never more    *)
(* than one for each process that ticks.                                     *)
NoOverlap ==
    \A c \in Crons : "Queue" \notin Policies[c] =>
        Cardinality(Live(c)) <= IF c \in crossed THEN Cardinality(Tickers) ELSE 1

(* The row was not replaced by a second registration, which forgets what the *)
(* schedule owed (WatermarkPreserved below), and no tick fired the schedule  *)
(* with a row that another had made stale.                                   *)
RegisteredOnce(c) == registers[c] <= 1
Uncrossed(c) == c \notin crossed

(* supersede's contract: a job retired by CancelPrevious was replaced by a    *)
(* later firing, or the schedule still owes one, even when the tick died     *)
(* between the retirement and the enqueue, and however the ticks of several  *)
(* processes interleave short of firing the same schedule at once.           *)
SupersededHasSuccessor ==
    \A c \in Crons, i \in Instants : RegisteredOnce(c) /\ Uncrossed(c) /\ jobs[<<c, i>>] = "superseded" =>
        \/ \E k \in Instants : k > i /\ jobs[<<c, k>>] # "absent"
        \/ \E f \in Elapsed(crons[c], now) : f > i

(* An elapsed firing of an enabled schedule does not stay owed: it is fired, *)
(* or collapsed into a later one, or the schedule is disabled, or two ticks  *)
(* fired it at once.                                                         *)
OwedEventuallySettled ==
    \A c \in Crons, f \in Instants :
        (crons[c] # NoRow /\ f \in Elapsed(crons[c], now))
            ~> (crons[c] # NoRow /\ (~crons[c].enabled \/ Watermark(crons[c]) >= f \/ ~Uncrossed(c)))

(* register's contract: re-registering a schedule that has fired keeps     *)
(* its watermark.                                                            *)
WatermarkPreserved ==
    [][\A c \in Crons :
          (crons[c] # NoRow /\ crons[c].lastFired # NoFire /\ registers'[c] # registers[c])
              => Watermark(crons'[c]) = Watermark(crons[c])]_vars
=============================================================================
