--------------------------- MODULE JobQueueProofs ---------------------------
(***************************************************************************)
(* Proofs about JobQueue, for every set of jobs, workers and enqueuers and   *)
(* every retry budget.                                                       *)
(***************************************************************************)
EXTENDS JobQueue, FiniteSetTheorems, TLAPS

(* What the projection writes for a failed attempt is a row.                 *)
LEMMA FailureRowType ==
    ASSUME NEW row \in Rows, NEW max \in Nat, NEW attempt \in Nat,
           NEW permanent \in BOOLEAN, NEW due \in BOOLEAN
    PROVE  FailureRow(row, max, attempt, permanent, due) \in Rows
BY DEF FailureRow, DeadRow, AttemptFailedRow, Rows, DeadReasons

(* JobCompleted writes a row.                                                *)
LEMMA CompletedRowType ==
    ASSUME NEW row \in Rows, NEW attempt \in Nat
    PROVE  CompletedRow(row, attempt) \in Rows
BY DEF CompletedRow, Rows, DeadReasons

(* JobDead writes a row.                                                     *)
LEMMA DeadRowType ==
    ASSUME NEW row \in Rows, NEW attempt \in Nat
    PROVE  DeadRow(row, attempt, "superseded_by_cron") \in Rows
BY DEF DeadRow, Rows, DeadReasons

(* JobEnqueued writes a row.                                                 *)
LEMMA EnqueuedRowType ==
    ASSUME NEW due \in BOOLEAN,
           NEW S \in SUBSET Jobs
    PROVE  EnqueuedRow(1 + Cardinality(S), due) \in Rows
<1>1. IsFiniteSet(S)
  BY FS_Subset, ConstantsAssumption
<1>2. Cardinality(S) \in Nat
  BY <1>1, FS_CardinalityType
<1> QED
  BY <1>2 DEF EnqueuedRow, Rows, DeadReasons

(* The read of the reaper yields claims.                                     *)
LEMMA ExpiredLeasesType ==
    ASSUME TypeOK
    PROVE  ExpiredLeases \subseteq Claims
BY DEF TypeOK, ExpiredLeases, Claims, Leases

(* An opened project has the types.                                          *)
LEMMA InitType == Init => TypeOK
BY ConstantsAssumption DEF Init, TypeOK, Rows, DeadReasons

(* Every step keeps the types, whatever the schedule of lease expiry.        *)
LEMMA TypeStep == TypeOK /\ [Next]_vars => TypeOK'
<1> SUFFICES ASSUME TypeOK, [Next]_vars PROVE TypeOK'
  OBVIOUS
<1> USE ConstantsAssumption
<1>1. ASSUME NEW e \in Enqueuers, NEW j \in Jobs, EnqueueRead(e, j) PROVE TypeOK'
  BY <1>1 DEF TypeOK, EnqueueRead, durable, workers, maint
<1>2. ASSUME NEW e \in Enqueuers, NEW due \in BOOLEAN, EnqueueAppend(e, due) PROVE TypeOK'
  <2> DEFINE S == {k \in Jobs : jobs[k].state # "absent"}
  <2>1. EnqueuedRow(1 + Cardinality(S), due) \in Rows
    BY EnqueuedRowType
  <2>2. admit[e] \in Jobs
    BY <1>2 DEF EnqueueAppend, TypeOK
  <2>3. jobs' \in [Jobs -> Rows] /\ created' \in [Jobs -> Nat]
    BY <1>2, <2>1, <2>2 DEF EnqueueAppend, TypeOK
  <2> QED
    BY <1>2, <2>3 DEF TypeOK, EnqueueAppend, workers, maint
<1>3. ASSUME NEW w \in Workers, NEW j \in Jobs, Claim(w, j) PROVE TypeOK'
  <2>1. jobs[j].attempts + 1 \in Nat
    BY DEF TypeOK, Rows
  <2> QED
    BY <1>3, <2>1 DEF TypeOK, Claim, maint, Claims, Leases
<1>4. ASSUME NEW w \in Workers, WorkerExit(w) PROVE TypeOK'
  BY <1>4 DEF TypeOK, WorkerExit, durable, maint
<1>5. ASSUME NEW w \in Workers, Heartbeat(w) PROVE TypeOK'
  <2>1. claim[w] \in Claims
    BY <1>5 DEF TypeOK, Heartbeat
  <2>2. leases' \in [Jobs -> Leases \cup {NoLease}]
    <3>1. CASE HoldsLease(w)
      <4>1. claim[w].job \in Jobs /\ leases[claim[w].job] \in Leases
        BY <2>1, <3>1 DEF TypeOK, HoldsLease, Claims
      <4>2. [leases[claim[w].job] EXCEPT !.live = TRUE] \in Leases
        BY <4>1 DEF Leases
      <4>3. leases' = [leases EXCEPT ![claim[w].job] = [leases[claim[w].job] EXCEPT !.live = TRUE]]
        BY <1>5, <3>1 DEF Heartbeat
      <4> QED
        BY <4>1, <4>2, <4>3 DEF TypeOK
    <3> QED
      BY <1>5, <3>1 DEF TypeOK, Heartbeat
  <2> QED
    BY <1>5, <2>2 DEF TypeOK, Heartbeat, maint
<1>6. ASSUME NEW w \in Workers, HeartbeatError(w) PROVE TypeOK'
  BY <1>6 DEF TypeOK, HeartbeatError, durable, maint
<1>7. ASSUME NEW w \in Workers, NEW row \in Rows, Finish(w, row) PROVE TypeOK'
  BY <1>7 DEF TypeOK, Finish, maint, Claims
<1>8. ASSUME NEW w \in Workers, Complete(w) PROVE TypeOK'
  <2>1. claim[w] \in Claims
    BY <1>8 DEF TypeOK, Complete, Finish
  <2>2. CompletedRow(jobs[claim[w].job], claim[w].attempt) \in Rows
    BY <2>1, CompletedRowType DEF TypeOK, Claims
  <2> QED
    BY <1>7, <1>8, <2>2 DEF Complete
<1>9. ASSUME NEW w \in Workers, NEW permanent \in BOOLEAN, NEW due \in BOOLEAN,
             Fail(w, permanent, due)
      PROVE TypeOK'
  <2>1. claim[w] \in Claims
    BY <1>9 DEF TypeOK, Fail, Finish
  <2>2. FailureRow(jobs[claim[w].job], RetryMax[claim[w].job], claim[w].attempt, permanent, due)
           \in Rows
    BY <2>1, FailureRowType DEF TypeOK, Claims
  <2> QED
    BY <1>7, <1>9, <2>2 DEF Fail
<1>10. ASSUME NEW w \in Workers, FinishRelease(w) PROVE TypeOK'
  BY <1>10 DEF TypeOK, FinishRelease, ReleaseLease, NextPoll, maint, Claims
<1>11. ASSUME NEW w \in Workers, FinishError(w) PROVE TypeOK'
  BY <1>11 DEF TypeOK, FinishError, NextPoll, durable, maint
<1>12. ASSUME ReapRead PROVE TypeOK'
  BY <1>12, ExpiredLeasesType DEF TypeOK, ReapRead, durable, workers
<1>13. ASSUME NEW c \in todo, ReapCheck(c) PROVE TypeOK'
  BY <1>13 DEF TypeOK, ReapCheck, durable, workers
<1>14. ASSUME NEW due \in BOOLEAN, ReapAppend(due) PROVE TypeOK'
  <2>1. cur \in Claims
    BY <1>14 DEF TypeOK, ReapAppend
  <2>2. FailureRow(jobs[cur.job], RetryMax[cur.job], cur.attempt, FALSE, due) \in Rows
    BY <2>1, FailureRowType DEF TypeOK, Claims
  <2> QED
    BY <1>14, <2>1, <2>2 DEF TypeOK, ReapAppend, workers
<1>15. ASSUME ReapRelease PROVE TypeOK'
  BY <1>15 DEF TypeOK, ReapRelease, ReleaseLease, workers, Claims
<1>16. ASSUME NEW j \in CronJobs, SupersedeRead(j) PROVE TypeOK'
  <2>1. j \in Jobs /\ jobs[j].attempts \in Nat
    BY DEF TypeOK, Rows
  <2> QED
    BY <1>16, <2>1 DEF TypeOK, SupersedeRead, durable, workers, Claims
<1>17. ASSUME SupersedeAppend PROVE TypeOK'
  <2>1. cur \in Claims
    BY <1>17 DEF TypeOK, SupersedeAppend
  <2>2. DeadRow(jobs[cur.job], cur.attempt, "superseded_by_cron") \in Rows
    BY <2>1, DeadRowType DEF TypeOK, Claims
  <2> QED
    BY <1>17, <2>1, <2>2 DEF TypeOK, SupersedeAppend, workers
<1>18. ASSUME SupersedeRelease PROVE TypeOK'
  BY <1>18 DEF TypeOK, SupersedeRelease, ReleaseLease, workers, Claims
<1>19. ASSUME SweepDone PROVE TypeOK'
  BY <1>19 DEF TypeOK, SweepDone, durable, workers
<1>20. ASSUME SweepError PROVE TypeOK'
  BY <1>20 DEF TypeOK, SweepError, durable, workers
<1>21. ASSUME MaintenanceExit PROVE TypeOK'
  BY <1>21 DEF TypeOK, MaintenanceExit, durable, workers
<1>22. ASSUME Shutdown PROVE TypeOK'
  BY <1>22 DEF TypeOK, Shutdown, durable, workers, maint
<1>23. ASSUME Start PROVE TypeOK'
  BY <1>23 DEF TypeOK, Start, FreshPool, durable
<1>24. ASSUME Crash PROVE TypeOK'
  BY <1>24 DEF TypeOK, Crash, FreshPool, durable
<1>25. ASSUME NEW j \in Jobs, BecomeDue(j) PROVE TypeOK'
  <2>0. jobs[j] \in Rows
    BY DEF TypeOK
  <2>1. [jobs[j] EXCEPT !.due = TRUE] \in Rows
    BY <2>0 DEF Rows
  <2>2. jobs' = [jobs EXCEPT ![j] = [jobs[j] EXCEPT !.due = TRUE]]
    BY <1>25 DEF BecomeDue
  <2> QED
    BY <1>25, <2>1, <2>2 DEF TypeOK, BecomeDue, workers, maint
<1>26. ASSUME NEW j \in Jobs, Expire(j) PROVE TypeOK'
  <2>1. leases[j] \in Leases
    BY <1>26 DEF TypeOK, Expire
  <2>2. [leases[j] EXCEPT !.live = FALSE] \in Leases
    BY <2>1 DEF Leases
  <2>3. leases' = [leases EXCEPT ![j] = [leases[j] EXCEPT !.live = FALSE]]
    BY <1>26 DEF Expire
  <2> QED
    BY <1>26, <2>2, <2>3 DEF TypeOK, Expire, workers, maint
<1>27. ASSUME UNCHANGED vars PROVE TypeOK'
  BY <1>27 DEF TypeOK, vars
<1> QED
  BY <1>1, <1>2, <1>3, <1>4, <1>5, <1>6, <1>8, <1>9, <1>10, <1>11, <1>12, <1>13, <1>14,
     <1>15, <1>16, <1>17, <1>18, <1>19, <1>20, <1>21, <1>22, <1>23, <1>24, <1>25, <1>26,
     <1>27
  DEF Next, Steps, EnqueueNext, WorkerNext, MaintenanceNext, ProcessNext

(* The types hold in every behaviour.                                        *)
THEOREM TypeCorrect == Spec => []TypeOK
BY InitType, TypeStep, PTL DEF Spec

-----------------------------------------------------------------------------
(* Whoever holds, reaps or retires a job does so for a row that exists.      *)
KnownJobs ==
    /\ \A w \in Workers : claim[w] # NoClaim => jobs[claim[w].job].state # "absent"
    /\ \A j \in Jobs : leases[j] # NoLease => jobs[j].state # "absent"
    /\ \A c \in todo : jobs[c.job].state # "absent"
    /\ cur # NoClaim => jobs[cur.job].state # "absent"
    /\ \A j \in Jobs : jobs[j].state = "absent" => jobs[j].attempts = 0

SafeInv == TypeOK /\ EnqueuedOnce /\ RetryBudget /\ DeadHasReason /\ KnownJobs

(* What a fact that is not an enqueue does to the row of an existing job.    *)
Outcome(row, new, max) ==
    /\ new.state # "absent"
    /\ row.state \in {"done", "dead"} => new.state \in {"done", "dead"}
    /\ new.state = "queued" => new.attempts <= max
    /\ new.state = "dead" => new.reason # "none"

(* append_failure keeps within the budget and gives a reason to a dead job.  *)
LEMMA FailureOutcome ==
    ASSUME NEW row \in Rows, row.state # "absent", row.state = "dead" => row.reason # "none",
           NEW max \in Nat, NEW attempt \in Nat, NEW permanent \in BOOLEAN, NEW due \in BOOLEAN
    PROVE  Outcome(row, FailureRow(row, max, attempt, permanent, due), max)
BY DEF Outcome, FailureRow, DeadRow, AttemptFailedRow, Rows

(* complete keeps within the budget.                                         *)
LEMMA CompletedOutcome ==
    ASSUME NEW row \in Rows, NEW max \in Nat, NEW attempt \in Nat
    PROVE  Outcome(row, CompletedRow(row, attempt), max)
BY DEF Outcome, CompletedRow, Rows

(* supersede keeps the count of the row and gives a reason.                  *)
LEMMA DeadOutcome ==
    ASSUME NEW row \in Rows, NEW max \in Nat, NEW attempt \in Nat
    PROVE  Outcome(row, DeadRow(row, attempt, "superseded_by_cron"), max)
BY DEF Outcome, DeadRow, Rows

(* A step that rewrites one existing row by such a fact, and neither leases, *)
(* claims nor takes up a job, keeps the invariant.                           *)
LEMMA OutcomeStep ==
    ASSUME SafeInv, NEW j \in Jobs, jobs[j].state # "absent",
           NEW row \in Rows, Outcome(jobs[j], row, RetryMax[j]),
           jobs' = [jobs EXCEPT ![j] = row],
           UNCHANGED <<leases, claim, todo, cur, created>>
    PROVE  EnqueuedOnce' /\ RetryBudget' /\ DeadHasReason' /\ KnownJobs'
<1>1. EnqueuedOnce'
  BY DEF SafeInv, TypeOK, EnqueuedOnce, Outcome
<1>2. RetryBudget'
  BY DEF SafeInv, TypeOK, RetryBudget, Outcome, Rows
<1>3. DeadHasReason'
  BY DEF SafeInv, TypeOK, DeadHasReason, Outcome
<1>4. KnownJobs'
  BY DEF SafeInv, TypeOK, KnownJobs, Outcome, Claims
<1> QED
  BY <1>1, <1>2, <1>3, <1>4

(* A step that leaves the rows alone and at most forgets leases, claims and  *)
(* work in hand keeps it too.                                                *)
LEMMA ForgetStep ==
    ASSUME SafeInv, UNCHANGED <<jobs, created>>,
           \A j \in Jobs : leases'[j] = NoLease \/
               (leases[j] # NoLease /\ leases'[j].attempt = leases[j].attempt),
           \A w \in Workers : claim'[w] \in {NoClaim, claim[w]},
           todo' \subseteq todo,
           cur' \in {NoClaim, cur} \/ cur' \in todo
    PROVE  EnqueuedOnce' /\ RetryBudget' /\ DeadHasReason' /\ KnownJobs'
<1>1. EnqueuedOnce' /\ DeadHasReason'
  BY DEF SafeInv, EnqueuedOnce, DeadHasReason
<1>2. RetryBudget'
  BY DEF SafeInv, TypeOK, RetryBudget
<1>3. KnownJobs'
  BY DEF SafeInv, TypeOK, KnownJobs
<1> QED
  BY <1>1, <1>2, <1>3

(* An opened project satisfies the safety invariant.                         *)
LEMMA InitSafe == Init => SafeInv
BY InitType, ConstantsAssumption
DEF Init, SafeInv, TypeOK, EnqueuedOnce, RetryBudget, DeadHasReason, KnownJobs

(* Every step keeps the safety invariant, lost leases included.              *)
LEMMA SafeStep == SafeInv /\ [Next]_vars => SafeInv'
<1> DEFINE Rest == EnqueuedOnce' /\ RetryBudget' /\ DeadHasReason' /\ KnownJobs'
<1> SUFFICES ASSUME SafeInv, [Next]_vars PROVE Rest
  BY TypeStep DEF SafeInv
<1> USE ConstantsAssumption
<1>0. TypeOK /\ TypeOK'
  BY TypeStep DEF SafeInv
<1>1. ASSUME NEW e \in Enqueuers, NEW j \in Jobs, EnqueueRead(e, j) PROVE Rest
  BY <1>1, ForgetStep DEF EnqueueRead, durable, workers, maint
<1>2. ASSUME NEW e \in Enqueuers, NEW due \in BOOLEAN, EnqueueAppend(e, due) PROVE Rest
  <2>1. CASE jobs[admit[e]].state # "absent"
    BY <1>2, <2>1, ForgetStep DEF EnqueueAppend, workers, maint
  <2>2. CASE jobs[admit[e]].state = "absent"
    <3> DEFINE j == admit[e]
               seq == 1 + Cardinality({k \in Jobs : jobs[k].state # "absent"})
    <3>1. j \in Jobs
      BY <1>0, <1>2 DEF EnqueueAppend, TypeOK
    <3>2. /\ jobs' = [jobs EXCEPT ![j] = EnqueuedRow(seq, due)]
          /\ created' = [created EXCEPT ![j] = @ + 1]
          /\ UNCHANGED <<leases, claim, todo, cur>>
      BY <1>2, <2>2 DEF EnqueueAppend, workers, maint
    <3>3. EnqueuedRow(seq, due).state = "queued" /\ EnqueuedRow(seq, due).attempts = 0
      BY DEF EnqueuedRow
    <3> HIDE DEF seq
    <3>4. EnqueuedOnce' /\ DeadHasReason'
      BY <3>1, <3>2, <3>3, <2>2 DEF SafeInv, TypeOK, EnqueuedOnce, DeadHasReason
    <3>5. RetryBudget'
      BY <3>1, <3>2, <3>3 DEF SafeInv, TypeOK, RetryBudget, Rows
    <3>6. KnownJobs'
      BY <3>1, <3>2, <3>3 DEF SafeInv, TypeOK, KnownJobs, Claims
    <3> QED
      BY <3>4, <3>5, <3>6
  <2> QED
    BY <2>1, <2>2
<1>3. ASSUME NEW w \in Workers, NEW j \in Jobs, Claim(w, j) PROVE Rest
  <2>1. EnqueuedOnce' /\ DeadHasReason'
    BY <1>3 DEF Claim, SafeInv, EnqueuedOnce, DeadHasReason
  <2>2. jobs[j].state = "queued" /\ jobs[j].attempts + 1 <= RetryMax[j] + 1
    BY <1>0, <1>3 DEF Claim, Claimable, SafeInv, RetryBudget, TypeOK, Rows
  <2>3. RetryBudget'
    BY <1>0, <1>3, <2>2 DEF Claim, maint, SafeInv, RetryBudget, TypeOK
  <2>4. KnownJobs'
    BY <1>0, <1>3, <2>2 DEF Claim, maint, SafeInv, KnownJobs, TypeOK
  <2> QED
    BY <2>1, <2>3, <2>4
<1>4. ASSUME NEW w \in Workers, WorkerExit(w) PROVE Rest
  BY <1>4, ForgetStep DEF WorkerExit, durable, maint
<1>5. ASSUME NEW w \in Workers, Heartbeat(w) PROVE Rest
  <2>1. claim[w] \in Claims
    BY <1>0, <1>5 DEF TypeOK, Heartbeat
  <2>2. \A j \in Jobs : leases'[j] = NoLease \/
            (leases[j] # NoLease /\ leases'[j].attempt = leases[j].attempt)
    BY <1>0, <1>5, <2>1 DEF TypeOK, Heartbeat, HoldsLease, Leases, Claims
  <2> QED
    BY <1>5, <2>2, ForgetStep DEF Heartbeat, maint
<1>6. ASSUME NEW w \in Workers, HeartbeatError(w) PROVE Rest
  BY <1>6, ForgetStep DEF HeartbeatError, durable, maint
<1>7. ASSUME NEW w \in Workers, Complete(w) PROVE Rest
  <2>1. claim[w] \in Claims /\ jobs[claim[w].job].state # "absent"
    BY <1>0, <1>7 DEF TypeOK, Complete, Finish, SafeInv, KnownJobs
  <2>2. claim[w].job \in Jobs /\ claim[w].attempt \in Nat /\ jobs[claim[w].job] \in Rows
    BY <1>0, <2>1 DEF TypeOK, Claims
  <2> QED
    BY <1>7, <2>1, <2>2, CompletedRowType, CompletedOutcome, OutcomeStep
    DEF Complete, Finish, maint
<1>8. ASSUME NEW w \in Workers, NEW permanent \in BOOLEAN, NEW due \in BOOLEAN,
             Fail(w, permanent, due)
      PROVE Rest
  <2>1. claim[w] \in Claims /\ jobs[claim[w].job].state # "absent"
    BY <1>0, <1>8 DEF TypeOK, Fail, Finish, SafeInv, KnownJobs
  <2>2. claim[w].job \in Jobs /\ claim[w].attempt \in Nat /\ jobs[claim[w].job] \in Rows
    BY <1>0, <2>1 DEF TypeOK, Claims
  <2>3. jobs[claim[w].job].state = "dead" => jobs[claim[w].job].reason # "none"
    BY <2>2 DEF SafeInv, DeadHasReason
  <2> QED
    BY <1>8, <2>1, <2>2, <2>3, FailureRowType, FailureOutcome, OutcomeStep
    DEF Fail, Finish, maint
<1>9. ASSUME NEW w \in Workers, FinishRelease(w) PROVE Rest
  BY <1>0, <1>9, ForgetStep DEF TypeOK, FinishRelease, ReleaseLease, maint
<1>10. ASSUME NEW w \in Workers, FinishError(w) PROVE Rest
  BY <1>0, <1>10, ForgetStep DEF TypeOK, FinishError, durable, maint
<1>11. ASSUME ReapRead PROVE Rest
  <2>1. EnqueuedOnce' /\ DeadHasReason'
    BY <1>11 DEF ReapRead, durable, SafeInv, EnqueuedOnce, DeadHasReason
  <2>2. \A c \in todo' : c.job \in Jobs /\ leases[c.job] # NoLease /\ c.attempt = leases[c.job].attempt
    BY <1>11 DEF ReapRead, ExpiredLeases
  <2>3. RetryBudget'
    BY <1>11, <2>2 DEF ReapRead, durable, workers, SafeInv, RetryBudget
  <2>4. KnownJobs'
    BY <1>11, <2>2 DEF ReapRead, durable, workers, SafeInv, KnownJobs
  <2> QED
    BY <2>1, <2>3, <2>4
<1>12. ASSUME NEW c \in todo, ReapCheck(c) PROVE Rest
  BY <1>12, ForgetStep DEF ReapCheck, durable, workers
<1>13. ASSUME NEW due \in BOOLEAN, ReapAppend(due) PROVE Rest
  <2>1. cur \in Claims /\ jobs[cur.job].state # "absent"
    BY <1>0, <1>13 DEF TypeOK, ReapAppend, SafeInv, KnownJobs
  <2>2. cur.job \in Jobs /\ cur.attempt \in Nat /\ jobs[cur.job] \in Rows
    BY <1>0, <2>1 DEF TypeOK, Claims
  <2>3. jobs[cur.job].state = "dead" => jobs[cur.job].reason # "none"
    BY <2>2 DEF SafeInv, DeadHasReason
  <2> QED
    BY <1>13, <2>1, <2>2, <2>3, FailureRowType, FailureOutcome, OutcomeStep
    DEF ReapAppend, workers
<1>14. ASSUME ReapRelease \/ SupersedeRelease PROVE Rest
  BY <1>0, <1>14, ForgetStep DEF TypeOK, ReapRelease, SupersedeRelease, ReleaseLease, workers
<1>15. ASSUME NEW j \in CronJobs, SupersedeRead(j) PROVE Rest
  <2>1. EnqueuedOnce' /\ DeadHasReason' /\ RetryBudget'
    BY <1>15 DEF SupersedeRead, durable, workers, SafeInv, EnqueuedOnce, DeadHasReason, RetryBudget
  <2>2. KnownJobs'
    BY <1>15 DEF SupersedeRead, durable, workers, SafeInv, KnownJobs
  <2> QED
    BY <2>1, <2>2
<1>16. ASSUME SupersedeAppend PROVE Rest
  <2>1. cur \in Claims /\ jobs[cur.job].state # "absent"
    BY <1>0, <1>16 DEF TypeOK, SupersedeAppend, SafeInv, KnownJobs
  <2>2. cur.job \in Jobs /\ cur.attempt \in Nat /\ jobs[cur.job] \in Rows
    BY <1>0, <2>1 DEF TypeOK, Claims
  <2> QED
    BY <1>16, <2>1, <2>2, DeadRowType, DeadOutcome, OutcomeStep DEF SupersedeAppend, workers
<1>17. ASSUME SweepDone \/ MaintenanceExit \/ Shutdown \/ SweepError PROVE Rest
  BY <1>17, ForgetStep
  DEF SweepDone, MaintenanceExit, Shutdown, SweepError, durable, workers, maint
<1>18. ASSUME Start \/ Crash PROVE Rest
  BY <1>18, ForgetStep DEF Start, Crash, FreshPool, durable
<1>19. ASSUME NEW j \in Jobs, BecomeDue(j) PROVE Rest
  <2>1. jobs[j] \in Rows /\ jobs[j].state = "queued" /\ [jobs[j] EXCEPT !.due = TRUE] \in Rows
    BY <1>0, <1>19 DEF BecomeDue, TypeOK, Rows
  <2>2. jobs[j].attempts <= RetryMax[j]
    BY <2>1 DEF SafeInv, RetryBudget
  <2>3. Outcome(jobs[j], [jobs[j] EXCEPT !.due = TRUE], RetryMax[j])
    BY <2>1, <2>2 DEF Outcome, Rows
  <2>4. jobs' = [jobs EXCEPT ![j] = [jobs[j] EXCEPT !.due = TRUE]]
    BY <1>19 DEF BecomeDue
  <2> QED
    BY <1>19, <2>1, <2>3, <2>4, OutcomeStep DEF BecomeDue, workers, maint
<1>20. ASSUME NEW j \in Jobs, Expire(j) PROVE Rest
  <2>1. \A k \in Jobs : leases'[k] = NoLease \/
            (leases[k] # NoLease /\ leases'[k].attempt = leases[k].attempt)
    BY <1>0, <1>20 DEF TypeOK, Expire, Leases
  <2> QED
    BY <1>20, <2>1, ForgetStep DEF Expire, workers, maint
<1>21. ASSUME UNCHANGED vars PROVE Rest
  BY <1>21, ForgetStep DEF vars
<1> QED
  BY <1>1, <1>2, <1>3, <1>4, <1>5, <1>6, <1>7, <1>8, <1>9, <1>10, <1>11, <1>12, <1>13, <1>14,
     <1>15, <1>16, <1>17, <1>18, <1>19, <1>20, <1>21
  DEF Next, Steps, EnqueueNext, WorkerNext, MaintenanceNext, ProcessNext

(* I1, the retry budget and I5 hold in every behaviour, lost leases included. *)
THEOREM QueueSafe == Spec => [](EnqueuedOnce /\ RetryBudget /\ DeadHasReason)
<1>1. SafeInv => EnqueuedOnce /\ RetryBudget /\ DeadHasReason
  BY DEF SafeInv
<1> QED
  BY <1>1, InitSafe, SafeStep, PTL DEF Spec

-----------------------------------------------------------------------------
(* The argument for timely leases.  A worker at a job is named by a live     *)
(* lease for its attempt, which the row has not counted while the handler    *)
(* runs and has counted once the fact is in.                                 *)
WorkerInv ==
    \A w \in Workers : claim[w] # NoClaim /\ claim[w].job \notin CronJobs =>
        LET j == claim[w].job
        IN /\ leases[j] # NoLease
           /\ leases[j].worker = w
           /\ leases[j].attempt = claim[w].attempt
           /\ leases[j].live
           /\ wpc[w] = "running" => jobs[j].state = "queued" /\ jobs[j].attempts + 1 = claim[w].attempt
           /\ wpc[w] = "appended" => jobs[j].attempts = claim[w].attempt

(* A lease stands for the attempt counted last or for the next one.          *)
LeaseInv ==
    \A j \in Jobs \ CronJobs : leases[j] # NoLease =>
        /\ jobs[j].attempts # leases[j].attempt =>
              jobs[j].state = "queued" /\ jobs[j].attempts + 1 = leases[j].attempt
        /\ faults = 0 => claim[leases[j].worker] # NoClaim /\ claim[leases[j].worker].job = j

(* What the reaper has read is still so when it acts on it.                  *)
Stale(c) == leases[c.job] # NoLease /\ leases[c.job].attempt = c.attempt /\ ~leases[c.job].live

ReaperInv ==
    /\ \A c \in todo : c.job \notin CronJobs =>
          /\ Stale(c)
          /\ cur # NoClaim => c.job # cur.job
    /\ mpc \in {"supersedeAppend", "supersedeRelease"} => cur.job \in CronJobs
    /\ cur # NoClaim /\ cur.job \notin CronJobs =>
          /\ Stale(cur)
          /\ mpc = "reapAppend" => jobs[cur.job].state = "queued" /\ jobs[cur.job].attempts + 1 = cur.attempt
          /\ mpc = "reapRelease" => jobs[cur.job].attempts = cur.attempt

TimelyInv == SafeInv /\ WorkerInv /\ LeaseInv /\ ReaperInv /\ AttemptsExact

(* An opened project satisfies the timely invariant.                         *)
LEMMA InitTimely == Init => TimelyInv
BY InitSafe, ConstantsAssumption
DEF Init, TimelyInv, TypeOK, WorkerInv, LeaseInv, ReaperInv, AttemptsExact

(* The fact of a failed attempt counts it, and ends the job or leaves its    *)
(* state alone.                                                              *)
LEMMA FailureCounts ==
    ASSUME NEW row \in Rows, NEW max \in Nat, NEW attempt \in Nat,
           NEW permanent \in BOOLEAN, NEW due \in BOOLEAN
    PROVE  FailureRow(row, max, attempt, permanent, due).attempts = attempt
BY DEF FailureRow, DeadRow, AttemptFailedRow, Rows

(* JobCompleted counts the attempt and ends the job.                         *)
LEMMA CompletedCounts ==
    ASSUME NEW row \in Rows, NEW attempt \in Nat
    PROVE  CompletedRow(row, attempt).attempts = attempt
BY DEF CompletedRow, Rows

(* A worker's fact for the attempt its lease stands for.                     *)
LEMMA FinishStep ==
    ASSUME TimelyInv, TypeOK', NEW w \in Workers, NEW row \in Rows, Finish(w, row),
           row.attempts = claim[w].attempt
    PROVE  WorkerInv' /\ LeaseInv' /\ ReaperInv' /\ AttemptsExact'
<1> DEFINE j == claim[w].job
<1>0. TypeOK /\ claim[w] # NoClaim /\ j \in Jobs /\ claim[w].attempt \in Nat
  BY DEF TimelyInv, SafeInv, TypeOK, Finish, Claims
<1>1. /\ jobs' = [jobs EXCEPT ![j] = row]
      /\ wpc' = [wpc EXCEPT ![w] = "appended"]
      /\ wpc[w] = "running"
      /\ UNCHANGED <<leases, claim, mpc, todo, cur, faults, started>>
  BY DEF Finish, maint
<1>2. j \notin CronJobs => /\ leases[j] # NoLease /\ leases[j].worker = w /\ leases[j].live
                           /\ leases[j].attempt = claim[w].attempt
                           /\ jobs[j].attempts + 1 = claim[w].attempt
  BY <1>0, <1>1 DEF TimelyInv, WorkerInv
<1>3. WorkerInv'
  BY <1>0, <1>1, <1>2 DEF TimelyInv, WorkerInv, TypeOK
<1>4. LeaseInv'
  BY <1>0, <1>1, <1>2 DEF TimelyInv, LeaseInv, TypeOK
<1>5. ReaperInv'
  BY <1>0, <1>1, <1>2 DEF TimelyInv, ReaperInv, Stale, TypeOK, Claims
<1>6. AttemptsExact'
  BY <1>0, <1>1, <1>2 DEF TimelyInv, AttemptsExact, TypeOK, Rows, Leases
<1> QED
  BY <1>3, <1>4, <1>5, <1>6

(* Every step keeps the timely invariant while leases outlive attempts.      *)
LEMMA TimelyStep == TimelyInv /\ [TimelyNext]_vars => TimelyInv'
<1> DEFINE Rest == WorkerInv' /\ LeaseInv' /\ ReaperInv' /\ AttemptsExact'
<1> SUFFICES ASSUME TimelyInv, [TimelyNext]_vars PROVE Rest
  BY SafeStep DEF TimelyInv, TimelyNext, Next
<1> USE ConstantsAssumption
<1>0. TypeOK /\ TypeOK' /\ SafeInv
  BY SafeStep DEF TimelyInv, TimelyNext, Next, SafeInv
<1>1. ASSUME NEW e \in Enqueuers, NEW j \in Jobs, EnqueueRead(e, j) PROVE Rest
  BY <1>1 DEF EnqueueRead, durable, workers, maint, TimelyInv, WorkerInv, LeaseInv, ReaperInv,
              Stale, AttemptsExact
<1>2. ASSUME NEW e \in Enqueuers, NEW due \in BOOLEAN, EnqueueAppend(e, due) PROVE Rest
  <2> DEFINE j == admit[e]
  <2>1. j \in Jobs
    BY <1>0, <1>2 DEF EnqueueAppend, TypeOK
  <2>2. UNCHANGED <<leases, wpc, claim, mpc, todo, cur, faults, started>>
    BY <1>2 DEF EnqueueAppend, workers, maint
  <2>3. CASE jobs[j].state # "absent"
    <3>1. UNCHANGED jobs
      BY <1>2, <2>3 DEF EnqueueAppend
    <3> QED
      BY <2>2, <3>1 DEF TimelyInv, WorkerInv, LeaseInv, ReaperInv, Stale, AttemptsExact
  <2>4. CASE jobs[j].state = "absent"
    <3>1. \A k \in Jobs : k # j => jobs'[k] = jobs[k]
      BY <1>0, <1>2, <2>1 DEF EnqueueAppend, TypeOK
    <3>2. /\ leases[j] = NoLease
          /\ \A w \in Workers : claim[w] # NoClaim => claim[w].job # j
          /\ cur # NoClaim => cur.job # j
      BY <1>0, <2>1, <2>4 DEF SafeInv, KnownJobs
    <3>3. jobs'[j].attempts = 0 /\ jobs[j].attempts = 0
      BY <1>0, <1>2, <2>1, <2>4 DEF EnqueueAppend, EnqueuedRow, TypeOK, SafeInv, KnownJobs
    <3>4. WorkerInv' /\ LeaseInv'
      BY <1>0, <2>2, <3>1, <3>2 DEF TimelyInv, WorkerInv, LeaseInv, TypeOK, Claims
    <3>5. ReaperInv'
      BY <1>0, <2>2, <3>1, <3>2 DEF TimelyInv, ReaperInv, Stale, TypeOK, Claims
    <3>6. AttemptsExact'
      BY <1>0, <2>1, <2>2, <3>1, <3>2, <3>3 DEF TimelyInv, AttemptsExact, TypeOK, Rows
    <3> QED
      BY <3>4, <3>5, <3>6
  <2> QED
    BY <2>3, <2>4
<1>3. ASSUME NEW w \in Workers, NEW j \in Jobs, Claim(w, j) PROVE Rest
  <2>1. /\ leases[j] = NoLease /\ jobs[j].state = "queued" /\ jobs[j].attempts \in Nat
        /\ claim[w] = NoClaim
    BY <1>0, <1>3 DEF Claim, Claimable, TypeOK, Rows
  <2>2. /\ leases' = [leases EXCEPT ![j] =
              [worker |-> w, attempt |-> jobs[j].attempts + 1, live |-> TRUE]]
        /\ claim' = [claim EXCEPT ![w] = [job |-> j, attempt |-> jobs[j].attempts + 1]]
        /\ wpc' = [wpc EXCEPT ![w] = "running"]
        /\ started' = [started EXCEPT ![j] = @ + 1]
        /\ UNCHANGED <<jobs, mpc, todo, cur, faults>>
    BY <1>3 DEF Claim, maint
  <2>2a. leases'[j] # NoLease
    <3>1. [worker |-> w, attempt |-> jobs[j].attempts + 1, live |-> TRUE] \in Leases
      BY <2>1 DEF Leases
    <3>2. leases'[j] \in Leases
      BY <1>0, <2>2, <3>1 DEF TypeOK
    <3> QED
      BY <3>2
  <2>3. WorkerInv'
    <3>2. \A v \in Workers : v # w => wpc'[v] = wpc[v] /\ claim'[v] = claim[v]
      BY <1>0, <2>2 DEF TypeOK
    <3>3. \A k \in Jobs : k # j => leases'[k] = leases[k]
      BY <1>0, <2>2 DEF TypeOK
    <3>4. \A v \in Workers : claim[v] # NoClaim /\ claim[v].job \notin CronJobs =>
              claim[v].job \in Jobs /\ claim[v].job # j
      BY <1>0, <2>1 DEF TimelyInv, WorkerInv, TypeOK, Claims
    <3>5. /\ claim'[w] = [job |-> j, attempt |-> jobs[j].attempts + 1]
          /\ leases'[j] = [worker |-> w, attempt |-> jobs[j].attempts + 1, live |-> TRUE]
          /\ wpc'[w] = "running"
      BY <1>0, <2>2 DEF TypeOK
    <3> QED
      BY <2>1, <2>2, <2>2a, <3>2, <3>3, <3>4, <3>5 DEF TimelyInv, WorkerInv
  <2>4. LeaseInv'
    BY <1>0, <2>1, <2>2 DEF TimelyInv, LeaseInv, TypeOK, Claims, Leases
  <2>5. ReaperInv'
    BY <1>0, <2>1, <2>2 DEF TimelyInv, ReaperInv, Stale, TypeOK, Claims
  <2>6. AttemptsExact'
    <3>2. \A k \in Jobs : k # j => leases'[k] = leases[k] /\ started'[k] = started[k]
      BY <1>0, <2>2 DEF TypeOK
    <3>3. leases'[j].attempt = jobs[j].attempts + 1 /\ started'[j] = started[j] + 1
      BY <1>0, <2>2 DEF TypeOK
    <3> QED
      BY <1>0, <2>1, <2>2, <2>2a, <3>2, <3>3 DEF TimelyInv, AttemptsExact, TypeOK, Rows
  <2> QED
    BY <2>3, <2>4, <2>5, <2>6
<1>4. ASSUME NEW w \in Workers, WorkerExit(w) PROVE Rest
  <2>1. claim[w] = NoClaim
    BY <1>0, <1>4 DEF WorkerExit, TypeOK
  <2> QED
    BY <1>0, <1>4, <2>1 DEF WorkerExit, durable, maint, TimelyInv, WorkerInv, LeaseInv,
       ReaperInv, Stale, AttemptsExact, TypeOK
<1>5. ASSUME NEW w \in Workers, Heartbeat(w) PROVE Rest
  <2>1. claim[w] \in Claims /\ claim[w].job \in Jobs
    BY <1>0, <1>5 DEF TypeOK, Heartbeat, Claims
  <2>2. UNCHANGED <<jobs, wpc, claim, mpc, todo, cur, faults, started>>
    BY <1>5 DEF Heartbeat, maint
  <2>3. \A j \in Jobs \ CronJobs : leases'[j] = leases[j]
    <3>1. CASE HoldsLease(w) /\ claim[w].job \notin CronJobs
      <4>1. leases[claim[w].job].live /\ leases[claim[w].job] \in Leases
        BY <1>0, <2>1, <3>1 DEF TimelyInv, WorkerInv, TypeOK
      <4>2. [leases[claim[w].job] EXCEPT !.live = TRUE] = leases[claim[w].job]
        BY <4>1 DEF Leases
      <4>3. leases' = [leases EXCEPT ![claim[w].job] = [leases[claim[w].job] EXCEPT !.live = TRUE]]
        BY <1>5, <3>1 DEF Heartbeat
      <4> QED
        BY <1>0, <4>2, <4>3, <2>1 DEF TypeOK
    <3> QED
      BY <1>0, <1>5, <2>1, <3>1 DEF Heartbeat, TypeOK
  <2>4. WorkerInv' /\ LeaseInv'
    BY <1>0, <2>2, <2>3 DEF TimelyInv, WorkerInv, LeaseInv, TypeOK, Claims
  <2>5. ReaperInv' /\ AttemptsExact'
    BY <1>0, <2>2, <2>3 DEF TimelyInv, ReaperInv, Stale, AttemptsExact, TypeOK, Claims
  <2> QED
    BY <2>4, <2>5
<1>6. ASSUME NEW w \in Workers, HeartbeatError(w) PROVE Rest
  BY <1>0, <1>6 DEF HeartbeatError, durable, maint, TimelyInv, WorkerInv, LeaseInv, ReaperInv,
     Stale, AttemptsExact, TypeOK
<1>7. ASSUME NEW w \in Workers, Complete(w) PROVE Rest
  <2>1. claim[w].attempt \in Nat /\ jobs[claim[w].job] \in Rows
    BY <1>0, <1>7 DEF TypeOK, Complete, Finish, Claims
  <2> QED
    BY <1>0, <1>7, <2>1, CompletedRowType, CompletedCounts, FinishStep DEF Complete
<1>8. ASSUME NEW w \in Workers, NEW permanent \in BOOLEAN, NEW due \in BOOLEAN,
             Fail(w, permanent, due)
      PROVE Rest
  <2>1. claim[w].attempt \in Nat /\ jobs[claim[w].job] \in Rows /\ RetryMax[claim[w].job] \in Nat
    BY <1>0, <1>8 DEF TypeOK, Fail, Finish, Claims
  <2> DEFINE row == FailureRow(jobs[claim[w].job], RetryMax[claim[w].job], claim[w].attempt,
                               permanent, due)
  <2>2. row \in Rows
    BY <2>1, FailureRowType
  <2>3. row.attempts = claim[w].attempt
    BY <2>1, FailureCounts
  <2>4. Finish(w, row)
    BY <1>8 DEF Fail
  <2> HIDE DEF row
  <2> QED
    BY <1>0, <2>2, <2>3, <2>4, FinishStep
<1>9. ASSUME NEW w \in Workers, FinishRelease(w) PROVE Rest
  <2> DEFINE j == claim[w].job
  <2>1. claim[w] # NoClaim /\ j \in Jobs
    BY <1>0, <1>9 DEF TypeOK, FinishRelease, Claims
  <2>2. /\ leases' = [leases EXCEPT ![j] = NoLease]
        /\ claim' = [claim EXCEPT ![w] = NoClaim]
        /\ \A v \in Workers : v # w => wpc'[v] = wpc[v]
        /\ UNCHANGED <<jobs, mpc, todo, cur, faults, started>>
    BY <1>0, <1>9 DEF FinishRelease, ReleaseLease, maint, TypeOK
  <2>3. j \notin CronJobs => /\ leases[j].worker = w /\ leases[j].live /\ leases[j] # NoLease
                             /\ jobs[j].attempts = leases[j].attempt
    BY <1>0, <1>9, <2>1 DEF FinishRelease, TimelyInv, WorkerInv
  <2>4. WorkerInv'
    BY <1>0, <2>1, <2>2, <2>3 DEF TimelyInv, WorkerInv, TypeOK, Claims
  <2>5. LeaseInv'
    BY <1>0, <2>1, <2>2, <2>3 DEF TimelyInv, LeaseInv, TypeOK, Claims, Leases
  <2>6. ReaperInv'
    BY <1>0, <2>1, <2>2, <2>3 DEF TimelyInv, ReaperInv, Stale, TypeOK, Claims
  <2>7. AttemptsExact'
    BY <1>0, <2>1, <2>2, <2>3 DEF TimelyInv, AttemptsExact, TypeOK, Rows, Leases
  <2> QED
    BY <2>4, <2>5, <2>6, <2>7
<1>10. ASSUME NEW w \in Workers, FinishError(w) PROVE Rest
  <2>1. /\ claim' = [claim EXCEPT ![w] = NoClaim]
        /\ \A v \in Workers : v # w => wpc'[v] = wpc[v]
        /\ faults' # 0
        /\ UNCHANGED <<jobs, leases, mpc, todo, cur, started>>
    BY <1>0, <1>10 DEF FinishError, durable, maint, TypeOK
  <2>2. WorkerInv' /\ LeaseInv'
    BY <1>0, <2>1 DEF TimelyInv, WorkerInv, LeaseInv, TypeOK
  <2>3. ReaperInv' /\ AttemptsExact'
    BY <1>0, <2>1 DEF TimelyInv, ReaperInv, Stale, AttemptsExact
  <2> QED
    BY <2>2, <2>3
<1>11. ASSUME ReapRead PROVE Rest
  <2>1. cur = NoClaim /\ UNCHANGED <<jobs, leases, wpc, claim, cur, faults, started>>
    BY <1>0, <1>11 DEF ReapRead, durable, workers, TypeOK
  <2>2. \A c \in todo' : Stale(c)
    BY <1>11 DEF ReapRead, ExpiredLeases, Stale
  <2>3. mpc' \in {"cron", "reap"}
    BY <1>11 DEF ReapRead
  <2> QED
    BY <2>1, <2>2, <2>3 DEF TimelyInv, WorkerInv, LeaseInv, ReaperInv, Stale, AttemptsExact
<1>12. ASSUME NEW c \in todo, ReapCheck(c) PROVE Rest
  <2>1. /\ UNCHANGED <<jobs, leases, wpc, claim, faults, started>>
        /\ cur' = c /\ todo' = todo \ {c}
        /\ mpc' = IF jobs[c.job].state = "queued" /\ jobs[c.job].attempts < c.attempt
                  THEN "reapAppend" ELSE "reapRelease"
    BY <1>12 DEF ReapCheck, durable, workers
  <2>2. c.job \in Jobs /\ c.attempt \in Nat /\ jobs[c.job].attempts \in Nat
    BY <1>0 DEF TypeOK, Claims, Rows
  <2>3. c.job \notin CronJobs =>
          /\ Stale(c)
          /\ mpc' = "reapAppend" => jobs[c.job].state = "queued" /\ jobs[c.job].attempts + 1 = c.attempt
          /\ mpc' = "reapRelease" => jobs[c.job].attempts = c.attempt
    BY <1>0, <2>1, <2>2 DEF TimelyInv, ReaperInv, Stale, LeaseInv
  <2>4. \A d \in todo' : d.job \notin CronJobs => Stale(d) /\ d.job # c.job
    <3> SUFFICES ASSUME NEW d \in todo', d.job \notin CronJobs PROVE Stale(d) /\ d.job # c.job
      OBVIOUS
    <3>1. d \in todo /\ d # c /\ Stale(d)
      BY <2>1 DEF TimelyInv, ReaperInv
    <3>2. ASSUME d.job = c.job PROVE FALSE
      <4>1. d.attempt = c.attempt
        BY <2>3, <3>1, <3>2 DEF Stale
      <4> QED
        BY <1>0, <3>1, <3>2, <4>1 DEF TypeOK, Claims
    <3> QED
      BY <3>1, <3>2
  <2>5. ReaperInv'
    BY <1>0, <2>1, <2>3, <2>4 DEF ReaperInv, Stale
  <2> QED
    BY <2>1, <2>5 DEF TimelyInv, WorkerInv, LeaseInv, AttemptsExact
<1>13. ASSUME NEW due \in BOOLEAN, ReapAppend(due) PROVE Rest
  <2> DEFINE j == cur.job
  <2>1. cur \in Claims /\ j \in Jobs /\ cur.attempt \in Nat /\ jobs[j] \in Rows /\ cur # NoClaim
    BY <1>0, <1>13 DEF TypeOK, ReapAppend, Claims
  <2>2. /\ \A k \in Jobs : k # j => jobs'[k] = jobs[k]
        /\ jobs'[j].attempts = cur.attempt
        /\ mpc' = "reapRelease"
        /\ UNCHANGED <<leases, wpc, claim, todo, cur, faults, started>>
    <3> DEFINE row == FailureRow(jobs[j], RetryMax[j], cur.attempt, FALSE, due)
    <3>1. row.attempts = cur.attempt
      BY <2>1 DEF FailureRow, DeadRow, AttemptFailedRow, Rows
    <3>2. jobs' = [jobs EXCEPT ![j] = row]
      BY <1>13 DEF ReapAppend
    <3> HIDE DEF row
    <3>3. jobs \in [Jobs -> Rows]
      BY <1>0 DEF TypeOK
    <3>4. /\ \A k \in Jobs : k # j => jobs'[k] = jobs[k]
          /\ jobs'[j].attempts = cur.attempt
      BY <2>1, <3>1, <3>2, <3>3
    <3>5. /\ mpc' = "reapRelease"
          /\ UNCHANGED <<leases, wpc, claim, todo, cur, faults, started>>
      BY <1>13 DEF ReapAppend, workers
    <3> QED
      BY <3>4, <3>5
  <2>3. j \notin CronJobs => Stale(cur) /\ jobs[j].attempts + 1 = cur.attempt
    BY <1>13, <2>1 DEF TimelyInv, ReaperInv, ReapAppend
  <2>4. \A w \in Workers : claim[w] # NoClaim /\ claim[w].job = j => j \in CronJobs
    BY <2>3 DEF TimelyInv, WorkerInv, Stale
  <2>5a. WorkerInv'
    BY <1>0, <2>1, <2>2, <2>4 DEF TimelyInv, WorkerInv, TypeOK, Claims
  <2>5. LeaseInv'
    BY <1>0, <2>1, <2>2, <2>3 DEF TimelyInv, LeaseInv, Stale
  <2>6. ReaperInv'
    BY <1>0, <2>1, <2>2, <2>3 DEF TimelyInv, ReaperInv, Stale, TypeOK, Claims
  <2>7. AttemptsExact'
    <3> SUFFICES ASSUME NEW k \in Jobs \ CronJobs
                 PROVE  started'[k] = jobs'[k].attempts +
                          (IF leases'[k] # NoLease /\ jobs'[k].attempts < leases'[k].attempt
                           THEN 1 ELSE 0)
      BY DEF AttemptsExact
    <3>1. started[k] = jobs[k].attempts +
             (IF leases[k] # NoLease /\ jobs[k].attempts < leases[k].attempt THEN 1 ELSE 0)
      BY DEF TimelyInv, AttemptsExact
    <3>2. CASE k # j
      BY <2>2, <3>1, <3>2
    <3>3. CASE k = j
      <4>1. leases[j] # NoLease /\ leases[j].attempt = cur.attempt /\ jobs[j].attempts + 1 = cur.attempt
        BY <2>3, <3>3 DEF Stale
      <4>2. jobs[j].attempts \in Nat
        BY <2>1 DEF Rows
      <4> QED
        BY <2>1, <2>2, <3>1, <3>3, <4>1, <4>2
    <3> QED
      BY <3>2, <3>3
  <2> QED
    BY <2>5a, <2>5, <2>6, <2>7
<1>14. ASSUME ReapRelease \/ SupersedeRelease PROVE Rest
  <2> DEFINE j == cur.job
  <2>1. cur \in Claims /\ j \in Jobs /\ cur # NoClaim
    BY <1>0, <1>14 DEF TypeOK, ReapRelease, SupersedeRelease, Claims
  <2>2. /\ leases' = [leases EXCEPT ![j] = NoLease]
        /\ cur' = NoClaim
        /\ mpc' \in {"cron", "reap"}
        /\ UNCHANGED <<jobs, wpc, claim, todo, faults, started>>
    BY <1>14 DEF ReapRelease, SupersedeRelease, ReleaseLease, workers
  <2>3. j \notin CronJobs => Stale(cur) /\ jobs[j].attempts = cur.attempt
    BY <1>14, <2>1 DEF TimelyInv, ReaperInv, ReapRelease, SupersedeRelease
  <2>4. \A w \in Workers : claim[w] # NoClaim /\ claim[w].job = j => j \in CronJobs
    BY <2>3 DEF TimelyInv, WorkerInv, Stale
  <2>5. WorkerInv' /\ LeaseInv'
    BY <1>0, <2>1, <2>2, <2>4 DEF TimelyInv, WorkerInv, LeaseInv, TypeOK, Claims
  <2>6. ReaperInv'
    BY <1>0, <2>1, <2>2 DEF TimelyInv, ReaperInv, Stale, TypeOK, Claims
  <2>7. AttemptsExact'
    BY <1>0, <2>1, <2>2, <2>3 DEF TimelyInv, AttemptsExact, Stale, TypeOK, Rows, Leases
  <2> QED
    BY <2>5, <2>6, <2>7
<1>15. ASSUME NEW j \in CronJobs, SupersedeRead(j) PROVE Rest
  BY <1>0, <1>15 DEF SupersedeRead, durable, workers, TimelyInv, WorkerInv, LeaseInv, ReaperInv,
     Stale, AttemptsExact
<1>16. ASSUME SupersedeAppend PROVE Rest
  <2>1. cur # NoClaim /\ cur.job \in CronJobs
    BY <1>0, <1>16 DEF TypeOK, SupersedeAppend, TimelyInv, ReaperInv
  <2>2. /\ \A k \in Jobs \ CronJobs : jobs'[k] = jobs[k]
        /\ mpc' = "supersedeRelease"
        /\ UNCHANGED <<leases, wpc, claim, todo, cur, faults, started>>
    BY <1>0, <1>16, <2>1 DEF SupersedeAppend, workers, TypeOK
  <2>3. WorkerInv' /\ LeaseInv'
    BY <1>0, <2>2 DEF TimelyInv, WorkerInv, LeaseInv, TypeOK, Claims
  <2>4. ReaperInv' /\ AttemptsExact'
    BY <1>0, <2>1, <2>2 DEF TimelyInv, ReaperInv, AttemptsExact, Stale, TypeOK, Claims
  <2> QED
    BY <2>3, <2>4
<1>17. ASSUME SweepDone \/ MaintenanceExit \/ Shutdown PROVE Rest
  <2>1. UNCHANGED <<jobs, leases, wpc, claim, todo, cur, faults, started>>
    BY <1>17 DEF SweepDone, MaintenanceExit, Shutdown, durable, workers, maint
  <2>2. mpc' = mpc \/ (cur = NoClaim /\ mpc' \in {"sleep", "exited"})
    BY <1>0, <1>17 DEF SweepDone, MaintenanceExit, Shutdown, maint, TypeOK
  <2> QED
    BY <2>1, <2>2 DEF TimelyInv, WorkerInv, LeaseInv, ReaperInv, Stale, AttemptsExact
<1>18. ASSUME SweepError PROVE Rest
  <2>1. /\ UNCHANGED <<jobs, leases, wpc, claim, started>>
        /\ todo' = {} /\ cur' = NoClaim /\ mpc' \in {"sleep", "cron", "exited"}
        /\ faults' # 0
    BY <1>0, <1>18 DEF SweepError, durable, workers, TypeOK
  <2> QED
    BY <2>1 DEF TimelyInv, WorkerInv, LeaseInv, ReaperInv, AttemptsExact
<1>19. ASSUME Start \/ Crash PROVE Rest
  <2>1. /\ UNCHANGED <<jobs, leases, started>>
        /\ todo' = {} /\ cur' = NoClaim /\ mpc' = "sleep"
        /\ \A w \in Workers : claim'[w] = NoClaim
    BY <1>19 DEF Start, Crash, FreshPool, durable
  <2>2. faults' = 0 => \A j \in Jobs \ CronJobs : leases[j] = NoLease
    <3>1. CASE Crash
      BY <1>0, <3>1 DEF Crash, TypeOK
    <3>2. CASE Start
      <4>1. faults' = faults /\ \A w \in Workers : claim[w] = NoClaim
        BY <1>0, <3>2 DEF Start, Stopped, TypeOK
      <4>2. \A j \in Jobs : leases[j] # NoLease => leases[j].worker \in Workers
        BY <1>0 DEF TypeOK, Leases
      <4> QED
        BY <4>1, <4>2 DEF TimelyInv, LeaseInv
    <3> QED
      BY <1>19, <3>1, <3>2
  <2> QED
    BY <2>1, <2>2 DEF TimelyInv, WorkerInv, LeaseInv, ReaperInv, AttemptsExact
<1>20. ASSUME NEW j \in Jobs, BecomeDue(j) PROVE Rest
  <2>1. /\ \A k \in Jobs : jobs'[k].state = jobs[k].state /\ jobs'[k].attempts = jobs[k].attempts
        /\ UNCHANGED <<leases, wpc, claim, mpc, todo, cur, faults, started>>
    BY <1>0, <1>20 DEF BecomeDue, workers, maint, TypeOK, Rows
  <2>2. WorkerInv'
    BY <1>0, <2>1 DEF TimelyInv, WorkerInv, TypeOK, Claims
  <2>3. LeaseInv'
    BY <1>0, <2>1 DEF TimelyInv, LeaseInv
  <2>4. ReaperInv' /\ AttemptsExact'
    BY <1>0, <2>1 DEF TimelyInv, ReaperInv, Stale, AttemptsExact, TypeOK, Claims
  <2> QED
    BY <2>2, <2>3, <2>4
<1>21. ASSUME NEW j \in Jobs, Orphaned(j), Expire(j) PROVE Rest
  <2>1. /\ \A k \in Jobs : k # j => leases'[k] = leases[k]
        /\ leases[j] # NoLease /\ leases[j] \in Leases /\ leases'[j] # NoLease
        /\ leases'[j].attempt = leases[j].attempt /\ leases'[j].worker = leases[j].worker
        /\ ~leases'[j].live
        /\ UNCHANGED <<jobs, wpc, claim, mpc, todo, cur, faults, started>>
    <3>1. leases[j] \in Leases /\ leases[j] # NoLease
      BY <1>0, <1>21 DEF Expire, TypeOK
    <3> DEFINE lease == [leases[j] EXCEPT !.live = FALSE]
    <3>2. /\ lease \in Leases /\ lease # NoLease
          /\ lease.attempt = leases[j].attempt /\ lease.worker = leases[j].worker
          /\ ~lease.live
      BY <3>1 DEF Leases
    <3>3. leases' = [leases EXCEPT ![j] = lease]
      BY <1>21 DEF Expire
    <3> HIDE DEF lease
    <3>4. leases \in [Jobs -> Leases \cup {NoLease}]
      BY <1>0 DEF TypeOK
    <3>5. leases'[j] = lease /\ \A k \in Jobs : k # j => leases'[k] = leases[k]
      BY <3>3, <3>4
    <3>6. UNCHANGED <<jobs, wpc, claim, mpc, todo, cur, faults, started>>
      BY <1>21 DEF Expire, workers, maint
    <3> QED
      BY <3>1, <3>2, <3>5, <3>6
  <2>2. WorkerInv'
    BY <1>0, <1>21, <2>1 DEF TimelyInv, WorkerInv, Orphaned, TypeOK, Claims
  <2>3. LeaseInv'
    BY <1>0, <1>21, <2>1 DEF TimelyInv, LeaseInv, TypeOK
  <2>4. ReaperInv' /\ AttemptsExact'
    BY <1>0, <2>1 DEF TimelyInv, ReaperInv, Stale, AttemptsExact, TypeOK, Claims
  <2> QED
    BY <2>2, <2>3, <2>4
<1>22. ASSUME UNCHANGED vars PROVE Rest
  BY <1>22 DEF vars, TimelyInv, WorkerInv, LeaseInv, ReaperInv, Stale, AttemptsExact
<1> QED
  BY <1>1, <1>2, <1>3, <1>4, <1>5, <1>6, <1>7, <1>8, <1>9, <1>10, <1>11, <1>12, <1>13, <1>14,
     <1>15, <1>16, <1>17, <1>18, <1>19, <1>20, <1>21, <1>22
  DEF TimelyNext, Steps, EnqueueNext, WorkerNext, MaintenanceNext, ProcessNext

(* While leases outlive their attempts: one worker at a job (I2), every      *)
(* attempt counted exactly once (I3), and no lease left by a clean shutdown. *)
THEOREM TimelyQueue ==
    TimelySpec => [](ExclusiveAttempt /\ AttemptsExact /\ ShutdownLeavesNoLease)
<1>1. TimelyInv => ExclusiveAttempt
  BY DEF TimelyInv, WorkerInv, ExclusiveAttempt, HoldsLease
<1>2. TimelyInv => AttemptsExact
  BY DEF TimelyInv
<1>3. TimelyInv => ShutdownLeavesNoLease
  <2> SUFFICES ASSUME TimelyInv, Stopped, faults = 0, NEW j \in Jobs \ CronJobs,
                      leases[j] # NoLease
               PROVE FALSE
    BY DEF ShutdownLeavesNoLease
  <2>1. leases[j].worker \in Workers
    BY DEF TimelyInv, SafeInv, TypeOK, Leases
  <2>2. claim[leases[j].worker] = NoClaim
    BY <2>1 DEF TimelyInv, SafeInv, TypeOK, Stopped
  <2> QED
    BY <2>2 DEF TimelyInv, LeaseInv
<1> QED
  BY <1>1, <1>2, <1>3, InitTimely, TimelyStep, PTL DEF TimelySpec

(* A terminal row is never written again while leases outlive attempts.      *)
THEOREM TimelyTerminal == TimelySpec => TerminalIsFinal
<1> DEFINE Final == \A j \in Jobs \ CronJobs : Terminal(j) => jobs'[j] = jobs[j]
<1>1. TimelyInv /\ [TimelyNext]_vars => Final
  <2> SUFFICES ASSUME TimelyInv, [TimelyNext]_vars, NEW j \in Jobs \ CronJobs, Terminal(j)
               PROVE jobs'[j] = jobs[j]
    OBVIOUS
  <2>0. TypeOK
    BY DEF TimelyInv, SafeInv
  <2>1. ASSUME NEW e \in Enqueuers, NEW due \in BOOLEAN, EnqueueAppend(e, due)
        PROVE jobs'[j] = jobs[j]
    BY <2>0, <2>1 DEF EnqueueAppend, TypeOK, Terminal
  <2>2. ASSUME NEW w \in Workers, NEW row, Finish(w, row) PROVE jobs'[j] = jobs[j]
    <3>1. claim[w] # NoClaim /\ claim[w].job \in Jobs /\ claim[w].job # j
      BY <2>0, <2>2 DEF Finish, TypeOK, Claims, TimelyInv, WorkerInv, Terminal
    <3> QED
      BY <2>0, <2>2, <3>1 DEF Finish, TypeOK
  <2>3. ASSUME NEW due \in BOOLEAN, ReapAppend(due) PROVE jobs'[j] = jobs[j]
    <3>1. cur # NoClaim /\ cur.job \in Jobs /\ cur.job # j
      BY <2>0, <2>3 DEF ReapAppend, TypeOK, Claims, TimelyInv, ReaperInv, Terminal
    <3> QED
      BY <2>0, <2>3, <3>1 DEF ReapAppend, TypeOK
  <2>4. ASSUME SupersedeAppend PROVE jobs'[j] = jobs[j]
    <3>1. cur.job # j
      BY <2>4 DEF SupersedeAppend, TimelyInv, ReaperInv
    <3> QED
      BY <2>0, <2>4, <3>1 DEF SupersedeAppend, TypeOK
  <2>5. ASSUME NEW k \in Jobs, BecomeDue(k) PROVE jobs'[j] = jobs[j]
    BY <2>0, <2>5 DEF BecomeDue, TypeOK, Terminal
  <2>6. CASE UNCHANGED jobs
    BY <2>6
  <2> QED
    BY <2>1, <2>2, <2>3, <2>4, <2>5, <2>6
    DEF TimelyNext, Steps, EnqueueNext, WorkerNext, MaintenanceNext, ProcessNext,
        EnqueueRead, Claim, WorkerExit, Heartbeat, HeartbeatError, Complete, Fail, FinishRelease,
        FinishError, ReapRead, ReapCheck, ReapRelease, SupersedeRead, SupersedeRelease, SweepDone,
        SweepError, MaintenanceExit, Shutdown, Start, Crash, Expire, durable, vars
<1>2. TimelySpec => []TimelyInv
  BY InitTimely, TimelyStep, PTL DEF TimelySpec
<1>3. TimelyInv /\ [TimelyNext]_vars => [Final]_vars
  BY <1>1
<1> QED
  BY <1>2, <1>3, PTL DEF TimelySpec, TerminalIsFinal

-----------------------------------------------------------------------------
(* I1: one enqueue of a job is answered Enqueued, in every behaviour.        *)
THEOREM OneEnqueue == Spec => []EnqueuedOnce
<1>1. SafeInv => EnqueuedOnce
  BY DEF SafeInv
<1> QED
  BY <1>1, InitSafe, SafeStep, PTL DEF Spec

(* I2: while leases outlive their attempts, the worker at a job is the one   *)
(* its lease names.                                                          *)
THEOREM OneWorker == TimelySpec => []ExclusiveAttempt
BY TimelyQueue, PTL

(* Without faults, a pool that has stopped has left no lease.                *)
THEOREM CleanShutdown == TimelySpec => []ShutdownLeavesNoLease
BY TimelyQueue, PTL

(* A late, lost or duplicated outcome never puts a terminal job back in the  *)
(* queue, with leases running out at any time.                               *)
THEOREM NeverBack == Spec => NeverRequeued
<1> DEFINE Stays == \A j \in Jobs : Terminal(j) => jobs'[j].state \in {"done", "dead"}
<1>1. SafeInv /\ [Next]_vars => Stays
  <2> SUFFICES ASSUME SafeInv, [Next]_vars, NEW j \in Jobs, Terminal(j)
               PROVE jobs'[j].state \in {"done", "dead"}
    OBVIOUS
  <2>0. TypeOK
    BY DEF SafeInv
  <2>a. ASSUME NEW k \in Jobs, NEW row, jobs' = [jobs EXCEPT ![k] = row],
               jobs[k].state \in {"done", "dead"} => row.state \in {"done", "dead"}
        PROVE jobs'[j].state \in {"done", "dead"}
    BY <2>0, <2>a DEF TypeOK, Terminal
  <2>1. ASSUME NEW e \in Enqueuers, NEW due \in BOOLEAN, EnqueueAppend(e, due)
        PROVE jobs'[j].state \in {"done", "dead"}
    BY <2>0, <2>1 DEF EnqueueAppend, TypeOK, Terminal
  <2>2. ASSUME NEW w \in Workers, Complete(w) PROVE jobs'[j].state \in {"done", "dead"}
    <3>1. claim[w] \in Claims
      BY <2>0, <2>2 DEF Complete, Finish, TypeOK
    <3>2. claim[w].job \in Jobs /\ claim[w].attempt \in Nat /\ jobs[claim[w].job] \in Rows
      BY <2>0, <3>1 DEF TypeOK, Claims
    <3>3. CompletedRow(jobs[claim[w].job], claim[w].attempt).state = "done"
      BY <3>2 DEF CompletedRow, Rows
    <3> QED
      BY <2>2, <2>a, <3>2, <3>3 DEF Complete, Finish
  <2>3. ASSUME NEW w \in Workers, NEW permanent \in BOOLEAN, NEW due \in BOOLEAN, Fail(w, permanent, due)
        PROVE jobs'[j].state \in {"done", "dead"}
    <3>1. claim[w] \in Claims
      BY <2>0, <2>3 DEF Fail, Finish, TypeOK
    <3>2. claim[w].job \in Jobs /\ claim[w].attempt \in Nat /\ jobs[claim[w].job] \in Rows
      BY <2>0, <3>1 DEF TypeOK, Claims
    <3> DEFINE row == FailureRow(jobs[claim[w].job], RetryMax[claim[w].job], claim[w].attempt,
                                 permanent, due)
    <3>3. jobs[claim[w].job].state \in {"done", "dead"} => row.state \in {"done", "dead"}
      BY <3>2 DEF FailureRow, DeadRow, AttemptFailedRow, Rows
    <3>4. jobs' = [jobs EXCEPT ![claim[w].job] = row]
      BY <2>3 DEF Fail, Finish
    <3> QED
      BY <2>a, <3>2, <3>3, <3>4
  <2>4. ASSUME NEW due \in BOOLEAN, ReapAppend(due) PROVE jobs'[j].state \in {"done", "dead"}
    <3>1. cur \in Claims
      BY <2>0, <2>4 DEF ReapAppend, TypeOK
    <3>2. cur.job \in Jobs /\ cur.attempt \in Nat /\ jobs[cur.job] \in Rows
      BY <2>0, <3>1 DEF TypeOK, Claims
    <3> DEFINE row == FailureRow(jobs[cur.job], RetryMax[cur.job], cur.attempt, FALSE, due)
    <3>3. jobs[cur.job].state \in {"done", "dead"} => row.state \in {"done", "dead"}
      BY <3>2 DEF FailureRow, DeadRow, AttemptFailedRow, Rows
    <3>4. jobs' = [jobs EXCEPT ![cur.job] = row]
      BY <2>4 DEF ReapAppend
    <3> QED
      BY <2>a, <3>2, <3>3, <3>4
  <2>5. ASSUME SupersedeAppend PROVE jobs'[j].state \in {"done", "dead"}
    <3>1. cur \in Claims
      BY <2>0, <2>5 DEF SupersedeAppend, TypeOK
    <3>2. cur.job \in Jobs /\ cur.attempt \in Nat /\ jobs[cur.job] \in Rows
      BY <2>0, <3>1 DEF TypeOK, Claims
    <3> DEFINE row == DeadRow(jobs[cur.job], cur.attempt, "superseded_by_cron")
    <3>3. row.state = "dead"
      BY <3>2 DEF DeadRow, Rows
    <3>4. jobs' = [jobs EXCEPT ![cur.job] = row]
      BY <2>5 DEF SupersedeAppend
    <3> QED
      BY <2>a, <3>2, <3>3, <3>4
  <2>6. ASSUME NEW k \in Jobs, BecomeDue(k) PROVE jobs'[j].state \in {"done", "dead"}
    BY <2>0, <2>6 DEF BecomeDue, TypeOK, Terminal
  <2>7. CASE UNCHANGED jobs
    BY <2>7 DEF Terminal
  <2> QED
    BY <2>1, <2>2, <2>3, <2>4, <2>5, <2>6, <2>7
    DEF Next, Steps, EnqueueNext, WorkerNext, MaintenanceNext, ProcessNext,
        EnqueueRead, Claim, WorkerExit, Heartbeat, HeartbeatError, FinishRelease,
        FinishError, ReapRead, ReapCheck, ReapRelease, SupersedeRead, SupersedeRelease, SweepDone,
        SweepError, MaintenanceExit, Shutdown, Start, Crash, Expire, durable, vars
<1>2. Spec => []SafeInv
  BY InitSafe, SafeStep, PTL DEF Spec
<1>3. SafeInv /\ [Next]_vars => [Stays]_vars
  BY <1>1
<1> QED
  BY <1>2, <1>3, PTL DEF Spec, NeverRequeued

-----------------------------------------------------------------------------
(* The queue implements the lifecycle a reader is promised.                  *)

(* The read view as a function of the row and of the lease.                  *)
Reads(row, lease) ==
    IF row.state = "absent" THEN "absent"
    ELSE IF row.state = "done" THEN "Done"
    ELSE IF row.state = "dead" THEN "Dead"
    ELSE IF lease # NoLease /\ lease.live THEN "Running"
    ELSE IF row.attempts > 0 THEN "Failed" ELSE "Queued"

(* live_state_of answers exactly that.                                       *)
LEMMA ReadsView ==
    ASSUME NEW row \in Rows, NEW lease, NEW j \in Jobs, jobs[j] = row, leases[j] = lease
    PROVE  LiveStateOf(j) = Reads(row, lease)
<1>1. row.state \in {"absent", "queued", "done", "dead"}
  BY DEF Rows
<1> QED
  BY <1>1 DEF LiveStateOf, Reads

View == [j \in Jobs \ CronJobs |-> LiveStateOf(j)]

(* The steps of the contract.                                                *)
Move(from, to) ==
    \/ from = to
    \/ from = "absent" /\ to = "Queued"
    \/ from \in {"Queued", "Failed"} /\ to = "Running"
    \/ from = "Running" /\ to = "Done"
    \/ from \in {"Running", "Queued"} /\ to = "Failed"
    \/ from \in {"Running", "Queued", "Failed"} /\ to = "Dead"
    \/ from = "Running" /\ to = "Queued"

(* The view of one job makes a step of the contract and the others stay.     *)
LEMMA OneJobMoves ==
    ASSUME NEW k \in Jobs, k \notin CronJobs => Move(LiveStateOf(k), LiveStateOf(k)'),
           \A j \in Jobs \ CronJobs : j # k => LiveStateOf(j)' = LiveStateOf(j)
    PROVE  [Lifecycle!Next]_View
<1> DEFINE to == LiveStateOf(k)'
<1>1. CASE k \in CronJobs
  BY <1>1 DEF View
<1>2. CASE k \notin CronJobs
  <2>1. View' = [View EXCEPT ![k] = to] /\ View[k] = LiveStateOf(k) /\ k \in Jobs \ CronJobs
    BY <1>2 DEF View
  <2>2. CASE LiveStateOf(k) = to
    BY <1>2, <2>2 DEF View
  <2>3. CASE LiveStateOf(k) # to
    <3>1. LET from == LiveStateOf(k)
          IN \/ from = "absent" /\ to = "Queued"
             \/ from \in {"Queued", "Failed"} /\ to = "Running"
             \/ from = "Running" /\ to = "Done"
             \/ from \in {"Running", "Queued"} /\ to = "Failed"
             \/ from \in {"Running", "Queued", "Failed"} /\ to = "Dead"
             \/ from = "Running" /\ to = "Queued"
      BY <1>2, <2>3 DEF Move
    <3> HIDE DEF to
    <3>2. \/ Lifecycle!Enqueue(k) \/ Lifecycle!Run(k) \/ Lifecycle!Succeed(k)
          \/ Lifecycle!Retry(k) \/ Lifecycle!Die(k) \/ Lifecycle!Vanish(k)
      BY <2>1, <3>1
      DEF Lifecycle!Enqueue, Lifecycle!Run, Lifecycle!Succeed, Lifecycle!Retry, Lifecycle!Die,
          Lifecycle!Vanish, Lifecycle!Become, View
    <3> QED
      BY <2>1, <3>2 DEF Lifecycle!Next
  <2> QED
    BY <2>2, <2>3
<1> QED
  BY <1>1, <1>2

(* A step on one row, or on one lease, that reads as a step of the contract. *)
LEMMA RowMoves ==
    ASSUME TypeOK, TypeOK', NEW k \in Jobs, NEW row \in Rows,
           jobs' = [jobs EXCEPT ![k] = row], UNCHANGED leases,
           k \notin CronJobs => Move(Reads(jobs[k], leases[k]), Reads(row, leases[k]))
    PROVE  [Lifecycle!Next]_View
<1>1. jobs \in [Jobs -> Rows] /\ jobs' \in [Jobs -> Rows] /\ leases' = leases
  BY DEF TypeOK
<1>2. \A j \in Jobs : LiveStateOf(j) = Reads(jobs[j], leases[j])
  BY <1>1, ReadsView
<1>3. \A j \in Jobs : LiveStateOf(j)' = Reads(jobs'[j], leases[j])
  <2>1. SUFFICES ASSUME NEW j \in Jobs PROVE LiveStateOf(j)' = Reads(jobs'[j], leases[j])
    OBVIOUS
  <2>2. jobs'[j] \in Rows /\ jobs'[j].state \in {"absent", "queued", "done", "dead"}
    BY <1>1 DEF Rows
  <2> QED
    BY <1>1, <2>2 DEF LiveStateOf, Reads
<1>4. jobs'[k] = row /\ \A j \in Jobs : j # k => jobs'[j] = jobs[j]
  BY <1>1
<1>5. k \notin CronJobs => Move(LiveStateOf(k), LiveStateOf(k)')
  BY <1>2, <1>3, <1>4
<1>6. \A j \in Jobs \ CronJobs : j # k => LiveStateOf(j)' = LiveStateOf(j)
  BY <1>2, <1>3, <1>4
<1> QED
  BY <1>5, <1>6, OneJobMoves

(* The same for a step on one lease.                                         *)
LEMMA LeaseMoves ==
    ASSUME TypeOK, TypeOK', NEW k \in Jobs, NEW lease,
           leases' = [leases EXCEPT ![k] = lease], UNCHANGED jobs,
           k \notin CronJobs => Move(Reads(jobs[k], leases[k]), Reads(jobs[k], lease))
    PROVE  [Lifecycle!Next]_View
<1>1. jobs \in [Jobs -> Rows] /\ jobs' = jobs /\ leases \in [Jobs -> Leases \cup {NoLease}]
  BY DEF TypeOK
<1>2. \A j \in Jobs : LiveStateOf(j) = Reads(jobs[j], leases[j])
  BY <1>1, ReadsView
<1>3. \A j \in Jobs : LiveStateOf(j)' = Reads(jobs[j], leases'[j])
  <2>1. SUFFICES ASSUME NEW j \in Jobs PROVE LiveStateOf(j)' = Reads(jobs[j], leases'[j])
    OBVIOUS
  <2>2. jobs[j] \in Rows /\ jobs[j].state \in {"absent", "queued", "done", "dead"}
    BY <1>1 DEF Rows
  <2> QED
    BY <1>1, <2>2 DEF LiveStateOf, Reads
<1>4. leases'[k] = lease /\ \A j \in Jobs : j # k => leases'[j] = leases[j]
  BY <1>1
<1>5. k \notin CronJobs => Move(LiveStateOf(k), LiveStateOf(k)')
  BY <1>2, <1>3, <1>4
<1>6. \A j \in Jobs \ CronJobs : j # k => LiveStateOf(j)' = LiveStateOf(j)
  BY <1>2, <1>3, <1>4
<1> QED
  BY <1>5, <1>6, OneJobMoves

(* Neither table changes.                                                    *)
LEMMA NoMove == UNCHANGED <<jobs, leases>> => [Lifecycle!Next]_View
BY DEF View, LiveStateOf

(* Releasing a lease, whoever holds it, reads as a step of the contract.     *)
LEMMA ReleaseMoves ==
    ASSUME NEW row, NEW lease
    PROVE  Move(Reads(row, lease), Reads(row, NoLease))
BY DEF Move, Reads

(* Every step reads as a step of the contract or leaves the view alone.      *)
LEMMA LifecycleStep == TimelyInv /\ [TimelyNext]_vars => [Lifecycle!Next]_View
<1> SUFFICES ASSUME TimelyInv, [TimelyNext]_vars PROVE [Lifecycle!Next]_View
  OBVIOUS
<1> USE ConstantsAssumption
<1>a. [Next]_vars
  BY DEF TimelyNext, Next
<1>0. TypeOK /\ TypeOK' /\ KnownJobs
  BY <1>a, TypeStep DEF TimelyInv, SafeInv
<1>1. ASSUME NEW e \in Enqueuers, NEW due \in BOOLEAN, EnqueueAppend(e, due) PROVE [Lifecycle!Next]_View
  <2> DEFINE k == admit[e]
             S == {i \in Jobs : jobs[i].state # "absent"}
             row == EnqueuedRow(1 + Cardinality(S), due)
  <2>1. k \in Jobs /\ UNCHANGED leases
    BY <1>0, <1>1 DEF EnqueueAppend, TypeOK
  <2>2. CASE UNCHANGED jobs
    BY <2>1, <2>2, NoMove
  <2>3. CASE jobs[k].state = "absent" /\ jobs' = [jobs EXCEPT ![k] = row]
    <3>1. row \in Rows
      BY EnqueuedRowType
    <3>2. leases[k] = NoLease
      BY <1>0, <2>1, <2>3 DEF KnownJobs
    <3>3. row.state = "queued" /\ row.attempts = 0
      BY DEF EnqueuedRow
    <3> HIDE DEF row, k
    <3>4. Move(Reads(jobs[k], leases[k]), Reads(row, leases[k]))
      BY <2>3, <3>2, <3>3 DEF Move, Reads
    <3> QED
      BY <1>0, <2>1, <2>3, <3>1, <3>4, RowMoves
  <2> QED
    BY <1>1, <2>2, <2>3 DEF EnqueueAppend
<1>2. ASSUME NEW w \in Workers, NEW j \in Jobs, Claim(w, j) PROVE [Lifecycle!Next]_View
  <2> DEFINE lease == [worker |-> w, attempt |-> jobs[j].attempts + 1, live |-> TRUE]
  <2>1. leases' = [leases EXCEPT ![j] = lease] /\ UNCHANGED jobs /\ leases[j] = NoLease
        /\ jobs[j].state = "queued"
    BY <1>2 DEF Claim, Claimable
  <2>2. lease.live = TRUE
    OBVIOUS
  <2> HIDE DEF lease
  <2>3. Move(Reads(jobs[j], leases[j]), Reads(jobs[j], lease))
    BY <2>1, <2>2 DEF Move, Reads
  <2> QED
    BY <1>0, <2>1, <2>3, LeaseMoves
<1>3. ASSUME NEW w \in Workers, Heartbeat(w) PROVE [Lifecycle!Next]_View
  <2>1. CASE HoldsLease(w)
    <3> DEFINE k == claim[w].job
               lease == [leases[k] EXCEPT !.live = TRUE]
    <3>1. k \in Jobs /\ leases[k] \in Leases
      BY <1>0, <1>3, <2>1 DEF TypeOK, HoldsLease, Heartbeat, Claims
    <3>2. leases' = [leases EXCEPT ![k] = lease] /\ UNCHANGED jobs
      BY <1>3, <2>1 DEF Heartbeat
    <3>3. lease \in Leases /\ lease.live
      BY <3>1 DEF Leases
    <3> HIDE DEF k, lease
    <3>4. jobs[k] \in Rows
      BY <1>0, <3>1 DEF TypeOK
    <3>5. Move(Reads(jobs[k], leases[k]), Reads(jobs[k], lease))
      BY <3>1, <3>3, <3>4 DEF Move, Reads
    <3> QED
      BY <1>0, <3>1, <3>2, <3>5, LeaseMoves
  <2>2. CASE ~HoldsLease(w)
    BY <1>3, <2>2, NoMove DEF Heartbeat
  <2> QED
    BY <2>1, <2>2
<1>4. ASSUME NEW w \in Workers, wpc[w] = "running"
      PROVE  /\ claim[w].job \in Jobs /\ claim[w].attempt \in Nat /\ jobs[claim[w].job] \in Rows
             /\ claim[w].job \notin CronJobs =>
                   /\ Reads(jobs[claim[w].job], leases[claim[w].job]) = "Running"
                   /\ leases[claim[w].job] # NoLease /\ leases[claim[w].job].live
                   /\ jobs[claim[w].job].state = "queued"
  <2>1. claim[w] \in Claims
    BY <1>0, <1>4 DEF TypeOK
  <2>2. claim[w].job \in Jobs /\ claim[w].attempt \in Nat /\ jobs[claim[w].job] \in Rows
    BY <1>0, <2>1 DEF TypeOK, Claims
  <2>3. claim[w].job \notin CronJobs =>
          /\ leases[claim[w].job] # NoLease /\ leases[claim[w].job].live
          /\ jobs[claim[w].job].state = "queued"
    BY <1>4, <2>1 DEF TimelyInv, WorkerInv
  <2> QED
    BY <2>2, <2>3 DEF Reads
<1>5. ASSUME NEW w \in Workers, Complete(w) PROVE [Lifecycle!Next]_View
  <2> DEFINE k == claim[w].job
             row == CompletedRow(jobs[k], claim[w].attempt)
  <2>1. wpc[w] = "running" /\ jobs' = [jobs EXCEPT ![k] = row] /\ UNCHANGED leases
    BY <1>5 DEF Complete, Finish
  <2>2. k \in Jobs /\ claim[w].attempt \in Nat /\ jobs[k] \in Rows
        /\ (k \notin CronJobs => Reads(jobs[k], leases[k]) = "Running")
    BY <1>4, <2>1
  <2>3. row \in Rows
    BY <2>2, CompletedRowType
  <2>4. row.state = "done"
    BY <2>2 DEF CompletedRow, Rows
  <2> HIDE DEF row, k
  <2>5. k \notin CronJobs => Move(Reads(jobs[k], leases[k]), Reads(row, leases[k]))
    BY <2>2, <2>4 DEF Move, Reads
  <2> QED
    BY <1>0, <2>1, <2>2, <2>3, <2>5, RowMoves
<1>6. ASSUME NEW w \in Workers, NEW permanent \in BOOLEAN, NEW due \in BOOLEAN, Fail(w, permanent, due)
      PROVE [Lifecycle!Next]_View
  <2> DEFINE k == claim[w].job
             row == FailureRow(jobs[k], RetryMax[k], claim[w].attempt, permanent, due)
  <2>1. wpc[w] = "running" /\ jobs' = [jobs EXCEPT ![k] = row] /\ UNCHANGED leases
    BY <1>6 DEF Fail, Finish
  <2>2. k \in Jobs /\ claim[w].attempt \in Nat /\ jobs[k] \in Rows
        /\ (k \notin CronJobs => /\ Reads(jobs[k], leases[k]) = "Running"
                                 /\ leases[k] # NoLease /\ leases[k].live
                                 /\ jobs[k].state = "queued")
    BY <1>4, <2>1
  <2>3. row \in Rows
    BY <2>2, FailureRowType
  <2>4. row.state \in {"dead", jobs[k].state}
    BY <2>2 DEF FailureRow, DeadRow, AttemptFailedRow, Rows
  <2> HIDE DEF row, k
  <2>5. k \notin CronJobs => Move(Reads(jobs[k], leases[k]), Reads(row, leases[k]))
    BY <2>2, <2>4 DEF Move, Reads
  <2> QED
    BY <1>0, <2>1, <2>2, <2>3, <2>5, RowMoves
<1>7. ASSUME NEW k \in Jobs, ReleaseLease(k), UNCHANGED jobs PROVE [Lifecycle!Next]_View
  <2>1. Move(Reads(jobs[k], leases[k]), Reads(jobs[k], NoLease))
    BY ReleaseMoves
  <2>2. leases' = [leases EXCEPT ![k] = NoLease]
    BY <1>7 DEF ReleaseLease
  <2> QED
    BY <1>0, <1>7, <2>1, <2>2, LeaseMoves
<1>8. ASSUME NEW w \in Workers, FinishRelease(w) PROVE [Lifecycle!Next]_View
  <2>1. claim[w] \in Claims /\ claim[w].job \in Jobs
    BY <1>0, <1>8 DEF TypeOK, FinishRelease, Claims
  <2> QED
    BY <1>7, <1>8, <2>1 DEF FinishRelease
<1>9. ASSUME NEW due \in BOOLEAN, ReapAppend(due) PROVE [Lifecycle!Next]_View
  <2> DEFINE k == cur.job
             row == FailureRow(jobs[k], RetryMax[k], cur.attempt, FALSE, due)
  <2>1. mpc = "reapAppend" /\ jobs' = [jobs EXCEPT ![k] = row] /\ UNCHANGED leases
    BY <1>9 DEF ReapAppend
  <2>2. cur \in Claims
    BY <1>0, <2>1 DEF TypeOK
  <2>3. k \in Jobs /\ cur.attempt \in Nat /\ jobs[k] \in Rows
    BY <1>0, <2>2 DEF TypeOK, Claims
  <2>4. k \notin CronJobs => jobs[k].state = "queued" /\ ~leases[k].live /\ jobs[k].attempts + 1 = cur.attempt
    BY <1>0, <2>1, <2>2 DEF TypeOK, TimelyInv, ReaperInv, Stale
  <2>5. row \in Rows
    BY <2>3, FailureRowType
  <2>6. row.state \in {"dead", jobs[k].state} /\ row.attempts = cur.attempt
    BY <2>3 DEF FailureRow, DeadRow, AttemptFailedRow, Rows
  <2>7. jobs[k].attempts \in Nat
    BY <2>3 DEF Rows
  <2> HIDE DEF row, k
  <2>8. k \notin CronJobs => Move(Reads(jobs[k], leases[k]), Reads(row, leases[k]))
    BY <2>3, <2>4, <2>6, <2>7 DEF Move, Reads
  <2> QED
    BY <1>0, <2>1, <2>3, <2>5, <2>8, RowMoves
<1>10. ASSUME ReapRelease \/ SupersedeRelease PROVE [Lifecycle!Next]_View
  <2>1. cur \in Claims /\ cur.job \in Jobs
    BY <1>0, <1>10 DEF TypeOK, ReapRelease, SupersedeRelease, Claims
  <2> QED
    BY <1>7, <1>10, <2>1 DEF ReapRelease, SupersedeRelease
<1>11. ASSUME SupersedeAppend PROVE [Lifecycle!Next]_View
  <2> DEFINE k == cur.job
             row == DeadRow(jobs[k], cur.attempt, "superseded_by_cron")
  <2>1. cur \in Claims /\ k \in CronJobs
    BY <1>0, <1>11 DEF TypeOK, SupersedeAppend, TimelyInv, ReaperInv
  <2>2. k \in Jobs /\ cur.attempt \in Nat /\ jobs[k] \in Rows
    BY <1>0, <2>1 DEF TypeOK, Claims
  <2>3. row \in Rows
    BY <2>2, DeadRowType
  <2>4. jobs' = [jobs EXCEPT ![k] = row] /\ UNCHANGED leases
    BY <1>11 DEF SupersedeAppend
  <2> HIDE DEF row, k
  <2> QED
    BY <1>0, <2>1, <2>2, <2>3, <2>4, RowMoves
<1>12. ASSUME NEW k \in Jobs, BecomeDue(k) PROVE [Lifecycle!Next]_View
  <2> DEFINE row == [jobs[k] EXCEPT !.due = TRUE]
  <2>1. jobs' = [jobs EXCEPT ![k] = row] /\ UNCHANGED leases
    BY <1>12 DEF BecomeDue
  <2>2. jobs[k] \in Rows
    BY <1>0 DEF TypeOK
  <2>3. row \in Rows /\ row.state = jobs[k].state /\ row.attempts = jobs[k].attempts
    BY <2>2 DEF Rows
  <2> HIDE DEF row
  <2>4. Move(Reads(jobs[k], leases[k]), Reads(row, leases[k]))
    BY <2>3 DEF Move, Reads
  <2> QED
    BY <1>0, <2>1, <2>3, <2>4, RowMoves
<1>13. ASSUME NEW k \in Jobs, Expire(k) PROVE [Lifecycle!Next]_View
  <2> DEFINE lease == [leases[k] EXCEPT !.live = FALSE]
  <2>1. leases' = [leases EXCEPT ![k] = lease] /\ UNCHANGED jobs /\ leases[k] # NoLease /\ leases[k].live
    BY <1>13 DEF Expire
  <2>2. leases[k] \in Leases
    BY <1>0, <2>1 DEF TypeOK
  <2>3. lease \in Leases /\ ~lease.live
    BY <2>2 DEF Leases
  <2> HIDE DEF lease
  <2>4. Move(Reads(jobs[k], leases[k]), Reads(jobs[k], lease))
    BY <2>1, <2>3 DEF Move, Reads
  <2> QED
    BY <1>0, <2>1, <2>4, LeaseMoves
<1>14. CASE UNCHANGED <<jobs, leases>>
  BY <1>14, NoMove
<1> QED
  BY <1>1, <1>2, <1>3, <1>5, <1>6, <1>8, <1>9, <1>10, <1>11, <1>12, <1>13, <1>14
  DEF TimelyNext, Steps, EnqueueNext, WorkerNext, MaintenanceNext, ProcessNext,
      EnqueueRead, WorkerExit, HeartbeatError, FinishError, ReapRead, ReapCheck, SupersedeRead,
      SweepDone, SweepError, MaintenanceExit, Shutdown, Start, Crash, durable, vars

(* While leases outlive their attempts, the read view of every job follows   *)
(* the contract Queued -> Running -> Done | Failed | Dead.                   *)
THEOREM LifecycleImplemented == TimelySpec => ImplementsLifecycle
<1>1. Init => Lifecycle!Init
  BY DEF Init, Lifecycle!Init, LiveStateOf
<1>2. TimelySpec => []TimelyInv
  BY InitTimely, TimelyStep, PTL DEF TimelySpec
<1>3. TimelyInv /\ [TimelyNext]_vars => [Lifecycle!Next]_[j \in Jobs \ CronJobs |-> LiveStateOf(j)]
  BY LifecycleStep DEF View
<1> QED
  BY <1>1, <1>2, <1>3, PTL DEF TimelySpec, ImplementsLifecycle, Lifecycle!Spec
=============================================================================
