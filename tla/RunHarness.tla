----------------------------- MODULE RunHarness -----------------------------
(***************************************************************************)
(* One Run of the agent harness (pos-agents), driven by worker processes    *)
(* and controlled by users.                                                 *)
(*                                                                          *)
(* Durable state is the Run's row in proj_runs and its steps in             *)
(* proj_run_steps; both change only when a batch of facts is appended.      *)
(* Every operation of the harness has the same shape: it reads the state,   *)
(* decides on a batch, reads the log head, and appends the batch if the     *)
(* head is still that one; otherwise it starts over, a bounded number of    *)
(* times.  The head is read after the state, so a fact that lands between   *)
(* the two is not noticed.  fresh[a] says that nothing was appended since   *)
(* actor a read the head, which is all the comparison asks.                 *)
(*                                                                          *)
(* The budget has one dimension here; the code repeats the same comparison  *)
(* for seven.  The statuses preflight, running and validating are one.      *)
(***************************************************************************)
EXTENDS Integers, FiniteSets

CONSTANTS
    Workers,      \* processes that may drive the Run
    Users,        \* callers of the harness beside the workers
    UserOps,      \* what they call
    StepCount,    \* steps of the plan
    Idempotent,   \* Idempotent[n]: step n's tool may be retried
    Budget,       \* the limit of the Run
    Reserve,      \* what a step reserves
    Costs,        \* what an effect may turn out to have spent
    RetryMax,     \* CONDITIONAL_APPEND_RETRY_MAX
    MaxCrashes,   \* bound: processes killed, effects that fail once they acted
    None

Steps == 0..(StepCount - 1)
Actors == Workers \cup Users
Statuses == {"absent", "running", "waiting_input", "paused", "done", "canceled"}
Controls == {"none", "pause", "cancel"}
Runs == [status: Statuses, control: Controls, committed: Nat, checkpointed: Nat, spent: Nat,
         pause: BOOLEAN]
Ops == {"prepare", "record", "settle", "finish", "pause", "cancel", "resume", "ask", "answer"}
Batches == {"commit", "record", "settlePause", "settleCancel", "budgetPause", "finish",
            "pause", "cancel", "resume", "ask", "answer"}

ASSUME ConstantsAssumption ==
    /\ Workers \cap Users = {}
    /\ UserOps \subseteq {"pause", "cancel", "resume", "ask", "answer"}
    /\ StepCount \in Nat \ {0}
    /\ Idempotent \in [Steps -> BOOLEAN]
    /\ Budget \in Nat /\ Reserve \in Nat
    /\ Costs \subseteq Nat
    /\ RetryMax \in Nat \ {0}
    /\ MaxCrashes \in Nat
    /\ None \notin Ops \cup Batches \cup Runs \cup Nat

VARIABLES
    run,       \* proj_runs
    cost,      \* proj_run_steps: the receipt of each step, or None
    act,       \* what each actor carries through its operation
    fresh,     \* nothing was appended since the actor read the head
    applied,   \* history: times each step's effect reached the outside
    crashes    \* how many of them so far

vars == <<run, cost, act, fresh, applied, crashes>>

(* The batch an operation decided on carries one value of the state it read: *)
(* what the Run had spent.                                                   *)
IdleActor == [pc |-> "idle", op |-> None, plan |-> 0, batch |-> None, read |-> 0, tries |-> 0]

(* An operation fails, or was the last one: the thread of a worker ends with  *)
(* it, and only a call of start or resume launches another.                  *)
Ended(a) == IF a \in Workers THEN [IdleActor EXCEPT !.pc = "gone"] ELSE IdleActor

AtBoundary(s) == s.committed = s.checkpointed
Terminal(s) == s.status \in {"done", "canceled"}

(* parse_run refuses a row whose status and pause columns disagree, and with  *)
(* it every operation that has to read the row.                              *)
Readable(s) == (s.status = "paused") <=> s.pause

-----------------------------------------------------------------------------
(* What an operation decides from the state it read: a batch to append, or    *)
(* None for an early return.                                                 *)

(* settle_control_once                                                       *)
SettleBatch(s) ==
    IF ~AtBoundary(s) THEN None
    ELSE IF s.control = "pause" THEN "settlePause"
    ELSE IF s.control = "cancel" THEN "settleCancel"
    ELSE None

(* prepare_step_inner, for a step that is not committed yet; admission comes *)
(* before the step fact.                                                     *)
PrepareBatch(s, plan) ==
    IF s.control # "none" /\ AtBoundary(s) THEN SettleBatch(s)
    ELSE IF s.status # "running" \/ ~AtBoundary(s) \/ plan # s.committed THEN None
    ELSE IF s.spent + Reserve > Budget THEN "budgetPause"
    ELSE "commit"

FinishBatch(s) ==
    IF Terminal(s) \/ ~AtBoundary(s) THEN None
    ELSE IF s.control # "none" THEN SettleBatch(s)
    ELSE IF s.status = "paused" THEN None
    ELSE "finish"

(* Slip of RequestBatch: a later request replaces the pending one.           *)
RequestBatchReplaces(s, control) ==
    IF Terminal(s) \/ (s.status = "paused" /\ control = "pause") THEN None ELSE control

(* request_control: a terminal Run, a paused one asked to pause, and a Run   *)
(* with a control pending are left alone.                                    *)
RequestBatch(s, control) ==
    IF Terminal(s) \/ s.control # "none" \/ (s.status = "paused" /\ control = "pause")
    THEN None ELSE control

Decide(op, s, plan) ==
    CASE op = "prepare" -> PrepareBatch(s, plan)
      [] op = "record" -> IF cost[plan] = None THEN "record" ELSE None
      [] op = "settle" -> SettleBatch(s)
      [] op = "finish" -> FinishBatch(s)
      [] op \in {"pause", "cancel"} -> RequestBatch(s, op)
      [] op = "resume" -> IF s.status = "paused" /\ s.control = "none" THEN "resume" ELSE None
      [] op = "ask" -> IF s.status = "running" /\ AtBoundary(s) THEN "ask" ELSE None
      [] op = "answer" -> IF s.status = "waiting_input" THEN "answer" ELSE None

-----------------------------------------------------------------------------
(* The projections: what a batch writes into the row, whatever it holds.     *)
(* Only a pause writes the pause columns, and only a resume and a cancel      *)
(* clear them.                                                               *)
Paused(r, spent) ==
    [r EXCEPT !.status = "paused", !.control = "none", !.spent = spent, !.pause = TRUE]

(* Slip of Resumed: the pause columns stay.                                  *)
ResumedPauseStays(r) == [r EXCEPT !.status = "running", !.control = "none"]

Resumed(r) == [r EXCEPT !.status = "running", !.control = "none", !.pause = FALSE]

(* Slip of Recorded: the pause of the same batch carries the old total.      *)
RecordedStaleTotal(r, read, c) ==
    LET checkpointed == [r EXCEPT !.checkpointed = @ + 1, !.spent = @ + c]
    IN IF c > Reserve THEN Paused(checkpointed, read) ELSE checkpointed

(* The receipt and the checkpoint, and a pause in the same batch when more    *)
(* was spent than the step reserved.                                         *)
Recorded(r, read, c) ==
    LET checkpointed == [r EXCEPT !.checkpointed = @ + 1, !.spent = @ + c]
    IN IF c > Reserve THEN Paused(checkpointed, read + c) ELSE checkpointed

Written(r, batch, read, c) ==
    CASE batch = "commit" -> [r EXCEPT !.status = "running", !.committed = @ + 1]
      [] batch = "record" -> Recorded(r, read, c)
      [] batch \in {"settlePause", "budgetPause"} -> Paused(r, read)
      [] batch = "settleCancel" ->
            [r EXCEPT !.status = "canceled", !.control = "none", !.spent = read, !.pause = FALSE]
      [] batch = "finish" -> [r EXCEPT !.status = "done", !.spent = read]
      [] batch \in {"pause", "cancel"} -> [r EXCEPT !.control = batch]
      [] batch = "resume" -> Resumed(r)
      [] batch = "ask" -> [r EXCEPT !.status = "waiting_input"]
      [] batch = "answer" -> [r EXCEPT !.status = "running"]

(* Slip of Refused: the step row is upserted.                                *)
RefusedRecordOnly(batch, plan) == batch = "record" /\ cost[plan] # None

(* Strict writes refuse the whole batch: a step inserted twice, a receipt    *)
(* over a receipt.                                                           *)
Refused(batch, plan) ==
    \/ batch = "commit" /\ plan < run.committed
    \/ batch = "record" /\ cost[plan] # None

-----------------------------------------------------------------------------
Init ==
    /\ run = [status |-> "absent", control |-> "none", committed |-> 0,
              checkpointed |-> 0, spent |-> 0, pause |-> FALSE]
    /\ cost = [n \in Steps |-> None]
    /\ act = [a \in Actors |-> Ended(a)]
    /\ fresh = [a \in Actors |-> FALSE]
    /\ applied = [n \in Steps |-> 0]
    /\ crashes = 0

(* start: RunStarted is a strict insert.                                     *)
Start ==
    /\ run.status = "absent"
    /\ run' = [run EXCEPT !.status = "running"]
    /\ fresh' = [a \in Actors |-> FALSE]
    /\ UNCHANGED <<cost, act, applied, crashes>>

(* An operation is called; what it reads comes next.                         *)
Call(a, op, plan) ==
    act' = [act EXCEPT ![a] = [IdleActor EXCEPT !.pc = "call", !.op = op, !.plan = plan]]

UserCall(u, op) ==
    /\ act[u].pc = "idle"
    /\ run.status # "absent"
    /\ Call(u, op, 0)
    /\ UNCHANGED <<run, cost, fresh, applied, crashes>>

(* launch, at the end of a call of start or resume; what the call read of the *)
(* Run may be past, so it says nothing of the row now.                       *)
Launch(w) ==
    /\ act[w].pc = "gone"
    /\ run.status # "absent"
    /\ act' = [act EXCEPT ![w] = IdleActor]
    /\ UNCHANGED <<run, cost, fresh, applied, crashes>>

(* The loop of EchoAgent::run, on its own read of the state: a row it cannot  *)
(* read and a Run that is paused or over end the thread.                     *)
WorkerLoop(w) ==
    /\ act[w].pc = "idle"
    /\ IF ~Readable(run) \/ run.status \in {"absent", "paused"} \/ Terminal(run)
       THEN act' = [act EXCEPT ![w] = Ended(w)]
       ELSE IF run.checkpointed >= StepCount
       THEN Call(w, "finish", 0)
       ELSE Call(w, "prepare", run.checkpointed)
    /\ UNCHANGED <<run, cost, fresh, applied, crashes>>

(* Slip of Resumable: the step is handed out whatever its tool.              *)
ResumableAlways(s, plan) ==
    /\ s.status = "running"
    /\ s.committed > s.checkpointed
    /\ plan = s.checkpointed

(* resume_committed_step: the durable step is handed out again only if its   *)
(* tool is idempotent; otherwise it waits for a human.                       *)
Resumable(s, plan) ==
    /\ s.status = "running"
    /\ s.committed > s.checkpointed
    /\ plan = s.checkpointed
    /\ Idempotent[plan]

(* settle_after_checkpoint looks again while a control waits for a boundary. *)
SettleAgain(me) == me.op = "settle" /\ run.control # "none" /\ me.tries + 1 < RetryMax

(* Slip of Returns: a step that waits for a human is tried again.            *)
ReturnsReconciliation(me, same) ==
    \/ me.op = "settle" /\ run.control = "none"
    \/ me.op = "record" /\ same
    \/ me.op = "prepare"

(* The early returns that are no error, which take a worker back to its loop: *)
(* no control is pending, and another process recorded the same effect.      *)
Returns(me, same) ==
    \/ me.op = "settle" /\ run.control = "none"
    \/ me.op = "record" /\ same

(* The state read of an operation and the decision it takes on it; a row that *)
(* cannot be read fails the operation.                                       *)
ReadState(a) ==
    LET me == act[a]
        batch == Decide(me.op, run, me.plan)
    IN /\ me.pc = "call"
       /\ \E same \in BOOLEAN : act' = [act EXCEPT ![a] =
                    IF ~Readable(run) THEN Ended(a)
                    ELSE IF batch # None THEN [me EXCEPT !.pc = "decided", !.batch = batch, !.read = run.spent]
                    ELSE IF me.op = "prepare" /\ Resumable(run, me.plan)
                    THEN [me EXCEPT !.pc = "effect"]
                    ELSE IF SettleAgain(me) THEN [me EXCEPT !.tries = @ + 1]
                    ELSE IF Returns(me, same) THEN IdleActor
                    ELSE Ended(a)]
       /\ UNCHANGED <<run, cost, fresh, applied, crashes>>

ReadHead(a) ==
    /\ act[a].pc = "decided"
    /\ act' = [act EXCEPT ![a].pc = "headed"]
    /\ fresh' = [fresh EXCEPT ![a] = TRUE]
    /\ UNCHANGED <<run, cost, applied, crashes>>

(* What follows an appended batch: the effect of the step just committed,    *)
(* settle_after_checkpoint, or the return of the operation.                  *)
AfterAppend(a, batch) ==
    CASE batch = "commit" -> [act[a] EXCEPT !.pc = "effect"]
      [] batch \in {"record", "pause", "cancel"} ->
            [IdleActor EXCEPT !.pc = "call", !.op = "settle"]
      [] OTHER -> IF act[a].op = "finish" THEN Ended(a) ELSE IdleActor

Append(a, c) ==
    LET batch == act[a].batch
        plan == act[a].plan
    IN /\ act[a].pc = "headed"
       /\ fresh[a]
       /\ ~Refused(batch, plan)
       /\ run' = Written(run, batch, act[a].read, c)
       /\ cost' = IF batch = "record" THEN [cost EXCEPT ![plan] = c] ELSE cost
       /\ act' = [act EXCEPT ![a] = AfterAppend(a, batch)]
       /\ fresh' = [b \in Actors |-> FALSE]
       /\ UNCHANGED <<applied, crashes>>

(* A projection refuses the batch: the operation returns the error.          *)
AppendRefused(a) ==
    /\ act[a].pc = "headed"
    /\ fresh[a]
    /\ Refused(act[a].batch, act[a].plan)
    /\ act' = [act EXCEPT ![a] = Ended(a)]
    /\ fresh' = [fresh EXCEPT ![a] = FALSE]
    /\ UNCHANGED <<run, cost, applied, crashes>>

(* Slip of HeadChanged: one round more than the bound.                       *)
HeadChangedOneMore(a) ==
    /\ act[a].pc = "headed"
    /\ ~fresh[a]
    /\ act' = [act EXCEPT ![a] =
                 IF @.op \in {"ask", "answer"} \/ @.tries = RetryMax THEN Ended(a)
                 ELSE [@ EXCEPT !.pc = "call", !.tries = @ + 1, !.batch = None, !.read = 0]]
    /\ UNCHANGED <<run, cost, fresh, applied, crashes>>

(* HeadChanged: over again from the state read.  ask and answer do not try   *)
(* again, and the others give up after RetryMax rounds.                      *)
HeadChanged(a) ==
    /\ act[a].pc = "headed"
    /\ ~fresh[a]
    /\ act' = [act EXCEPT ![a] =
                 IF act[a].op \in {"ask", "answer"} \/ act[a].tries + 1 = RetryMax THEN Ended(a)
                 ELSE [act[a] EXCEPT !.pc = "call", !.tries = @ + 1, !.batch = None, !.read = 0]]
    /\ UNCHANGED <<run, cost, fresh, applied, crashes>>

(* The authorized call crosses the effect boundary, then record_effect.      *)
ApplyEffect(w) ==
    /\ act[w].pc = "effect"
    /\ applied' = [applied EXCEPT ![act[w].plan] = @ + 1]
    /\ Call(w, "record", act[w].plan)
    /\ UNCHANGED <<run, cost, fresh, crashes>>

(* The effect fails, before or after it reached the outside: EchoAgent::run   *)
(* returns the error, and the step stays committed without a receipt.        *)
EffectFails(w) ==
    /\ act[w].pc = "effect"
    /\ \/ UNCHANGED <<applied, crashes>>
       \/ /\ crashes < MaxCrashes
          /\ crashes' = crashes + 1
          /\ applied' = [applied EXCEPT ![act[w].plan] = @ + 1]
    /\ act' = [act EXCEPT ![w] = Ended(w)]
    /\ UNCHANGED <<run, cost, fresh>>

Crash(a) ==
    /\ act[a] # Ended(a)
    /\ crashes < MaxCrashes
    /\ crashes' = crashes + 1
    /\ act' = [act EXCEPT ![a] = Ended(a)]
    /\ fresh' = [fresh EXCEPT ![a] = FALSE]
    /\ UNCHANGED <<run, cost, applied>>

ActorNext(a) ==
    \/ ReadState(a)
    \/ ReadHead(a)
    \/ AppendRefused(a)
    \/ HeadChanged(a)
    \/ Crash(a)

Common ==
    \/ Start
    \/ \E u \in Users, op \in UserOps : UserCall(u, op)
    \/ \E w \in Workers : Launch(w) \/ WorkerLoop(w) \/ ApplyEffect(w) \/ EffectFails(w)
    \/ \E a \in Actors : ActorNext(a)

Next == Common \/ \E a \in Actors, c \in Costs : Append(a, c)

(* No fact lands between the state read and the head read of another         *)
(* operation: what comparing the head is meant to rule out.                  *)
Calm(a) == \A b \in Actors \ {a} : act[b].pc # "decided"

CalmNext == Common \/ \E a \in Actors, c \in Costs : Calm(a) /\ Append(a, c)

Spec == Init /\ [][Next]_vars
CalmSpec == Init /\ [][CalmNext]_vars

(* A thread that runs takes its next step, and calls return or fail.  Nothing *)
(* makes a worker start, and nothing keeps it from ending.                   *)
FairCalmSpec ==
    /\ CalmSpec
    /\ \A w \in Workers : WF_vars(WorkerLoop(w)) /\ WF_vars(ApplyEffect(w) \/ EffectFails(w))
    /\ \A a \in Actors :
          /\ WF_vars(ReadState(a)) /\ WF_vars(ReadHead(a))
          /\ WF_vars(AppendRefused(a) \/ HeadChanged(a))
          /\ SF_vars(\E c \in Costs : Calm(a) /\ Append(a, c))

-----------------------------------------------------------------------------
(* Types of the rows and of what an actor carries.                           *)
TypeOK ==
    /\ run \in Runs
    /\ cost \in [Steps -> Costs \cup {None}]
    /\ \A a \in Actors :
          /\ act[a].pc \in {"gone", "idle", "call", "decided", "headed", "effect"}
          /\ act[a].op \in Ops \cup {None}
          /\ act[a].batch \in Batches \cup {None}
          /\ act[a].read \in Nat
          /\ act[a].tries \in 0..(RetryMax - 1)
          /\ act[a].plan \in 0..StepCount
    /\ fresh \in [Actors -> BOOLEAN]
    /\ applied \in [Steps -> Nat]
    /\ crashes \in Nat

(* At most one committed step is without its checkpoint, the step rows agree *)
(* with the counters, and a receipt is there only for an effect that was     *)
(* applied, whatever raced or crashed.                                       *)
OneOutstandingStep ==
    /\ run.committed - run.checkpointed \in {0, 1}
    /\ \A n \in Steps : (cost[n] # None) <=> n < run.checkpointed
    /\ \A n \in Steps : cost[n] # None => applied[n] >= 1
    /\ \A n \in Steps : applied[n] >= 1 => n < run.committed

(* A non-idempotent effect reaches the outside at most once, through crashes *)
(* between effect and receipt and a second process that resumes the Run.     *)
NonIdempotentOnce == \A n \in Steps : ~Idempotent[n] => applied[n] <= 1

(* The row can always be read back: its status and its pause columns, which   *)
(* different facts write, never disagree.                                    *)
RowReadable == Readable(run)

(* What the Run has spent is what its receipts say, unit by unit, and (L8) it *)
(* is past the limit only by what one step spent beyond its reservation.     *)
SpendBounded ==
    /\ run.spent = Cardinality(UNION {{n} \X (1..cost[n]) : n \in {m \in Steps : cost[m] # None}})
    /\ \E over \in {0} \cup {c - Reserve : c \in {d \in Costs : d > Reserve}} :
          run.spent <= Budget + over

StaysTerminal == Terminal(run) => run'.status = run.status

(* A terminal Run stays as it ended.                                         *)
TerminalIsFinal == [][StaysTerminal]_vars

(* A cancel once accepted ends in canceled, and stays so.  One fact alone     *)
(* takes it back: the pause in the batch of a receipt that exceeds its        *)
(* reservation.                                                              *)
CancelHonored ==
    [][/\ StaysTerminal
       /\ run.control = "cancel" /\ run'.control # "cancel" =>
             \/ run'.status = "canceled"
             \/ run'.status = "paused" /\ run'.spent - run.spent > Reserve]_vars

(* A control does not stay pending under a worker that runs: the worker       *)
(* settles it, at the latest at the boundary it reaches next, or its thread   *)
(* ends on an error that leaves the Run to be resumed.                       *)
ControlSettles ==
    \A w \in Workers :
        run.control # "none" /\ act[w].pc # "gone" ~> run.control = "none" \/ act[w].pc = "gone"
=============================================================================
