-------------------------- MODULE RunHarnessProofs --------------------------
(***************************************************************************)
(* Proofs about RunHarness, for every set of workers and users, every plan,  *)
(* budget and retry bound, and any number of crashes.                        *)
(***************************************************************************)
EXTENDS RunHarness, FiniteSetTheorems, TLAPS

ActRows == [pc: {"gone", "idle", "call", "decided", "headed", "effect"}, op: Ops \cup {None},
            plan: 0..StepCount, batch: Batches \cup {None}, read: Nat, tries: 0..(RetryMax - 1)]

ActTypeOK == TypeOK /\ act \in [Actors -> ActRows]

(* What the actor in state s carries is covered by the rows r and the effects *)
(* ap: it runs an operation of a started Run; a call in its hands is of a     *)
(* committed step, a receipt of one whose effect was applied, and a step it   *)
(* decided to commit was the next one when it read the row.                  *)
Carries(s, r, ap) ==
    /\ s.pc \notin {"gone", "idle"} => s.op \in Ops /\ r.status # "absent"
    /\ s.pc = "effect" => s.op = "prepare" /\ s.plan < r.committed
    /\ s.op \in {"prepare", "record"} => s.plan \in Steps
    /\ s.op = "record" => s.plan < r.committed /\ ap[s.plan] >= 1
    /\ s.pc \in {"decided", "headed"} =>
          /\ s.batch # None
          /\ s.batch = "commit" => s.op = "prepare" /\ s.plan <= r.checkpointed
          /\ s.batch = "record" <=> s.op = "record"

(* A call of a step that may not be repeated is in one actor's hands at most, *)
(* and only while its effect was not applied.                                *)
HeldOnce ==
    \A n \in Steps : ~Idempotent[n] =>
        \A a \in Actors : act[a].pc = "effect" /\ act[a].plan = n =>
            /\ applied[n] = 0
            /\ \A b \in Actors : act[b].pc = "effect" /\ act[b].plan = n => b = a

HarnessInv ==
    /\ ActTypeOK
    /\ OneOutstandingStep
    /\ \A a \in Actors : Carries(act[a], run, applied)
    /\ HeldOnce
    /\ NonIdempotentOnce

(* What each operation has seen in the row when it decides on a batch: the    *)
(* conditions and early returns of the harness, read off the batch.          *)
LEMMA DecisionSaw ==
    ASSUME NEW op \in Ops, NEW s \in Runs, NEW plan,
           Decide(op, s, plan) # None
    PROVE  LET b == Decide(op, s, plan) IN
           /\ b \in Batches
           /\ b = "record" <=> op = "record"
           /\ b = "commit" => /\ op = "prepare" /\ plan = s.committed /\ AtBoundary(s)
                              /\ s.status = "running" /\ s.control = "none"
                              /\ ~(s.spent + Reserve > Budget)
           /\ b = "record" => cost[plan] = None
           /\ b = "settlePause" => AtBoundary(s) /\ s.control = "pause"
           /\ b = "settleCancel" => AtBoundary(s) /\ s.control = "cancel"
           /\ b = "budgetPause" => s.control = "none" /\ s.status = "running"
           /\ b = "finish" => ~Terminal(s) /\ AtBoundary(s) /\ s.control = "none" /\ s.status # "paused"
           /\ b \in {"pause", "cancel"} => ~Terminal(s) /\ s.control = "none"
           /\ b = "resume" => s.status = "paused" /\ s.control = "none"
           /\ b = "ask" => s.status = "running"
           /\ b = "answer" => s.status = "waiting_input"
<1> USE DEF Ops, Batches
<1>1. CASE op = "prepare"
  BY <1>1 DEF Decide, PrepareBatch, SettleBatch
<1>2. CASE op = "record"
  BY <1>2 DEF Decide
<1>3. CASE op = "settle"
  BY <1>3 DEF Decide, SettleBatch
<1>4. CASE op = "finish"
  BY <1>4 DEF Decide, FinishBatch, SettleBatch
<1>5. CASE op \in {"pause", "cancel"}
  BY <1>5 DEF Decide, RequestBatch
<1>6. CASE op \in {"resume", "ask", "answer"}
  BY <1>6 DEF Decide
<1> QED
  BY <1>1, <1>2, <1>3, <1>4, <1>5, <1>6

(* A pause writes a row, whatever it finds.                                  *)
LEMMA PausedRow ==
    ASSUME NEW r \in Runs, NEW spent \in Nat
    PROVE  /\ Paused(r, spent) \in Runs
           /\ Paused(r, spent).status = "paused" /\ Paused(r, spent).control = "none"
           /\ Paused(r, spent).committed = r.committed
           /\ Paused(r, spent).checkpointed = r.checkpointed
           /\ Paused(r, spent).spent = spent /\ Paused(r, spent).pause
BY DEF Paused, Runs, Statuses, Controls

(* A batch writes a row; only a step moves committed, only a receipt         *)
(* checkpointed, and a started Run stays started.                            *)
LEMMA WrittenRow ==
    ASSUME NEW r \in Runs, NEW batch \in Batches, NEW read \in Nat, NEW c \in Nat
    PROVE  LET w == Written(r, batch, read, c) IN
           /\ w \in Runs
           /\ w.committed = IF batch = "commit" THEN r.committed + 1 ELSE r.committed
           /\ w.checkpointed = IF batch = "record" THEN r.checkpointed + 1 ELSE r.checkpointed
           /\ r.status # "absent" => w.status # "absent"
<1> DEFINE w == Written(r, batch, read, c)
<1> DEFINE n == r.committed + 1
           m == r.checkpointed + 1
           total == r.spent + c
<1>0. n \in Nat /\ m \in Nat /\ total \in Nat
  BY DEF Runs
<1>1. CASE batch = "commit"
  <2>1. w = [r EXCEPT !.status = "running", !.committed = n]
    BY <1>1 DEF Written
  <2> HIDE DEF n, w
  <2>2. w \in Runs /\ w.committed = n /\ w.checkpointed = r.checkpointed /\ w.status = "running"
    BY <1>0, <2>1 DEF Runs, Statuses
  <2> QED
    BY <1>1, <2>2 DEF n, w
<1>2. CASE batch = "record"
  <2> DEFINE q == [r EXCEPT !.checkpointed = m, !.spent = total]
             spent == read + c
  <2>1. w = IF c > Reserve THEN Paused(q, spent) ELSE q
    BY <1>2 DEF Written, Recorded
  <2>2. spent \in Nat
    OBVIOUS
  <2> HIDE DEF m, total, spent, w
  <2>3. q \in Runs /\ q.committed = r.committed /\ q.checkpointed = m /\ q.status = r.status
    BY <1>0 DEF Runs
  <2> HIDE DEF q
  <2>4. w \in Runs /\ w.committed = q.committed /\ w.checkpointed = q.checkpointed
        /\ (w.status = "paused" \/ w.status = q.status)
    BY <2>1, <2>2, <2>3, PausedRow
  <2> QED
    BY <1>2, <2>3, <2>4 DEF m, w
<1>3. CASE batch \in {"settlePause", "budgetPause"}
  BY <1>3, PausedRow DEF Written
<1>4. CASE batch = "settleCancel"
  BY <1>4 DEF Written, Runs, Statuses, Controls
<1>5. CASE batch \in {"finish", "ask", "answer"}
  BY <1>5 DEF Written, Runs, Statuses
<1>6. CASE batch \in {"pause", "cancel"}
  BY <1>6 DEF Written, Runs, Controls
<1>7. CASE batch = "resume"
  BY <1>7 DEF Written, Resumed, Runs, Statuses, Controls
<1> QED
  BY <1>1, <1>2, <1>3, <1>4, <1>5, <1>6, <1>7 DEF Batches

(* An actor at rest, one that calls an operation, and what each carries.     *)
LEMMA Calls ==
    /\ IdleActor \in ActRows /\ IdleActor.pc = "idle" /\ IdleActor.op = None
    /\ \A op \in Ops, plan \in 0..StepCount :
          LET s == [IdleActor EXCEPT !.pc = "call", !.op = op, !.plan = plan]
          IN s \in ActRows /\ s.pc = "call" /\ s.op = op /\ s.plan = plan
    /\ LET s == [IdleActor EXCEPT !.pc = "call", !.op = "settle"]
       IN s \in ActRows /\ s.pc = "call" /\ s.op = "settle"
<1>1. IdleActor \in ActRows /\ IdleActor.pc = "idle" /\ IdleActor.op = None
  BY ConstantsAssumption DEF IdleActor, ActRows
<1> QED
  BY ZenonT(40), <1>1 DEF ActRows, Ops

(* An actor whose operation ended: a worker without a thread, a user at rest. *)
LEMMA Ends ==
    ASSUME NEW a
    PROVE  Ended(a) \in ActRows /\ Ended(a).pc \in {"gone", "idle"} /\ Ended(a).op = None
<1> DEFINE gone == [IdleActor EXCEPT !.pc = "gone"]
<1>1. gone \in ActRows /\ gone.pc = "gone" /\ gone.op = None
  BY ConstantsAssumption DEF IdleActor, ActRows
<1> HIDE DEF gone
<1>2. Ended(a) = gone \/ Ended(a) = IdleActor
  BY DEF Ended, gone
<1> QED
  BY <1>1, <1>2, Calls

(* An actor at rest carries nothing, nor does one that ended.                *)
LEMMA IdleCarries ==
    ASSUME NEW r, NEW ap
    PROVE  Carries(IdleActor, r, ap) /\ \A a : Carries(Ended(a), r, ap)
<1>1. None # "record" /\ None # "prepare"
  BY ConstantsAssumption DEF Ops
<1>2. Carries(IdleActor, r, ap)
  BY <1>1, Calls DEF Carries
<1>3. ASSUME NEW a PROVE Carries(Ended(a), r, ap)
  <2>1. Ended(a).pc \in {"gone", "idle"} /\ Ended(a).op = None
    BY Ends
  <2> QED
    BY <1>1, <2>1 DEF Carries
<1> QED
  BY <1>2, <1>3

(* A Run that was never started.                                             *)
LEMMA InitHarness == Init => HarnessInv
<1> SUFFICES ASSUME Init PROVE HarnessInv
  OBVIOUS
<1>1. act \in [Actors -> ActRows] /\ \A a \in Actors : act[a] = Ended(a)
  BY Ends DEF Init
<1>2. TypeOK
  <2>1. run \in Runs
    BY DEF Init, Runs, Statuses, Controls
  <2>2. cost \in [Steps -> Costs \cup {None}] /\ applied \in [Steps -> Nat] /\ crashes \in Nat
    BY DEF Init
  <2>3. fresh \in [Actors -> BOOLEAN]
    BY DEF Init
  <2> QED
    BY <1>1, <2>1, <2>2, <2>3 DEF TypeOK, ActRows
<1>3. OneOutstandingStep
  BY DEF Init, OneOutstandingStep, Steps
<1>4. \A a \in Actors : Carries(act[a], run, applied)
  BY <1>1, IdleCarries
<1>5. HeldOnce /\ NonIdempotentOnce
  <2>1. \A n \in Steps : applied[n] = 0
    BY DEF Init
  <2>2. \A a \in Actors : act[a].pc \in {"gone", "idle"}
    BY <1>1, Ends
  <2>3. HeldOnce
    BY <2>2 DEF HeldOnce
  <2> QED
    BY <2>1, <2>3 DEF NonIdempotentOnce
<1> QED
  BY <1>1, <1>2, <1>3, <1>4, <1>5 DEF HarnessInv, ActTypeOK

(* What an actor carries stays covered while the row only moves forward.     *)
LEMMA CarriesOn ==
    ASSUME NEW s \in ActRows, NEW r \in Runs, NEW q \in Runs,
           NEW ap \in [Steps -> Nat], NEW aq \in [Steps -> Nat],
           Carries(s, r, ap),
           r.committed <= q.committed, r.checkpointed <= q.checkpointed,
           r.status # "absent" => q.status # "absent",
           \A n \in Steps : ap[n] <= aq[n]
    PROVE  Carries(s, q, aq)
<1>1. s.plan \in Int /\ r.committed \in Int /\ q.committed \in Int
      /\ r.checkpointed \in Int /\ q.checkpointed \in Int
  BY DEF ActRows, Runs
<1>2. s.pc = "effect" => s.plan < q.committed
  BY <1>1 DEF Carries
<1>3. s.op = "record" => s.plan < q.committed /\ aq[s.plan] >= 1
  BY <1>1 DEF Carries
<1>4. s.pc \in {"decided", "headed"} /\ s.batch = "commit" => s.plan <= q.checkpointed
  BY <1>1 DEF Carries
<1> QED
  BY <1>2, <1>3, <1>4 DEF Carries

(* A step that moves one actor and nothing durable: it hands out a step that  *)
(* may not be repeated to nobody.                                            *)
LEMMA OneActorMoves ==
    ASSUME HarnessInv, NEW a \in Actors, NEW x \in ActRows,
           act' = [act EXCEPT ![a] = x],
           UNCHANGED <<run, cost, applied>>,
           fresh' \in [Actors -> BOOLEAN], crashes' \in Nat,
           Carries(x, run, applied),
           x.pc = "effect" => Idempotent[x.plan]
    PROVE  HarnessInv'
<1>1. act' \in [Actors -> ActRows] /\ act'[a] = x
      /\ \A b \in Actors \ {a} : act'[b] = act[b]
  BY DEF HarnessInv, ActTypeOK
<1>2. ActTypeOK'
  <2>1. \A b \in Actors : act'[b] \in ActRows
    BY <1>1
  <2> QED
    BY <1>1, <2>1 DEF HarnessInv, ActTypeOK, TypeOK, ActRows
<1>3. OneOutstandingStep' /\ NonIdempotentOnce'
  BY DEF HarnessInv, OneOutstandingStep, NonIdempotentOnce
<1>4. \A b \in Actors : Carries(act'[b], run, applied)
  BY <1>1 DEF HarnessInv
<1>5. HeldOnce'
  BY <1>1 DEF HarnessInv, HeldOnce
<1> QED
  BY <1>2, <1>3, <1>4, <1>5 DEF HarnessInv

(* The step row and the receipt of an append: the batch that passes the       *)
(* strict writes commits the next step, or checkpoints the outstanding one.  *)
LEMMA AppendFits ==
    ASSUME HarnessInv, NEW a \in Actors, act[a].pc = "headed",
           ~Refused(act[a].batch, act[a].plan)
    PROVE  /\ act[a].batch \in Batches
           /\ act[a].batch = "commit" =>
                 /\ act[a].op = "prepare" /\ act[a].plan \in Steps
                 /\ act[a].plan = run.committed /\ run.committed = run.checkpointed
           /\ act[a].batch = "record" =>
                 /\ act[a].op = "record" /\ act[a].plan \in Steps /\ cost[act[a].plan] = None
                 /\ applied[act[a].plan] >= 1
                 /\ act[a].plan = run.checkpointed /\ run.committed = run.checkpointed + 1
<1>1. /\ act[a] \in ActRows /\ Carries(act[a], run, applied)
      /\ run.committed \in Nat /\ run.checkpointed \in Nat
  BY DEF HarnessInv, ActTypeOK, TypeOK, Runs
<1>2. act[a].batch \in Batches /\ act[a].plan \in Int
  BY <1>1 DEF Carries, ActRows
<1>3. run.committed - run.checkpointed \in {0, 1}
      /\ \A n \in Steps : (cost[n] # None) <=> n < run.checkpointed
  BY DEF HarnessInv, OneOutstandingStep
<1>4. ASSUME act[a].batch = "commit"
      PROVE  /\ act[a].op = "prepare" /\ act[a].plan \in Steps
             /\ act[a].plan = run.committed /\ run.committed = run.checkpointed
  <2>1. act[a].op = "prepare" /\ act[a].plan \in Steps /\ act[a].plan <= run.checkpointed
    BY <1>1, <1>4 DEF Carries
  <2>2. ~(act[a].plan < run.committed)
    BY <1>4 DEF Refused
  <2> QED
    BY <1>1, <1>2, <1>3, <2>1, <2>2
<1>5. ASSUME act[a].batch = "record"
      PROVE  /\ act[a].op = "record" /\ act[a].plan \in Steps /\ cost[act[a].plan] = None
             /\ applied[act[a].plan] >= 1
             /\ act[a].plan = run.checkpointed /\ run.committed = run.checkpointed + 1
  <2>1. act[a].op = "record" /\ act[a].plan \in Steps /\ act[a].plan < run.committed
        /\ applied[act[a].plan] >= 1
    BY <1>1, <1>5 DEF Carries
  <2>2. cost[act[a].plan] = None
    BY <1>5 DEF Refused
  <2>3. ~(act[a].plan < run.checkpointed)
    BY <1>3, <2>1, <2>2
  <2> QED
    BY <1>1, <1>2, <1>3, <2>1, <2>2, <2>3
<1> QED
  BY <1>2, <1>4, <1>5

(* An appended batch keeps the harness sound.                                *)
LEMMA AppendSound ==
    ASSUME HarnessInv, NEW a \in Actors, NEW c \in Costs, Append(a, c)
    PROVE  HarnessInv'
<1> DEFINE batch == act[a].batch
           plan == act[a].plan
           x == AfterAppend(a, batch)
<1>1. /\ act[a].pc = "headed" /\ ~Refused(batch, plan)
      /\ run' = Written(run, batch, act[a].read, c)
      /\ cost' = IF batch = "record" THEN [cost EXCEPT ![plan] = c] ELSE cost
      /\ act' = [act EXCEPT ![a] = x]
      /\ fresh' = [b \in Actors |-> FALSE]
      /\ UNCHANGED <<applied, crashes>>
  BY DEF Append
<1>2. /\ batch \in Batches
      /\ batch = "commit" =>
            /\ act[a].op = "prepare" /\ plan \in Steps
            /\ plan = run.committed /\ run.committed = run.checkpointed
      /\ batch = "record" =>
            /\ plan \in Steps /\ cost[plan] = None /\ applied[plan] >= 1
            /\ plan = run.checkpointed /\ run.committed = run.checkpointed + 1
  BY <1>1, AppendFits
<1>3. /\ run \in Runs /\ act[a] \in ActRows /\ act[a].read \in Nat /\ c \in Nat /\ c # None
      /\ cost \in [Steps -> Costs \cup {None}] /\ applied \in [Steps -> Nat]
      /\ run.committed \in Nat /\ run.checkpointed \in Nat /\ run.status # "absent"
  <2>1. Carries(act[a], run, applied) /\ run.status # "absent"
    BY <1>1 DEF HarnessInv, Carries
  <2>2. c \in Nat /\ c # None
    BY ConstantsAssumption
  <2> QED
    BY <2>1, <2>2 DEF HarnessInv, ActTypeOK, TypeOK, Runs, ActRows
<1>4. /\ run' \in Runs
      /\ run'.committed = IF batch = "commit" THEN run.committed + 1 ELSE run.committed
      /\ run'.checkpointed = IF batch = "record" THEN run.checkpointed + 1 ELSE run.checkpointed
      /\ run'.status # "absent"
  <2> DEFINE w == Written(run, batch, act[a].read, c)
  <2>1. /\ w \in Runs
        /\ w.committed = IF batch = "commit" THEN run.committed + 1 ELSE run.committed
        /\ w.checkpointed = IF batch = "record" THEN run.checkpointed + 1 ELSE run.checkpointed
        /\ run.status # "absent" => w.status # "absent"
    <3> HIDE DEF batch
    <3>1. batch \in Batches
      BY <1>2
    <3> QED
      BY ZenonT(40), <1>3, <3>1, WrittenRow
  <2>2. run' = w
    BY <1>1
  <2> QED
    BY <1>3, <2>1, <2>2
<1>5. /\ x \in ActRows
      /\ batch = "commit" => x.pc = "effect" /\ x.op = "prepare" /\ x.plan = plan
      /\ batch # "commit" => x.pc \in {"gone", "idle", "call"} /\ x.op \in {None, "settle"}
                             /\ (x.pc = "call" => x.op = "settle")
  <2>1. CASE batch = "commit"
    BY <1>2, <1>3, <2>1 DEF AfterAppend, ActRows
  <2>2. CASE batch # "commit"
    BY <2>2, Calls, Ends DEF AfterAppend
  <2> QED
    BY <2>1, <2>2
<1> HIDE DEF x
<1>6. act' \in [Actors -> ActRows] /\ act'[a] = x /\ \A b \in Actors \ {a} : act'[b] = act[b]
  BY <1>1, <1>5 DEF HarnessInv, ActTypeOK
<1>7. ActTypeOK'
  <2>1. cost' \in [Steps -> Costs \cup {None}]
    BY <1>1, <1>2, <1>3
  <2>2. fresh' \in [Actors -> BOOLEAN]
    BY <1>1
  <2>3. \A b \in Actors : act'[b] \in ActRows
    BY <1>6
  <2> QED
    BY <1>1, <1>4, <1>6, <2>1, <2>2, <2>3 DEF HarnessInv, ActTypeOK, TypeOK, ActRows
<1>8. OneOutstandingStep'
  <2>1. run'.committed - run'.checkpointed \in {0, 1}
    BY <1>2, <1>3, <1>4 DEF HarnessInv, OneOutstandingStep
  <2>2. ASSUME NEW n \in Steps PROVE (cost'[n] # None) <=> n < run'.checkpointed
    <3>1. n \in Int /\ ((cost[n] # None) <=> n < run.checkpointed)
      BY DEF HarnessInv, OneOutstandingStep, Steps
    <3>2. CASE batch = "record"
      BY <1>1, <1>2, <1>3, <1>4, <3>1, <3>2
    <3>3. CASE batch # "record"
      BY <1>1, <1>4, <3>1, <3>3
    <3> QED
      BY <3>2, <3>3
  <2>3. ASSUME NEW n \in Steps PROVE cost'[n] # None => applied[n] >= 1
    BY <1>1, <1>2, <1>3 DEF HarnessInv, OneOutstandingStep
  <2>4. ASSUME NEW n \in Steps PROVE applied[n] >= 1 => n < run'.committed
    <3>1. n \in Int /\ (applied[n] >= 1 => n < run.committed)
      BY DEF HarnessInv, OneOutstandingStep, Steps
    <3> QED
      BY <1>3, <1>4, <3>1
  <2> QED
    BY <1>1, <2>1, <2>2, <2>3, <2>4 DEF OneOutstandingStep
<1>9. ASSUME NEW b \in Actors PROVE Carries(act'[b], run', applied')
  <2>1. CASE b # a
    <3>1. act'[b] = act[b] /\ act[b] \in ActRows /\ Carries(act[b], run, applied)
      BY <1>6, <2>1 DEF HarnessInv, ActTypeOK
    <3>2. run.committed <= run'.committed /\ run.checkpointed <= run'.checkpointed
      BY <1>3, <1>4
    <3>3. \A n \in Steps : applied[n] <= applied[n]
      BY <1>3
    <3> QED
      BY <1>1, <1>3, <1>4, <3>1, <3>2, <3>3, CarriesOn
  <2>2. CASE b = a /\ batch = "commit"
    <3>1. plan < run'.committed /\ plan \in Steps
      BY <1>2, <1>3, <1>4, <2>2
    <3> QED
      BY <1>4, <1>5, <1>6, <2>2, <3>1 DEF Carries, Ops
  <2>3. CASE b = a /\ batch # "commit"
    <3>1. None # "record" /\ None # "prepare"
      BY ConstantsAssumption DEF Ops
    <3> QED
      BY <1>4, <1>5, <1>6, <2>3, <3>1 DEF Carries, Ops
  <2> QED
    BY <2>1, <2>2, <2>3
<1>10. HeldOnce'
  <2> SUFFICES ASSUME NEW n \in Steps, ~Idempotent[n], NEW b \in Actors,
                      act'[b].pc = "effect", act'[b].plan = n
               PROVE  /\ applied[n] = 0
                      /\ \A d \in Actors : act'[d].pc = "effect" /\ act'[d].plan = n => d = b
    BY <1>1 DEF HeldOnce
  <2>1. CASE batch = "commit" /\ n = plan
    <3>1. \A d \in Actors \ {a} : act[d].pc = "effect" => act[d].plan < run.committed
      BY DEF HarnessInv, Carries
    <3>2. ~(n < run.committed)
      BY <1>2, <1>3, <2>1
    <3>3. \A d \in Actors \ {a} : ~(act'[d].pc = "effect" /\ act'[d].plan = n)
      BY <1>6, <3>1, <3>2
    <3>4. ~(applied[n] >= 1)
      BY <3>2 DEF HarnessInv, OneOutstandingStep
    <3> QED
      BY <1>3, <3>3, <3>4
  <2>2. CASE ~(batch = "commit" /\ n = plan)
    <3>1. ~(act'[a].pc = "effect" /\ act'[a].plan = n)
      BY <1>5, <1>6, <2>2
    <3> QED
      BY <1>6, <3>1 DEF HarnessInv, HeldOnce
  <2> QED
    BY <2>1, <2>2
<1>11. NonIdempotentOnce'
  BY <1>1 DEF HarnessInv, NonIdempotentOnce
<1> QED
  BY <1>7, <1>8, <1>9, <1>10, <1>11 DEF HarnessInv

(* The state read of an operation: it returns, decides on a batch, hands the  *)
(* outstanding step of an idempotent tool out again, or looks once more.     *)
LEMMA ReadStateSound ==
    ASSUME HarnessInv, NEW a \in Actors, ReadState(a)
    PROVE  HarnessInv'
<1> DEFINE s == act[a]
           batch == Decide(s.op, run, s.plan)
           decided == [s EXCEPT !.pc = "decided", !.batch = batch, !.read = run.spent]
           resumed == [s EXCEPT !.pc = "effect"]
           again == [s EXCEPT !.tries = @ + 1]
           x(same) == IF ~Readable(run) THEN Ended(a)
                      ELSE IF batch # None THEN decided
                      ELSE IF s.op = "prepare" /\ Resumable(run, s.plan) THEN resumed
                      ELSE IF SettleAgain(s) THEN again
                      ELSE IF Returns(s, same) THEN IdleActor
                      ELSE Ended(a)
<1>1. /\ s.pc = "call"
      /\ \E same \in BOOLEAN : act' = [act EXCEPT ![a] = x(same)]
      /\ UNCHANGED <<run, cost, fresh, applied, crashes>>
  BY DEF ReadState
<1>2. /\ s \in ActRows /\ run \in Runs /\ run.spent \in Nat /\ Carries(s, run, applied)
      /\ s.op \in Ops /\ run.status # "absent"
      /\ fresh \in [Actors -> BOOLEAN] /\ crashes \in Nat
      /\ run.committed \in Nat /\ run.checkpointed \in Nat
  BY <1>1 DEF HarnessInv, ActTypeOK, TypeOK, Runs, Carries
<1>3. ASSUME batch # None
      PROVE  decided \in ActRows /\ decided.pc # "effect" /\ Carries(decided, run, applied)
  <2>1. /\ batch \in Batches
        /\ batch = "record" <=> s.op = "record"
        /\ batch = "commit" => s.op = "prepare" /\ s.plan = run.committed /\ AtBoundary(run)
    BY <1>2, <1>3, DecisionSaw
  <2> HIDE DEF batch
  <2>2. /\ decided \in ActRows /\ decided.pc = "decided" /\ decided.op = s.op
        /\ decided.plan = s.plan /\ decided.batch = batch
    BY <1>2, <2>1 DEF ActRows
  <2> HIDE DEF decided
  <2>3. batch = "commit" => s.plan <= run.checkpointed
    BY <1>2, <2>1 DEF AtBoundary
  <2> QED
    BY <1>2, <1>3, <2>1, <2>2, <2>3 DEF Carries
<1>4. ASSUME s.op = "prepare", Resumable(run, s.plan)
      PROVE  resumed \in ActRows /\ resumed.plan = s.plan /\ Idempotent[s.plan]
             /\ Carries(resumed, run, applied)
  <2>1. /\ resumed \in ActRows /\ resumed.pc = "effect" /\ resumed.op = "prepare"
        /\ resumed.plan = s.plan
    BY <1>2, <1>4 DEF ActRows
  <2>2. s.plan < run.committed /\ Idempotent[s.plan]
    BY <1>2, <1>4 DEF Resumable
  <2> HIDE DEF resumed
  <2> QED
    BY <1>2, <1>4, <2>1, <2>2 DEF Carries
<1>5. ASSUME SettleAgain(s)
      PROVE  again \in ActRows /\ again.pc = "call" /\ Carries(again, run, applied)
  <2> DEFINE t == s.tries + 1
  <2>1. t \in 0..(RetryMax - 1) /\ s.op = "settle"
    BY <1>2, <1>5, ConstantsAssumption DEF SettleAgain, ActRows
  <2>2. again = [s EXCEPT !.tries = t]
    OBVIOUS
  <2> HIDE DEF t, again
  <2>3. again \in ActRows /\ again.pc = "call" /\ again.op = "settle"
    BY <1>1, <1>2, <2>1, <2>2 DEF ActRows
  <2> QED
    BY <1>2, <2>3 DEF Carries, Ops
<1>6. /\ IdleActor \in ActRows /\ IdleActor.pc = "idle" /\ Carries(IdleActor, run, applied)
      /\ Ended(a) \in ActRows /\ Ended(a).pc # "effect" /\ Carries(Ended(a), run, applied)
  BY Calls, Ends, IdleCarries
<1> HIDE DEF decided, resumed, again, batch
<1>7. ASSUME NEW same \in BOOLEAN
      PROVE  x(same) \in ActRows /\ Carries(x(same), run, applied)
             /\ (x(same).pc = "effect" => Idempotent[x(same).plan])
  BY <1>3, <1>4, <1>5, <1>6
<1> HIDE DEF x
<1>8. PICK same \in BOOLEAN : act' = [act EXCEPT ![a] = x(same)]
  BY <1>1
<1>9. x(same) \in ActRows /\ Carries(x(same), run, applied)
      /\ (x(same).pc = "effect" => Idempotent[x(same).plan])
  BY <1>7
<1> QED
  BY <1>1, <1>2, <1>8, <1>9, OneActorMoves

(* Every step of a worker, of a user and of a crash keeps the harness sound.  *)
LEMMA HarnessStep == HarnessInv /\ [Next]_vars => HarnessInv'
<1> SUFFICES ASSUME HarnessInv, [Next]_vars PROVE HarnessInv'
  OBVIOUS
<1>a. /\ run \in Runs /\ fresh \in [Actors -> BOOLEAN] /\ crashes \in Nat
      /\ cost \in [Steps -> Costs \cup {None}] /\ applied \in [Steps -> Nat]
      /\ act \in [Actors -> ActRows]
  BY DEF HarnessInv, ActTypeOK, TypeOK
<1>b. ASSUME NEW a \in Actors, NEW x, x = Ended(a) \/ x = IdleActor,
             act' = [act EXCEPT ![a] = x],
             UNCHANGED <<run, cost, applied>>, fresh' \in [Actors -> BOOLEAN], crashes' \in Nat
      PROVE  HarnessInv'
  <2>1. x \in ActRows /\ x.pc # "effect" /\ Carries(x, run, applied)
    <3>1. Ended(a) \in ActRows /\ Ended(a).pc # "effect" /\ Carries(Ended(a), run, applied)
      BY Ends, IdleCarries
    <3>2. IdleActor \in ActRows /\ IdleActor.pc # "effect" /\ Carries(IdleActor, run, applied)
      BY Calls, IdleCarries
    <3> QED
      BY <1>b, <3>1, <3>2
  <2> QED
    BY <1>b, <2>1, OneActorMoves
<1>c. ASSUME NEW a \in Actors, NEW op \in Ops, NEW plan \in 0..StepCount,
             Call(a, op, plan), UNCHANGED <<run, cost, fresh, applied, crashes>>,
             run.status # "absent", op # "record", op = "prepare" => plan \in Steps
      PROVE  HarnessInv'
  <2> DEFINE x == [IdleActor EXCEPT !.pc = "call", !.op = op, !.plan = plan]
  <2>1. x \in ActRows /\ x.pc = "call" /\ x.op = op /\ x.plan = plan
    BY Calls
  <2>2. act' = [act EXCEPT ![a] = x]
    BY <1>c DEF Call
  <2> HIDE DEF x
  <2>3. Carries(x, run, applied)
    BY <1>c, <2>1 DEF Carries
  <2> QED
    BY <1>a, <1>c, <2>1, <2>2, <2>3, OneActorMoves
<1>1. CASE Start
  <2>1. /\ run' \in Runs /\ run'.committed = run.committed /\ run'.checkpointed = run.checkpointed
        /\ run'.status # "absent"
    BY <1>1, <1>a DEF Start, Runs, Statuses
  <2>2. fresh' \in [Actors -> BOOLEAN] /\ UNCHANGED <<cost, act, applied, crashes>>
    BY <1>1 DEF Start
  <2>3. ASSUME NEW b \in Actors PROVE Carries(act[b], run', applied)
    <3>1. run.committed <= run'.committed /\ run.checkpointed <= run'.checkpointed
          /\ \A n \in Steps : applied[n] <= applied[n]
      BY <1>a, <2>1 DEF Runs
    <3> QED
      BY <1>a, <2>1, <3>1, CarriesOn DEF HarnessInv
  <2>4. ActTypeOK'
    BY <2>1, <2>2 DEF HarnessInv, ActTypeOK, TypeOK
  <2> QED
    BY <2>1, <2>2, <2>3, <2>4 DEF HarnessInv, OneOutstandingStep, HeldOnce, NonIdempotentOnce
<1>2. ASSUME NEW u \in Users, NEW op \in UserOps, UserCall(u, op) PROVE HarnessInv'
  <2>1. op \in Ops /\ op # "record" /\ op # "prepare" /\ u \in Actors /\ 0 \in 0..StepCount
    BY ConstantsAssumption DEF Ops, Actors
  <2> QED
    BY <1>2, <1>c, <2>1 DEF UserCall
<1>3. ASSUME NEW w \in Workers, WorkerLoop(w) PROVE HarnessInv'
  <2> DEFINE over == ~Readable(run) \/ run.status \in {"absent", "paused"} \/ Terminal(run)
  <2>1. w \in Actors /\ "finish" \in Ops /\ "prepare" \in Ops /\ 0 \in 0..StepCount
    BY ConstantsAssumption DEF Ops, Actors
  <2>2. CASE over
    BY <1>3, <1>a, <1>b, <2>1, <2>2 DEF WorkerLoop
  <2>3. CASE ~over /\ run.checkpointed >= StepCount
    BY <1>3, <1>c, <2>1, <2>3 DEF WorkerLoop
  <2>4. CASE ~over /\ ~(run.checkpointed >= StepCount)
    <3>1. run.checkpointed \in Steps /\ run.checkpointed \in 0..StepCount
      BY <1>a, <2>4, ConstantsAssumption DEF Runs, Steps
    <3> QED
      BY <1>3, <1>c, <2>1, <2>4, <3>1 DEF WorkerLoop
  <2> QED
    BY <2>2, <2>3, <2>4
<1>13. ASSUME NEW w \in Workers, Launch(w) PROVE HarnessInv'
  BY <1>13, <1>a, <1>b DEF Launch, Actors
<1>4. ASSUME NEW w \in Workers, NEW x \in ActRows, act[w].pc = "effect",
             act' = [act EXCEPT ![w] = x],
             applied' = [applied EXCEPT ![act[w].plan] = @ + 1],
             \/ x.pc = "call" /\ x.op = "record" /\ x.plan = act[w].plan
             \/ x = Ended(w),
             UNCHANGED <<run, cost, fresh>>, crashes' \in Nat
      PROVE  HarnessInv'
  <2> DEFINE n == act[w].plan
  <2>1. /\ w \in Actors /\ act[w] \in ActRows /\ act[w].pc = "effect" /\ n \in Steps
        /\ n < run.committed /\ n \in 0..StepCount /\ run.status # "absent"
    BY <1>4, <1>a DEF HarnessInv, Carries, Actors, ActRows
  <2>2. /\ act' = [act EXCEPT ![w] = x]
        /\ applied' = [applied EXCEPT ![n] = @ + 1]
        /\ UNCHANGED <<run, cost, fresh>> /\ crashes' \in Nat
    BY <1>4
  <2>3. /\ applied' \in [Steps -> Nat] /\ applied'[n] = applied[n] + 1
        /\ \A m \in Steps : applied[m] <= applied'[m]
        /\ \A m \in Steps \ {n} : applied'[m] = applied[m]
    BY SMTT(40), <1>a, <2>1, <2>2
  <2>4. x \in ActRows /\ ((x.pc = "call" /\ x.op = "record" /\ x.plan = n) \/ x = Ended(w))
        /\ x.pc # "effect"
    BY <1>4, Ends
  <2> HIDE DEF n
  <2>5. act' \in [Actors -> ActRows] /\ act'[w] = x /\ \A b \in Actors \ {w} : act'[b] = act[b]
    BY <1>a, <2>1, <2>2, <2>4
  <2>6. ActTypeOK'
    <3>1. \A b \in Actors : act'[b] \in ActRows
      BY <2>5
    <3> QED
      BY <2>2, <2>3, <2>5, <3>1 DEF HarnessInv, ActTypeOK, TypeOK, ActRows
  <2>7. OneOutstandingStep'
    <3>1. \A m \in Steps : cost[m] # None => applied'[m] >= 1
      BY <1>a, <2>1, <2>3 DEF HarnessInv, OneOutstandingStep
    <3>2. \A m \in Steps : applied'[m] >= 1 => m < run.committed
      BY <1>a, <2>1, <2>3 DEF HarnessInv, OneOutstandingStep
    <3> QED
      BY <2>2, <3>1, <3>2 DEF HarnessInv, OneOutstandingStep
  <2>8. ASSUME NEW b \in Actors PROVE Carries(act'[b], run', applied')
    <3>3. CASE b = w /\ x = Ended(w)
      BY <2>5, <3>3, IdleCarries
    <3>1. CASE b = w /\ x # Ended(w)
      <4>1. applied'[n] >= 1
        BY <1>a, <2>1, <2>3
      <4> QED
        BY <2>1, <2>2, <2>4, <2>5, <3>1, <4>1 DEF Carries, Ops
    <3>2. CASE b # w
      <4>1. act'[b] = act[b] /\ act[b] \in ActRows /\ Carries(act[b], run, applied)
            /\ run.committed <= run.committed /\ run.checkpointed <= run.checkpointed
        BY <1>a, <2>5, <3>2 DEF HarnessInv, Runs
      <4>2. Carries(act[b], run, applied')
        BY <1>a, <2>3, <4>1, CarriesOn
      <4> QED
        BY <2>2, <4>1, <4>2
    <3> QED
      BY <3>1, <3>2, <3>3
  <2>9. ~Idempotent[n] => applied[n] = 0
    BY <2>1 DEF HarnessInv, HeldOnce, n
  <2>10. NonIdempotentOnce'
    BY <1>a, <2>3, <2>9 DEF HarnessInv, NonIdempotentOnce
  <2>11. HeldOnce'
    <3> SUFFICES ASSUME NEW m \in Steps, ~Idempotent[m], NEW b \in Actors,
                        act'[b].pc = "effect", act'[b].plan = m
                 PROVE  /\ applied'[m] = 0
                        /\ \A d \in Actors : act'[d].pc = "effect" /\ act'[d].plan = m => d = b
      BY DEF HeldOnce
    <3>1. b # w /\ act[b].pc = "effect" /\ act[b].plan = m
      BY <2>4, <2>5
    <3>2. m # n
      BY <2>1, <3>1 DEF HarnessInv, HeldOnce, n
    <3>3. applied'[m] = 0
      BY <2>3, <3>1, <3>2 DEF HarnessInv, HeldOnce
    <3> QED
      BY <2>4, <2>5, <3>1, <3>3 DEF HarnessInv, HeldOnce
  <2> QED
    BY <2>6, <2>7, <2>8, <2>10, <2>11 DEF HarnessInv
<1>14. ASSUME NEW w \in Workers, ApplyEffect(w) PROVE HarnessInv'
  <2> DEFINE x == [IdleActor EXCEPT !.pc = "call", !.op = "record", !.plan = act[w].plan]
  <2>1. /\ act[w].plan \in 0..StepCount /\ "record" \in Ops
    BY <1>a DEF Actors, ActRows, Ops
  <2>2. x \in ActRows /\ x.pc = "call" /\ x.op = "record" /\ x.plan = act[w].plan
    BY <2>1, Calls
  <2>3. /\ act[w].pc = "effect" /\ act' = [act EXCEPT ![w] = x]
        /\ applied' = [applied EXCEPT ![act[w].plan] = @ + 1]
        /\ UNCHANGED <<run, cost, fresh>> /\ crashes' \in Nat
    BY <1>14, <1>a DEF ApplyEffect, Call
  <2> HIDE DEF x
  <2> QED
    BY <1>4, <2>2, <2>3
<1>15. ASSUME NEW w \in Workers, EffectFails(w) PROVE HarnessInv'
  <2>1. /\ act[w].pc = "effect" /\ act' = [act EXCEPT ![w] = Ended(w)]
        /\ UNCHANGED <<run, cost, fresh>> /\ w \in Actors
    BY <1>15 DEF EffectFails, Actors
  <2>2. CASE UNCHANGED <<applied, crashes>>
    BY <1>a, <1>b, <2>1, <2>2
  <2>3. CASE crashes' = crashes + 1 /\ applied' = [applied EXCEPT ![act[w].plan] = @ + 1]
    <3>1. crashes' \in Nat /\ Ended(w) \in ActRows
      BY <1>a, <2>3, Ends
    <3> QED
      BY <1>4, <2>1, <2>3, <3>1
  <2> QED
    BY <1>15, <2>2, <2>3 DEF EffectFails
<1>5. ASSUME NEW a \in Actors, ReadState(a) PROVE HarnessInv'
  BY <1>5, ReadStateSound
<1>6. ASSUME NEW a \in Actors, ReadHead(a) PROVE HarnessInv'
  <2> DEFINE x == [act[a] EXCEPT !.pc = "headed"]
  <2>1. /\ x \in ActRows /\ x.pc = "headed" /\ x.op = act[a].op /\ x.plan = act[a].plan
        /\ x.batch = act[a].batch
    BY <1>a DEF ActRows
  <2>2. /\ act' = [act EXCEPT ![a] = x] /\ act[a].pc = "decided"
        /\ fresh' \in [Actors -> BOOLEAN]
        /\ UNCHANGED <<run, cost, applied, crashes>>
    BY <1>6, <1>a DEF ReadHead
  <2>3. Carries(act[a], run, applied)
    BY DEF HarnessInv
  <2> HIDE DEF x
  <2>4. Carries(x, run, applied)
    BY <2>1, <2>2, <2>3 DEF Carries
  <2> QED
    BY <1>a, <2>1, <2>2, <2>4, OneActorMoves
<1>7. ASSUME NEW a \in Actors, AppendRefused(a) PROVE HarnessInv'
  BY <1>7, <1>a, <1>b DEF AppendRefused
<1>8. ASSUME NEW a \in Actors, HeadChanged(a) PROVE HarnessInv'
  <2> DEFINE t == act[a].tries + 1
             x == [act[a] EXCEPT !.pc = "call", !.tries = t, !.batch = None, !.read = 0]
  <2>1. CASE act[a].op \in {"ask", "answer"} \/ act[a].tries + 1 = RetryMax
    BY <1>8, <1>a, <1>b, <2>1 DEF HeadChanged
  <2>2. CASE ~(act[a].op \in {"ask", "answer"} \/ act[a].tries + 1 = RetryMax)
    <3>1. act' = [act EXCEPT ![a] = x] /\ act[a].pc = "headed"
          /\ UNCHANGED <<run, cost, fresh, applied, crashes>>
      BY <1>8, <2>2 DEF HeadChanged
    <3>2. act[a] \in ActRows /\ Carries(act[a], run, applied)
      BY <1>a DEF HarnessInv
    <3>3. t \in 0..(RetryMax - 1)
      BY <2>2, <3>2, ConstantsAssumption DEF ActRows
    <3> HIDE DEF t
    <3>4. x \in ActRows /\ x.pc = "call" /\ x.op = act[a].op /\ x.plan = act[a].plan
      BY <3>2, <3>3 DEF ActRows
    <3> HIDE DEF x
    <3>5. Carries(x, run, applied)
      BY <3>1, <3>2, <3>4 DEF Carries
    <3> QED
      BY <1>a, <3>1, <3>4, <3>5, OneActorMoves
  <2> QED
    BY <2>1, <2>2
<1>9. ASSUME NEW a \in Actors, Crash(a) PROVE HarnessInv'
  <2>1. crashes' \in Nat /\ fresh' \in [Actors -> BOOLEAN]
    BY <1>9, <1>a DEF Crash
  <2> QED
    BY <1>9, <1>b, <2>1 DEF Crash
<1>10. ASSUME NEW a \in Actors, NEW c \in Costs, Append(a, c) PROVE HarnessInv'
  BY <1>10, AppendSound
<1>11. CASE UNCHANGED vars
  BY <1>11 DEF vars, HarnessInv, ActTypeOK, TypeOK, OneOutstandingStep, HeldOnce, NonIdempotentOnce
<1> QED
  BY <1>1, <1>2, <1>3, <1>5, <1>6, <1>7, <1>8, <1>9, <1>10, <1>11, <1>13, <1>14, <1>15
     DEF Next, Common, ActorNext

(* The harness keeps its invariant through every race of workers, users and  *)
(* crashes.                                                                  *)
THEOREM HarnessCorrect == Spec => []HarnessInv
BY InitHarness, HarnessStep, PTL DEF Spec

(* The rows and what the actors carry have their types.                      *)
THEOREM HarnessTyped == Spec => []TypeOK
<1>1. HarnessInv => TypeOK
  BY DEF HarnessInv, ActTypeOK
<1> QED
  BY <1>1, HarnessCorrect, PTL

(* At most one step is committed without its checkpoint, and the step rows,   *)
(* the counters and the effects agree.                                       *)
THEOREM StepsInOrder == Spec => []OneOutstandingStep
<1>1. HarnessInv => OneOutstandingStep
  BY DEF HarnessInv
<1> QED
  BY <1>1, HarnessCorrect, PTL

(* A tool that may not be retried acts on the outside at most once per step,  *)
(* though a process may be killed anywhere and another resumes the Run.      *)
THEOREM EffectsOnce == Spec => []NonIdempotentOnce
<1>1. HarnessInv => NonIdempotentOnce
  BY SMTT(40) DEF HarnessInv
<1> QED
  BY <1>1, HarnessCorrect, PTL

-----------------------------------------------------------------------------
(* What holds beyond that when no fact lands between the state read and the  *)
(* head read of another operation.                                           *)

(* An operation whose append will pass the head comparison would decide the  *)
(* same on the row as it is now.                                             *)
DecidedNow(a) ==
    act[a].pc = "decided" \/ (act[a].pc = "headed" /\ fresh[a]) =>
        /\ act[a].batch = Decide(act[a].op, run, act[a].plan)
        /\ act[a].read = run.spent

(* A Run ends at a boundary, with no control pending.                        *)
EndsAtRest == Terminal(run) => AtBoundary(run) /\ run.control = "none"

(* What one step may spend beyond its reservation.                           *)
Overruns == {0} \cup {c - Reserve : c \in {d \in Costs : d > Reserve}}

(* The admission of the outstanding step still covers it, and what is spent   *)
(* is past the limit by at most one overrun.                                 *)
WithinBudget == \E over \in Overruns : run.spent <= Budget + over
Admitted == ~AtBoundary(run) => run.spent + Reserve <= Budget

CalmInv ==
    /\ HarnessInv
    /\ \A a \in Actors : DecidedNow(a)
    /\ RowReadable
    /\ EndsAtRest
    /\ WithinBudget /\ Admitted

(* What each batch leaves in the status, control, spend and pause columns.   *)
LEMMA WrittenColumns ==
    ASSUME NEW r \in Runs, NEW batch \in Batches, NEW read \in Nat, NEW c \in Nat
    PROVE  LET w == Written(r, batch, read, c) IN
           /\ batch = "commit" => /\ w.status = "running" /\ w.control = r.control
                                  /\ w.spent = r.spent /\ w.pause = r.pause
           /\ batch = "record" /\ c > Reserve =>
                 /\ w.status = "paused" /\ w.control = "none" /\ w.spent = read + c /\ w.pause
           /\ batch = "record" /\ ~(c > Reserve) =>
                 /\ w.status = r.status /\ w.control = r.control
                 /\ w.spent = r.spent + c /\ w.pause = r.pause
           /\ batch \in {"settlePause", "budgetPause"} =>
                 /\ w.status = "paused" /\ w.control = "none" /\ w.spent = read /\ w.pause
           /\ batch = "settleCancel" =>
                 /\ w.status = "canceled" /\ w.control = "none" /\ w.spent = read /\ ~w.pause
           /\ batch = "finish" => /\ w.status = "done" /\ w.control = r.control
                                  /\ w.spent = read /\ w.pause = r.pause
           /\ batch \in {"pause", "cancel"} =>
                 /\ w.status = r.status /\ w.control = batch
                 /\ w.spent = r.spent /\ w.pause = r.pause
           /\ batch = "resume" => /\ w.status = "running" /\ w.control = "none"
                                  /\ w.spent = r.spent /\ ~w.pause
           /\ batch \in {"ask", "answer"} =>
                 /\ w.status = (IF batch = "ask" THEN "waiting_input" ELSE "running")
                 /\ w.control = r.control /\ w.spent = r.spent /\ w.pause = r.pause
<1> DEFINE w == Written(r, batch, read, c)
<1>1. CASE batch = "commit"
  BY <1>1 DEF Written, Runs
<1>2. CASE batch = "record"
  <2> DEFINE m == r.checkpointed + 1
             total == r.spent + c
             q == [r EXCEPT !.checkpointed = m, !.spent = total]
             spent == read + c
  <2>1. w = IF c > Reserve THEN Paused(q, spent) ELSE q
    BY <1>2 DEF Written, Recorded
  <2>2. spent \in Nat /\ m \in Nat /\ total \in Nat
    BY DEF Runs
  <2> HIDE DEF m, total, spent
  <2>3. q \in Runs /\ q.status = r.status /\ q.control = r.control /\ q.spent = total
        /\ q.pause = r.pause
    BY <2>2 DEF Runs
  <2> HIDE DEF q, w
  <2>4. c > Reserve => w.status = "paused" /\ w.control = "none" /\ w.spent = spent /\ w.pause
    BY SMTT(40), <2>1, <2>2, <2>3, PausedRow
  <2>5. ~(c > Reserve) => w.status = r.status /\ w.control = r.control
                          /\ w.spent = total /\ w.pause = r.pause
    BY <2>1, <2>3
  <2> QED
    BY <1>2, <2>4, <2>5 DEF w, spent, total
<1>3. CASE batch \in {"settlePause", "budgetPause"}
  BY ZenonT(40), <1>3, PausedRow DEF Written
<1>4. CASE batch = "settleCancel"
  BY <1>4 DEF Written, Runs
<1>5. CASE batch \in {"finish", "ask", "answer"}
  BY <1>5 DEF Written, Runs
<1>6. CASE batch \in {"pause", "cancel"}
  BY <1>6 DEF Written, Runs
<1>7. CASE batch = "resume"
  BY <1>7 DEF Written, Resumed, Runs
<1> QED
  BY <1>1, <1>2, <1>3, <1>4, <1>5, <1>6, <1>7 DEF Batches

(* A cancel that is accepted is taken back by nothing but the pause of a      *)
(* receipt that exceeds its reservation, and an end is never undone.         *)
HonorsCancel ==
    /\ StaysTerminal
    /\ run.control = "cancel" /\ run'.control # "cancel" =>
          \/ run'.status = "canceled"
          \/ run'.status = "paused" /\ run'.spent - run.spent > Reserve

(* A batch decided on the row it is appended to leaves a row that can be      *)
(* read, ends a Run at rest, spends what was admitted and honors a cancel.   *)
LEMMA CalmAppend ==
    ASSUME CalmInv, NEW a \in Actors, NEW c \in Costs, Append(a, c)
    PROVE  RowReadable' /\ EndsAtRest' /\ WithinBudget' /\ Admitted' /\ HonorsCancel
<1> DEFINE b == act[a].batch
           w == Written(run, b, run.spent, c)
<1>1. /\ run \in Runs /\ run.committed \in Nat /\ run.checkpointed \in Nat
      /\ run.spent \in Nat /\ c \in Nat /\ Reserve \in Nat /\ Budget \in Nat
      /\ act[a].op \in Ops /\ HarnessInv /\ b # None
  BY ConstantsAssumption DEF CalmInv, HarnessInv, ActTypeOK, TypeOK, Runs, Append, Carries
<1>2. /\ run' = w
      /\ b = Decide(act[a].op, run, act[a].plan)
  BY DEF Append, CalmInv, DecidedNow
<1>3. /\ b \in Batches
      /\ b = "commit" => b = "commit" /\ run.committed = run.checkpointed
      /\ b = "record" => run.committed = run.checkpointed + 1
  BY <1>1, AppendFits DEF Append
<1>4. /\ b = "commit" => /\ AtBoundary(run) /\ run.status = "running" /\ run.control = "none"
                         /\ ~(run.spent + Reserve > Budget)
      /\ b = "settlePause" => AtBoundary(run) /\ run.control = "pause"
      /\ b = "settleCancel" => AtBoundary(run) /\ run.control = "cancel"
      /\ b = "budgetPause" => run.control = "none" /\ run.status = "running"
      /\ b = "finish" => ~Terminal(run) /\ AtBoundary(run) /\ run.control = "none"
                         /\ run.status # "paused"
      /\ b \in {"pause", "cancel"} => ~Terminal(run) /\ run.control = "none"
      /\ b = "resume" => run.status = "paused" /\ run.control = "none"
      /\ b = "ask" => run.status = "running"
      /\ b = "answer" => run.status = "waiting_input"
  BY <1>1, <1>2, DecisionSaw
<1> HIDE DEF b, w
<1>5. /\ run' \in Runs
      /\ run'.committed = IF b = "commit" THEN run.committed + 1 ELSE run.committed
      /\ run'.checkpointed = IF b = "record" THEN run.checkpointed + 1 ELSE run.checkpointed
  <2>1. /\ w \in Runs
        /\ w.committed = IF b = "commit" THEN run.committed + 1 ELSE run.committed
        /\ w.checkpointed = IF b = "record" THEN run.checkpointed + 1 ELSE run.checkpointed
    <3>1. run \in Runs /\ b \in Batches /\ run.spent \in Nat /\ c \in Nat
      BY <1>1, <1>3
    <3> QED
      BY SMTT(40), <3>1, WrittenRow DEF w
  <2> QED
    BY <1>2, <2>1
<1>6. /\ Readable(run) /\ EndsAtRest /\ Admitted /\ WithinBudget
  BY DEF CalmInv, RowReadable
<1>7. AtBoundary(run') <=> IF b = "commit" THEN FALSE ELSE b = "record" \/ AtBoundary(run)
  BY <1>1, <1>3, <1>5 DEF AtBoundary
<1>8. ASSUME run'.spent = run.spent, b \notin {"commit", "record"} PROVE WithinBudget' /\ Admitted'
  BY <1>6, <1>7, <1>8 DEF WithinBudget, Admitted, Overruns
<1>9. CASE b = "commit"
  <2>1. run'.status = "running" /\ run'.control = run.control /\ run'.spent = run.spent
        /\ run'.pause = run.pause
    BY <1>1, <1>2, <1>9, <1>3, WrittenColumns DEF w
  <2>2. RowReadable' /\ EndsAtRest' /\ HonorsCancel
    BY <1>4, <1>6, <1>9, <2>1 DEF RowReadable, Readable, EndsAtRest, Terminal, HonorsCancel, StaysTerminal
  <2>3. WithinBudget'
    BY <1>6, <2>1 DEF WithinBudget, Overruns
  <2>4. Admitted'
    BY <1>1, <1>4, <1>9, <2>1 DEF Admitted
  <2> QED
    BY <2>2, <2>3, <2>4
<1>10. CASE b = "record"
  <2>1. ~AtBoundary(run) /\ AtBoundary(run')
    BY <1>1, <1>3, <1>7, <1>10 DEF AtBoundary
  <2>2. run.spent + Reserve <= Budget /\ ~Terminal(run)
    BY <1>6, <2>1 DEF Admitted, EndsAtRest
  <2>3. run'.spent = run.spent + c
    <3>1. run \in Runs /\ b \in Batches /\ run.spent \in Nat /\ c \in Nat
      BY <1>1, <1>3
    <3>2. w.spent = IF c > Reserve THEN run.spent + c ELSE run.spent + c
      BY <1>10, <3>1, WrittenColumns DEF w
    <3> QED
      BY <1>2, <3>2
  <2>4. Admitted'
    BY <2>1 DEF Admitted
  <2>5. CASE c > Reserve
    <3>1. run'.status = "paused" /\ run'.control = "none" /\ run'.pause
      <4>1. run \in Runs /\ b \in Batches /\ run.spent \in Nat /\ c \in Nat
        BY <1>1, <1>3
      <4>2. w.status = "paused" /\ w.control = "none" /\ w.pause
        BY <1>10, <2>5, <4>1, WrittenColumns DEF w
      <4> QED
        BY <1>2, <4>2
    <3>2. c - Reserve \in Overruns /\ run'.spent <= Budget + (c - Reserve)
      BY <1>1, <2>2, <2>3, <2>5 DEF Overruns
    <3>3. WithinBudget'
      BY <3>2 DEF WithinBudget, Overruns
    <3>4. run'.spent - run.spent > Reserve
      BY <1>1, <2>3, <2>5
    <3> QED
      BY <2>2, <2>4, <3>1, <3>3, <3>4 DEF RowReadable, Readable, EndsAtRest, Terminal, HonorsCancel,
         StaysTerminal
  <2>6. CASE ~(c > Reserve)
    <3>1. run'.status = run.status /\ run'.control = run.control /\ run'.pause = run.pause
      BY <1>1, <1>2, <1>3, <1>10, <2>6, WrittenColumns DEF w
    <3>2. 0 \in Overruns /\ run'.spent <= Budget + 0
      BY <1>1, <2>2, <2>3, <2>6 DEF Overruns
    <3>3. WithinBudget'
      BY <3>2 DEF WithinBudget, Overruns
    <3> QED
      BY <1>6, <2>2, <2>4, <3>1, <3>3 DEF RowReadable, Readable, EndsAtRest, Terminal, HonorsCancel,
         StaysTerminal
  <2> QED
    BY <2>5, <2>6
<1>11. CASE b \in {"settlePause", "budgetPause"}
  <2>1. run'.status = "paused" /\ run'.control = "none" /\ run'.spent = run.spent /\ run'.pause
    BY <1>1, <1>2, <1>3, <1>11, WrittenColumns DEF w
  <2>2. ~Terminal(run) /\ run.control # "cancel"
    BY <1>4, <1>6, <1>11 DEF EndsAtRest, Terminal
  <2> QED
    BY <1>8, <1>11, <2>1, <2>2 DEF RowReadable, Readable, EndsAtRest, Terminal, HonorsCancel, StaysTerminal
<1>12. CASE b = "settleCancel"
  <2>1. run'.status = "canceled" /\ run'.control = "none" /\ run'.spent = run.spent /\ ~run'.pause
    BY <1>1, <1>2, <1>3, <1>12, WrittenColumns DEF w
  <2>2. ~Terminal(run) /\ AtBoundary(run')
    BY <1>4, <1>6, <1>7, <1>12 DEF EndsAtRest
  <2> QED
    BY <1>8, <1>12, <2>1, <2>2 DEF RowReadable, Readable, EndsAtRest, Terminal, HonorsCancel, StaysTerminal
<1>13. CASE b = "finish"
  <2>1. run'.status = "done" /\ run'.control = run.control /\ run'.spent = run.spent
        /\ run'.pause = run.pause
    BY <1>1, <1>2, <1>3, <1>13, WrittenColumns DEF w
  <2>2. ~Terminal(run) /\ AtBoundary(run') /\ run.control = "none" /\ run.status # "paused"
    BY <1>4, <1>7, <1>13
  <2> QED
    BY <1>6, <1>8, <1>13, <2>1, <2>2
       DEF RowReadable, Readable, EndsAtRest, Terminal, HonorsCancel, StaysTerminal
<1>14. CASE b \in {"pause", "cancel"}
  <2>1. run'.status = run.status /\ run'.spent = run.spent /\ run'.pause = run.pause
    BY <1>1, <1>2, <1>3, <1>14, WrittenColumns DEF w
  <2>2. ~Terminal(run) /\ run.control = "none"
    BY <1>4, <1>14
  <2> QED
    BY <1>6, <1>8, <1>14, <2>1, <2>2
       DEF RowReadable, Readable, EndsAtRest, Terminal, HonorsCancel, StaysTerminal
<1>15. CASE b = "resume"
  <2>1. run'.status = "running" /\ run'.control = "none" /\ run'.spent = run.spent /\ ~run'.pause
    BY <1>1, <1>2, <1>3, <1>15, WrittenColumns DEF w
  <2> QED
    BY <1>4, <1>8, <1>15, <2>1 DEF RowReadable, Readable, EndsAtRest, Terminal, HonorsCancel, StaysTerminal
<1>16. CASE b \in {"ask", "answer"}
  <2>1. run'.status \in {"running", "waiting_input"} /\ run'.control = run.control
        /\ run'.spent = run.spent /\ run'.pause = run.pause
    BY <1>1, <1>2, <1>3, <1>16, WrittenColumns DEF w
  <2>2. run.status \in {"running", "waiting_input"}
    BY <1>4, <1>16
  <2> QED
    BY <1>6, <1>8, <1>16, <2>1, <2>2
       DEF RowReadable, Readable, EndsAtRest, Terminal, HonorsCancel, StaysTerminal
<1> QED
  BY <1>3, <1>9, <1>10, <1>11, <1>12, <1>13, <1>14, <1>15, <1>16 DEF Batches

(* A step that appends nothing honors a cancel.                              *)
LEMMA RowStays == ASSUME UNCHANGED run PROVE HonorsCancel
BY DEF HonorsCancel, StaysTerminal

(* A step of one actor that appends nothing leaves the other decisions as     *)
(* they are.                                                                 *)
LEMMA CalmActorMoves ==
    ASSUME CalmInv, HarnessInv', NEW a \in Actors, UNCHANGED <<run, cost>>,
           \A b \in Actors \ {a} : act'[b] = act[b] /\ fresh'[b] = fresh[b],
           DecidedNow(a)'
    PROVE  CalmInv' /\ HonorsCancel
<1>1. ASSUME NEW b \in Actors PROVE DecidedNow(b)'
  <2>1. CASE b # a
    <3>1. DecidedNow(b)
      BY DEF CalmInv
    <3>2. Decide(act[b].op, run, act[b].plan)' = Decide(act[b].op, run, act[b].plan)
      BY <2>1 DEF Decide
    <3> QED
      BY <2>1, <3>1, <3>2 DEF DecidedNow
  <2> QED
    BY <2>1
<1>2. RowReadable' /\ EndsAtRest' /\ WithinBudget' /\ Admitted'
  BY DEF CalmInv, RowReadable, EndsAtRest, WithinBudget, Admitted, Overruns
<1> QED
  BY <1>1, <1>2, RowStays DEF CalmInv

(* A Run that was never started is readable and has spent nothing.           *)
LEMMA InitCalm == Init => CalmInv
<1> SUFFICES ASSUME Init PROVE CalmInv
  OBVIOUS
<1>1. HarnessInv
  BY InitHarness
<1>2. \A a \in Actors : DecidedNow(a)
  BY Ends DEF Init, DecidedNow
<1>3. RowReadable /\ EndsAtRest /\ Admitted
  BY DEF Init, RowReadable, Readable, EndsAtRest, Terminal, Admitted, AtBoundary
<1>4. WithinBudget
  <2>1. 0 \in Overruns /\ run.spent <= Budget + 0
    BY ConstantsAssumption DEF Init, Overruns
  <2> QED
    BY <2>1 DEF WithinBudget
<1> QED
  BY <1>1, <1>2, <1>3, <1>4 DEF CalmInv

(* Every calm step keeps the invariant and honors a cancel.                  *)
LEMMA CalmStep == CalmInv /\ [CalmNext]_vars => CalmInv' /\ HonorsCancel
<1> SUFFICES ASSUME CalmInv, [CalmNext]_vars PROVE CalmInv' /\ HonorsCancel
  OBVIOUS
<1>a. HarnessInv'
  BY HarnessStep DEF CalmInv, CalmNext, Next
<1>b. /\ act \in [Actors -> ActRows] /\ fresh \in [Actors -> BOOLEAN] /\ run \in Runs
      /\ act' \in [Actors -> ActRows] /\ fresh' \in [Actors -> BOOLEAN]
  BY <1>a DEF CalmInv, HarnessInv, ActTypeOK, TypeOK
<1>1. CASE Start
  <2>1. \A a \in Actors : act[a].pc \in {"gone", "idle"}
    BY <1>1 DEF CalmInv, HarnessInv, Carries, Start
  <2>2. \A a \in Actors : DecidedNow(a)'
    BY <1>1, <2>1 DEF Start, DecidedNow
  <2>3. /\ run'.status = "running" /\ run'.control = run.control /\ run'.pause = run.pause
        /\ run'.spent = run.spent /\ run'.committed = run.committed
        /\ run'.checkpointed = run.checkpointed /\ run.status = "absent"
    BY <1>1, <1>b DEF Start, Runs
  <2>4. RowReadable' /\ EndsAtRest'
    BY <2>3 DEF CalmInv, RowReadable, Readable, EndsAtRest, Terminal
  <2>5. WithinBudget' /\ Admitted'
    BY <2>3 DEF CalmInv, WithinBudget, Admitted, AtBoundary, Overruns
  <2>6. HonorsCancel
    BY <2>3 DEF HonorsCancel, StaysTerminal, Terminal
  <2> QED
    BY <1>a, <2>2, <2>4, <2>5, <2>6 DEF CalmInv
<1>2. ASSUME NEW a \in Actors, NEW op, NEW plan, Call(a, op, plan), UNCHANGED <<run, cost, fresh>>
      PROVE  CalmInv' /\ HonorsCancel
  <2>1. act'[a].pc = "call" /\ \A b \in Actors \ {a} : act'[b] = act[b]
    BY <1>2, <1>b DEF Call, IdleActor
  <2>2. DecidedNow(a)'
    BY <2>1 DEF DecidedNow
  <2> QED
    BY <1>a, <1>2, <2>1, <2>2, CalmActorMoves
<1>3. ASSUME NEW u \in Users, NEW op \in UserOps, UserCall(u, op) PROVE CalmInv' /\ HonorsCancel
  BY <1>2, <1>3 DEF UserCall, Actors
<1>11. ASSUME NEW a \in Actors, NEW x, x = Ended(a) \/ x = IdleActor,
              act' = [act EXCEPT ![a] = x], UNCHANGED <<run, cost, fresh>>
       PROVE  CalmInv' /\ HonorsCancel
  <2>1. act'[a].pc \in {"gone", "idle"} /\ \A b \in Actors \ {a} : act'[b] = act[b]
    BY <1>11, <1>b, Ends, Calls
  <2>2. DecidedNow(a)'
    BY <2>1 DEF DecidedNow
  <2> QED
    BY <1>a, <1>11, <2>1, <2>2, CalmActorMoves
<1>4. ASSUME NEW w \in Workers, WorkerLoop(w) \/ Launch(w) \/ EffectFails(w)
      PROVE  CalmInv' /\ HonorsCancel
  BY <1>2, <1>4, <1>11 DEF WorkerLoop, Launch, EffectFails, Actors
<1>5. ASSUME NEW w \in Workers, ApplyEffect(w) PROVE CalmInv' /\ HonorsCancel
  BY <1>2, <1>5 DEF ApplyEffect, Actors
<1>6. ASSUME NEW a \in Actors, ReadState(a) PROVE CalmInv' /\ HonorsCancel
  <2> DEFINE s == act[a]
             batch == Decide(s.op, run, s.plan)
  <2>1. /\ s.pc = "call" /\ s \in ActRows /\ UNCHANGED <<run, cost, fresh>>
        /\ \A b \in Actors \ {a} : act'[b] = act[b]
    BY <1>6, <1>b DEF ReadState
  <2>2. CASE Readable(run) /\ batch # None
    <3>1. act'[a] = [s EXCEPT !.pc = "decided", !.batch = batch, !.read = run.spent]
      BY <1>6, <1>b, <2>2 DEF ReadState
    <3>2. act'[a].op = s.op /\ act'[a].plan = s.plan /\ act'[a].batch = batch
          /\ act'[a].read = run.spent
      <4> HIDE DEF batch
      <4> QED
        BY <2>1, <3>1 DEF ActRows
    <3>3. Decide(act[a].op, run, act[a].plan)' = batch
      BY <2>1, <3>2 DEF Decide
    <3>4. DecidedNow(a)'
      <4> HIDE DEF batch
      <4> QED
        BY <2>1, <3>2, <3>3 DEF DecidedNow
    <3> QED
      BY <1>a, <2>1, <3>4, CalmActorMoves
  <2>3. CASE ~(Readable(run) /\ batch # None)
    <3>1. act'[a].pc \notin {"decided", "headed"}
      <4> DEFINE again == [s EXCEPT !.tries = @ + 1]
                 resumed == [s EXCEPT !.pc = "effect"]
      <4>1. act'[a] \in {IdleActor, Ended(a), resumed, again}
        BY <1>6, <1>b, <2>3 DEF ReadState
      <4>2. IdleActor.pc = "idle" /\ resumed.pc = "effect" /\ again.pc = "call"
            /\ Ended(a).pc \in {"gone", "idle"}
        BY <2>1, Calls, Ends DEF ActRows
      <4> HIDE DEF again, resumed
      <4> QED
        BY <4>1, <4>2
    <3>2. DecidedNow(a)'
      BY <3>1 DEF DecidedNow
    <3> QED
      BY <1>a, <2>1, <3>2, CalmActorMoves
  <2> QED
    BY <2>2, <2>3
<1>7. ASSUME NEW a \in Actors, ReadHead(a) PROVE CalmInv' /\ HonorsCancel
  <2>1. /\ act[a].pc = "decided" /\ act[a] \in ActRows /\ UNCHANGED <<run, cost>>
        /\ \A b \in Actors \ {a} : act'[b] = act[b] /\ fresh'[b] = fresh[b]
        /\ act'[a] = [act[a] EXCEPT !.pc = "headed"]
    BY <1>7, <1>b DEF ReadHead
  <2>2. act'[a].op = act[a].op /\ act'[a].plan = act[a].plan /\ act'[a].batch = act[a].batch
        /\ act'[a].read = act[a].read
    BY <2>1 DEF ActRows
  <2>3. Decide(act[a].op, run, act[a].plan)' = Decide(act[a].op, run, act[a].plan)
    BY <2>1, <2>2 DEF Decide
  <2>4. act[a].batch = Decide(act[a].op, run, act[a].plan) /\ act[a].read = run.spent
    BY <2>1 DEF CalmInv, DecidedNow
  <2>5. (act[a].batch = Decide(act[a].op, run, act[a].plan) /\ act[a].read = run.spent)'
    BY <2>1, <2>2, <2>3, <2>4
  <2>6. DecidedNow(a)'
    BY <2>5 DEF DecidedNow
  <2> QED
    BY <1>a, <2>1, <2>6, CalmActorMoves
<1>8. ASSUME NEW a \in Actors, AppendRefused(a) \/ HeadChanged(a) \/ Crash(a)
      PROVE  CalmInv' /\ HonorsCancel
  <2>1. /\ UNCHANGED <<run, cost>> /\ act[a] \in ActRows
        /\ \A b \in Actors \ {a} : act'[b] = act[b] /\ fresh'[b] = fresh[b]
    BY <1>8, <1>b DEF AppendRefused, HeadChanged, Crash
  <2>2. act'[a].pc \in {"gone", "idle", "call"}
    <3> DEFINE again == [act[a] EXCEPT !.pc = "call", !.tries = @ + 1, !.batch = None, !.read = 0]
    <3>1. act'[a] = Ended(a) \/ act'[a] = again
      BY <1>8, <1>b DEF AppendRefused, HeadChanged, Crash
    <3>2. Ended(a).pc \in {"gone", "idle"} /\ again.pc = "call"
      BY <2>1, Ends DEF ActRows
    <3> HIDE DEF again
    <3> QED
      BY <3>1, <3>2
  <2>3. DecidedNow(a)'
    BY <2>2 DEF DecidedNow
  <2> QED
    BY <1>a, <2>1, <2>3, CalmActorMoves
<1>9. ASSUME NEW a \in Actors, NEW c \in Costs, Calm(a), Append(a, c)
      PROVE  CalmInv' /\ HonorsCancel
  <2>1. \A b \in Actors : fresh'[b] = FALSE
    BY <1>9 DEF Append
  <2>2. ASSUME NEW b \in Actors PROVE act'[b].pc # "decided"
    <3>1. CASE b # a
      BY <1>9, <1>b, <3>1 DEF Append, Calm
    <3>2. CASE b = a
      <4>1. act'[a] = AfterAppend(a, act[a].batch) /\ act[a] \in ActRows
        BY <1>9, <1>b DEF Append
      <4>2. [act[a] EXCEPT !.pc = "effect"].pc = "effect"
        BY <4>1 DEF ActRows
      <4> QED
        BY <3>2, <4>1, <4>2, Calls, Ends DEF AfterAppend
    <3> QED
      BY <3>1, <3>2
  <2>3. \A b \in Actors : DecidedNow(b)'
    BY <2>1, <2>2 DEF DecidedNow
  <2> QED
    BY <1>9, <1>a, <2>3, CalmAppend DEF CalmInv
<1>10. CASE UNCHANGED vars
  <2>1. \A a \in Actors : DecidedNow(a)'
    <3>1. ASSUME NEW a \in Actors PROVE DecidedNow(a)'
      <4>1. Decide(act[a].op, run, act[a].plan)' = Decide(act[a].op, run, act[a].plan)
        BY <1>10 DEF vars, Decide
      <4> QED
        BY <1>10, <4>1 DEF vars, CalmInv, DecidedNow
    <3> QED
      BY <3>1
  <2> QED
    BY <1>10, <1>a, <2>1, RowStays
       DEF vars, CalmInv, RowReadable, EndsAtRest, WithinBudget, Admitted, Overruns
<1> QED
  BY <1>1, <1>3, <1>4, <1>5, <1>6, <1>7, <1>8, <1>9, <1>10 DEF CalmNext, Common, ActorNext

(* While the head comparison rules out what it is meant to rule out, the      *)
(* status and the pause columns of the row never disagree, though different  *)
(* facts write them.                                                         *)
THEOREM CalmRowReadable == CalmSpec => []RowReadable
<1>1. CalmInv => RowReadable
  BY DEF CalmInv
<1> QED
  BY <1>1, InitCalm, CalmStep, PTL DEF CalmSpec

-----------------------------------------------------------------------------
(* The total of the row and the receipts it stands for.                      *)

(* The units that the receipts k say were spent.                             *)
ReceiptUnits(k) == UNION {{n} \X (1..k[n]) : n \in {m \in Steps : k[m] # None}}

SpendIsSum == IsFiniteSet(ReceiptUnits(cost)) /\ run.spent = Cardinality(ReceiptUnits(cost))

(* The receipt of a step that had none adds what it says.                    *)
LEMMA ReceiptAdds ==
    ASSUME NEW k \in [Steps -> Nat \cup {None}], NEW plan \in Steps, k[plan] = None, NEW c \in Nat,
           IsFiniteSet(ReceiptUnits(k))
    PROVE  /\ IsFiniteSet(ReceiptUnits([k EXCEPT ![plan] = c]))
           /\ Cardinality(ReceiptUnits([k EXCEPT ![plan] = c])) = Cardinality(ReceiptUnits(k)) + c
<1> DEFINE R == ReceiptUnits(k)
           U == {plan} \X (1..c)
           k2 == [k EXCEPT ![plan] = c]
<1>0. c # None
  BY ConstantsAssumption
<1>1. ReceiptUnits(k2) = R \cup U
  <2> DEFINE I == {m \in Steps : k[m] # None}
             I2 == {m \in Steps : k2[m] # None}
  <2>1. I2 = I \cup {plan} /\ plan \notin I
    BY <1>0
  <2>2. k2[plan] = c /\ \A n \in I : k2[n] = k[n]
    BY <2>1
  <2>3. ReceiptUnits(k2) = UNION {{n} \X (1..k2[n]) : n \in I2} /\ R = UNION {{n} \X (1..k[n]) : n \in I}
    BY DEF ReceiptUnits
  <2> HIDE DEF I, I2, k2, R
  <2>4. UNION {{n} \X (1..k2[n]) : n \in I \cup {plan}}
            = (UNION {{n} \X (1..k2[n]) : n \in I}) \cup ({plan} \X (1..k2[plan]))
    OBVIOUS
  <2>5. UNION {{n} \X (1..k2[n]) : n \in I} = UNION {{n} \X (1..k[n]) : n \in I}
    BY <2>2
  <2> QED
    BY <2>1, <2>2, <2>3, <2>4, <2>5
<1>2. R \cap U = {}
  BY DEF ReceiptUnits
<1>3. IsFiniteSet(U) /\ Cardinality(U) = c
  <2>1. IsFiniteSet({plan}) /\ Cardinality({plan}) = 1
    BY FS_Singleton
  <2>2. IsFiniteSet(1..c) /\ Cardinality(1..c) = IF 1 > c THEN 0 ELSE c - 1 + 1
    BY FS_Interval
  <2>3. Cardinality(1..c) = c
    BY <2>2
  <2>4. IsFiniteSet(U) /\ Cardinality(U) = Cardinality({plan}) * Cardinality(1..c)
    BY <2>1, <2>2, FS_Product
  <2>5. Cardinality(U) = 1 * c
    BY <2>1, <2>3, <2>4
  <2> HIDE DEF U
  <2> QED
    BY <2>4, <2>5
<1> HIDE DEF R, U, k2
<1>4. IsFiniteSet(R)
  BY DEF R
<1>5. IsFiniteSet(R \cup U) /\ Cardinality(R \cup U) = Cardinality(R) + Cardinality(U) - Cardinality(R \cap U)
  BY <1>3, <1>4, FS_Union
<1>6. Cardinality(R) \in Nat /\ Cardinality(R \cap U) = 0
  BY <1>2, <1>4, FS_CardinalityType, FS_EmptySet
<1> DEFINE x == Cardinality(R)
<1>7. x \in Nat /\ Cardinality(R \cup U) = x + c - 0
  BY <1>3, <1>5, <1>6
<1> HIDE DEF x
<1>8. Cardinality(R \cup U) = x + c
  BY <1>7
<1> QED
  BY <1>1, <1>5, <1>8 DEF x, R, k2

(* A batch decided on the row it is appended to keeps the total: a receipt    *)
(* adds what it says, and a fact that carries the total carries the current. *)
LEMMA SpendAppend ==
    ASSUME CalmInv, SpendIsSum, NEW a \in Actors, NEW c \in Costs, Append(a, c)
    PROVE  SpendIsSum'
<1> DEFINE b == act[a].batch
           plan == act[a].plan
           w == Written(run, b, run.spent, c)
<1>1. /\ run \in Runs /\ run.spent \in Nat /\ c \in Nat /\ HarnessInv
      /\ cost \in [Steps -> Nat \cup {None}]
  BY ConstantsAssumption DEF CalmInv, HarnessInv, ActTypeOK, TypeOK, Runs
<1>2. /\ b \in Batches
      /\ b = "record" => plan \in Steps /\ cost[plan] = None
  BY <1>1, AppendFits DEF Append
<1>3. run' = w /\ cost' = IF b = "record" THEN [cost EXCEPT ![plan] = c] ELSE cost
  BY DEF Append, CalmInv, DecidedNow
<1>4. w.spent = IF b = "record" THEN run.spent + c ELSE run.spent
  <2> HIDE DEF b
  <2>1. CASE b = "record"
    BY <1>1, <1>2, <2>1, WrittenColumns
  <2>2. CASE b # "record"
    BY <1>1, <1>2, <2>2, WrittenColumns DEF Batches
  <2> QED
    BY <2>1, <2>2
<1> HIDE DEF b, plan, w
<1>5. CASE b = "record"
  <2>1. cost' = [cost EXCEPT ![plan] = c] /\ run'.spent = run.spent + c
    BY <1>3, <1>4, <1>5
  <2> DEFINE k == [cost EXCEPT ![plan] = c]
  <2>2. IsFiniteSet(ReceiptUnits(k)) /\ Cardinality(ReceiptUnits(k)) = Cardinality(ReceiptUnits(cost)) + c
    BY <1>1, <1>2, <1>5, ReceiptAdds DEF SpendIsSum
  <2> HIDE DEF k
  <2>3. ReceiptUnits(cost)' = ReceiptUnits(k)
    BY <2>1 DEF ReceiptUnits, k
  <2> QED
    BY <2>1, <2>2, <2>3 DEF SpendIsSum
<1>6. CASE b # "record"
  <2>1. cost' = cost /\ run'.spent = run.spent
    BY <1>3, <1>4, <1>6
  <2>2. ReceiptUnits(cost)' = ReceiptUnits(cost)
    BY <2>1 DEF ReceiptUnits
  <2> QED
    BY <2>1, <2>2 DEF SpendIsSum
<1> QED
  BY <1>5, <1>6

(* Every calm step keeps the total; only an append writes it.                *)
LEMMA SpendStep == CalmInv /\ SpendIsSum /\ [CalmNext]_vars => SpendIsSum'
<1> SUFFICES ASSUME CalmInv, SpendIsSum, [CalmNext]_vars PROVE SpendIsSum'
  OBVIOUS
<1>1. ASSUME run'.spent = run.spent, cost' = cost PROVE SpendIsSum'
  <2>1. ReceiptUnits(cost)' = ReceiptUnits(cost)
    BY <1>1 DEF ReceiptUnits
  <2> QED
    BY <1>1, <2>1 DEF SpendIsSum
<1>2. CASE Start
  <2>1. run \in Runs
    BY DEF CalmInv, HarnessInv, ActTypeOK, TypeOK
  <2>2. run'.spent = run.spent /\ cost' = cost
    BY <1>2, <2>1 DEF Start, Runs
  <2> QED
    BY <1>1, <2>2
<1>3. CASE \E a \in Actors, c \in Costs : Calm(a) /\ Append(a, c)
  BY <1>3, SpendAppend
<1>4. CASE \/ \E u \in Users, op \in UserOps : UserCall(u, op)
           \/ \E v \in Workers : Launch(v) \/ WorkerLoop(v) \/ ApplyEffect(v) \/ EffectFails(v)
           \/ \E a \in Actors : ActorNext(a)
           \/ UNCHANGED vars
  <2>1. UNCHANGED <<run, cost>>
    BY ZenonT(40), <1>4 DEF UserCall, Launch, WorkerLoop, ApplyEffect, EffectFails, ActorNext, ReadState, ReadHead,
       AppendRefused, HeadChanged, Crash, vars
  <2>2. run'.spent = run.spent /\ cost' = cost
    BY <2>1
  <2> QED
    BY ZenonT(40), <1>1, <2>2
<1> QED
  BY <1>2, <1>3, <1>4 DEF CalmNext, Common

(* While the head comparison rules out what it is meant to rule out, the      *)
(* total of the row is what the receipts say, though a pause, a cancel and a *)
(* finish write a total that was read before, and it exceeds the budget by    *)
(* at most what one step spent beyond its reservation.                       *)
THEOREM CalmSpendBounded == CalmSpec => []SpendBounded
<1>1. Init => SpendIsSum
  <2> SUFFICES ASSUME Init PROVE SpendIsSum
    OBVIOUS
  <2>1. ReceiptUnits(cost) = {}
    BY DEF Init, ReceiptUnits
  <2>2. run.spent = 0
    BY DEF Init
  <2> QED
    BY <2>1, <2>2, FS_EmptySet DEF SpendIsSum
<1>2. CalmInv /\ SpendIsSum => SpendBounded
  BY DEF CalmInv, SpendIsSum, ReceiptUnits, WithinBudget, Overruns, SpendBounded
<1> QED
  BY <1>1, <1>2, InitCalm, CalmStep, SpendStep, PTL DEF CalmSpec

(* While the head comparison rules out what it is meant to rule out, a cancel *)
(* once accepted ends the Run or is taken back by the pause of an excessive   *)
(* receipt alone, and an end is final.                                       *)
THEOREM CalmCancelHonored == CalmSpec => CancelHonored
<1>1. CalmInv /\ [CalmNext]_vars =>
        [/\ StaysTerminal
         /\ run.control = "cancel" /\ run'.control # "cancel" =>
               \/ run'.status = "canceled"
               \/ run'.status = "paused" /\ run'.spent - run.spent > Reserve]_vars
  BY CalmStep DEF HonorsCancel
<1> QED
  BY <1>1, InitCalm, CalmStep, PTL DEF CalmSpec, CancelHonored
=============================================================================
