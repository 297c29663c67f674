---------------------------- MODULE AgentProofs ----------------------------
(***************************************************************************)
(* Proofs about what Runs may do. ToolAuth: for every set of Runs, tools and  *)
(* builds, every allowlist and every plan. EchoRun: for every set of          *)
(* processes, clients and answers, every window, every number of kills and    *)
(* of lost connections.                                                      *)
(***************************************************************************)
EXTENDS ToolAuth, EchoRun, FiniteSetTheorems, SequenceTheorems, TLAPS

-----------------------------------------------------------------------------
(* ToolAuth: the inductive invariant.                                        *)

AuthCalls == [step: Nat, descriptor: Descriptors, receipt: Receipts \cup {NoToolCall},
              tainted: BOOLEAN, at: Nat]
AuthRows == [started: BOOLEAN, depth: Nat, grants: Allowlists \cup {NoTool},
             tainted: BOOLEAN, steps: Seq(AuthCalls), checkpointed: Nat]
HeldCalls == [pc: {"idle", "authorized", "effect", "record"}, call: AuthCalls \cup {NoToolCall}]

(* The decision c on step n of r was sound under grants: what                *)
(* DispatchSanctioned says of an effect, said of the decision.               *)
SoundDecision(r, n, c, grants) ==
    LET plan == CallPlan[r][n]
        grant == grants[plan.tool]
    IN /\ c \in AuthCalls /\ c.step = n
       /\ n \in 1 .. Len(CallPlan[r])
       /\ \E b \in Builds : b[plan.tool] = c.descriptor /\ b[plan.tool] # NoTool
       /\ c.descriptor.mode # "block" /\ grant \notin {"block", "absent"}
       /\ plan.size <= c.descriptor.max
       /\ \/ c.descriptor.mode = "gate" \/ grant = "gate"
          \/ c.descriptor.scope \in {"change_production", "egress"}
          \/ c.descriptor.effect = "non_idempotent"
          \/ c.tainted /\ c.descriptor.effect # "read_only"
          => /\ c.receipt \in Receipts
             /\ c.receipt.run = r /\ c.receipt.call = plan.call /\ c.receipt.tool = plan.tool
             /\ c.receipt.expires >= c.at

(* The rows of Run r and the call h its worker holds: every committed step    *)
(* was soundly decided, only a started Run has any, only committed steps are *)
(* checkpointed; the call held is the next step, soundly decided, or the     *)
(* last committed one, unchanged.                                            *)
RunSound(r, run, h) ==
    LET n == Len(run.steps)
    IN /\ \A m \in 1 .. n : SoundDecision(r, m, run.steps[m], run.grants)
       /\ ~run.started => run.steps = <<>> /\ h.pc = "idle"
       /\ run.checkpointed <= n
       /\ h.pc = "authorized" => SoundDecision(r, n + 1, h.call, run.grants)
       /\ h.pc \in {"effect", "record"} => n >= 1 /\ h.call = run.steps[n]

(* An effect is of a committed step, under its descriptor.                   *)
EffectsCommitted ==
    \A e \in effects :
        /\ e.run \in AuthRuns
        /\ e.step \in 1 .. Len(authRun[e.run].steps)
        /\ e.descriptor = authRun[e.run].steps[e.step].descriptor

AuthInv ==
    /\ authRun \in [AuthRuns -> AuthRows]
    /\ held \in [AuthRuns -> HeldCalls]
    /\ build \in Builds
    /\ wallClock \in Nat
    /\ \A r \in AuthRuns : RunSound(r, authRun[r], held[r])
    /\ EffectsCommitted

(* A fresh project has nothing to sanction.                                  *)
LEMMA InitAuth == AuthInit => AuthInv
<1> SUFFICES ASSUME AuthInit PROVE AuthInv
  OBVIOUS
<1>1. NoRun \in AuthRows /\ NothingHeld \in HeldCalls
  BY DEF NoRun, NothingHeld, AuthRows, HeldCalls
<1>2. \A r \in AuthRuns : RunSound(r, NoRun, NothingHeld)
  BY DEF RunSound, NoRun, NothingHeld
<1> QED
  BY <1>1, <1>2 DEF AuthInit, AuthInv, EffectsCommitted

(* The steps of a plan name tools.                                           *)
LEMMA PlannedCall ==
    ASSUME NEW r \in AuthRuns, NEW n \in 1 .. Len(CallPlan[r])
    PROVE  CallPlan[r][n] \in [tool: AuthTools, call: Nat, size: Nat]
<1>1. CallPlan[r] \in Seq([tool: AuthTools, call: Nat, size: Nat])
  BY AuthAssumption
<1> QED
  BY <1>1, ElementOfSeq

(* ToolRegistry::authorize decides soundly: every rule of authorize, gated    *)
(* and validate_receipt, on the descriptor of the running build.             *)
LEMMA AuthorizesSoundly ==
    ASSUME AuthInv, NEW r \in AuthRuns, NEW n \in 1 .. Len(CallPlan[r]),
           NEW receipt \in Receipts \cup {NoToolCall},
           Authorizes(r, CallPlan[r][n], receipt)
    PROVE  SoundDecision(r, n, [step |-> n, descriptor |-> build[CallPlan[r][n].tool],
                                receipt |-> receipt, tainted |-> authRun[r].tainted,
                                at |-> wallClock], authRun[r].grants)
<1> DEFINE plan == CallPlan[r][n]
           d == build[plan.tool]
<1>1. plan \in [tool: AuthTools, call: Nat, size: Nat] /\ n \in Nat
  BY PlannedCall
<1>2. d \in Descriptors /\ build \in Builds /\ d # NoTool
  BY <1>1, AuthAssumption DEF Authorizes, AuthInv
<1>3. authRun[r].tainted \in BOOLEAN /\ wallClock \in Nat
  BY DEF AuthInv, AuthRows
<1> QED
  BY <1>1, <1>2, <1>3 DEF SoundDecision, Authorizes, AuthCalls, GateRequired, AlwaysGated,
     TaintGated, ReceiptValid

(* A call handed out again is the committed one: a descriptor of the version *)
(* it was committed with is the descriptor it was authorized under.          *)
LEMMA RehydratesCommitted ==
    ASSUME NEW r \in AuthRuns, NEW n, NEW c, NEW grants, NEW b \in Builds,
           SoundDecision(r, n, c, grants),
           Rehydrates(b[CallPlan[r][n].tool], c, CallPlan[r][n].size)
    PROVE  b[CallPlan[r][n].tool] = c.descriptor
<1> DEFINE t == CallPlan[r][n].tool
<1>1. t \in AuthTools
  BY PlannedCall DEF SoundDecision
<1>2. PICK a \in Builds : a[t] = c.descriptor /\ a[t] # NoTool
  BY DEF SoundDecision
<1>3. b[t] # NoTool /\ b[t].version = a[t].version
  BY <1>2 DEF Rehydrates
<1> QED
  BY <1>1, <1>2, <1>3, AuthAssumption

(* No committed step is rewritten.                                           *)
KeepsSteps(old, run) ==
    /\ Len(old.steps) <= Len(run.steps)
    /\ \A m \in 1 .. Len(old.steps) : run.steps[m] = old.steps[m]

(* A step that rewrites the rows and the held call of one Run, and keeps the *)
(* steps it had, keeps the invariant if it leaves that Run sound.            *)
LEMMA OneRunMoves ==
    ASSUME AuthInv, NEW r \in AuthRuns, NEW run \in AuthRows, NEW h \in HeldCalls,
           authRun' = [authRun EXCEPT ![r] = run],
           held' = [held EXCEPT ![r] = h],
           UNCHANGED <<build, wallClock, effects>>,
           RunSound(r, run, h),
           KeepsSteps(authRun[r], run)
    PROVE  AuthInv'
<1> USE DEF KeepsSteps
<1>1. authRun' \in [AuthRuns -> AuthRows] /\ held' \in [AuthRuns -> HeldCalls]
  BY DEF AuthInv
<1>2. authRun'[r] = run /\ held'[r] = h
      /\ \A q \in AuthRuns \ {r} : authRun'[q] = authRun[q] /\ held'[q] = held[q]
  BY DEF AuthInv
<1>3. \A q \in AuthRuns : RunSound(q, authRun'[q], held'[q])
  BY <1>2 DEF AuthInv
<1>4. EffectsCommitted'
  <2> SUFFICES ASSUME NEW e \in effects
               PROVE  /\ e.run \in AuthRuns
                      /\ e.step \in 1 .. Len(authRun'[e.run].steps)
                      /\ e.descriptor = authRun'[e.run].steps[e.step].descriptor
    BY DEF EffectsCommitted
  <2>1. /\ e.run \in AuthRuns
        /\ e.step \in 1 .. Len(authRun[e.run].steps)
        /\ e.descriptor = authRun[e.run].steps[e.step].descriptor
    BY DEF AuthInv, EffectsCommitted
  <2>2. CASE e.run # r
    BY <1>2, <2>1, <2>2
  <2>3. CASE e.run = r
    <3>1. Len(run.steps) \in Nat /\ Len(authRun[r].steps) \in Nat
      BY DEF AuthInv, AuthRows
    <3> QED
      BY <1>2, <2>1, <2>3, <3>1
  <2> QED
    BY <2>2, <2>3
<1> QED
  BY <1>1, <1>3, <1>4 DEF AuthInv

(* Every step of the harness, the clock and a replaced process keep the      *)
(* committed steps, the calls held and the effects sound.                    *)
LEMMA AuthStep == AuthInv /\ [AuthNext]_authVars => AuthInv'
<1> SUFFICES ASSUME AuthInv, [AuthNext]_authVars PROVE AuthInv'
  OBVIOUS
<1>a. ASSUME NEW r \in AuthRuns
      PROVE  /\ authRun[r] \in AuthRows /\ held[r] \in HeldCalls
             /\ RunSound(r, authRun[r], held[r])
             /\ authRun[r].steps \in Seq(AuthCalls) /\ Len(authRun[r].steps) \in Nat
             /\ authRun = [authRun EXCEPT ![r] = authRun[r]]
             /\ held = [held EXCEPT ![r] = held[r]]
             /\ NothingHeld \in HeldCalls
             /\ KeepsSteps(authRun[r], authRun[r])
  BY DEF AuthInv, AuthRows, HeldCalls, NothingHeld, KeepsSteps
<1>1. ASSUME NEW r \in AuthRuns, NEW parent \in AuthRuns \cup {NoToolCall},
             NEW grants \in Allowlists, NEW executor \in Executors,
             StartAuthorized(r, parent, grants, executor)
      PROVE  AuthInv'
  <2> DEFINE run == [NoRun EXCEPT !.started = TRUE, !.depth = LineageDepth(parent),
                                  !.grants = grants]
  <2>1. LineageDepth(parent) \in Nat
    BY DEF LineageDepth, AuthInv, AuthRows
  <2>2. run \in AuthRows /\ run.steps = <<>> /\ run.checkpointed = 0 /\ run.started
    <3>1. NoRun \in AuthRows /\ NoRun.steps = <<>> /\ NoRun.checkpointed = 0
      BY DEF NoRun, AuthRows
    <3> QED
      BY <2>1, <3>1 DEF AuthRows
  <2>3. authRun[r].steps = <<>> /\ held[r].pc = "idle"
    BY <1>1, <1>a DEF StartAuthorized, RunSound
  <2>4. authRun' = [authRun EXCEPT ![r] = run] /\ UNCHANGED <<held, build, wallClock, effects>>
    BY <1>1 DEF StartAuthorized
  <2> HIDE DEF run
  <2>5. RunSound(r, run, held[r])
    BY <2>2, <2>3 DEF RunSound
  <2>6. held' = [held EXCEPT ![r] = held[r]] /\ held[r] \in HeldCalls
    BY <1>a, <2>4
  <2>7. KeepsSteps(authRun[r], run)
    BY <2>2, <2>3 DEF KeepsSteps
  <2> QED
    BY <2>2, <2>4, <2>5, <2>6, <2>7, OneRunMoves
<1>2. ASSUME NEW r \in AuthRuns, NEW receipt \in Receipts \cup {NoToolCall},
             AuthorizeTool(r, receipt)
      PROVE  AuthInv'
  <2> DEFINE n == Len(authRun[r].steps) + 1
             c == [step |-> n, descriptor |-> build[CallPlan[r][n].tool],
                   receipt |-> receipt, tainted |-> authRun[r].tainted, at |-> wallClock]
             h == [pc |-> "authorized", call |-> c]
  <2>1. n \in 1 .. Len(CallPlan[r])
    <3>1. CallPlan[r] \in Seq([tool: AuthTools, call: Nat, size: Nat])
      BY AuthAssumption
    <3>2. Len(CallPlan[r]) \in Nat
      BY <3>1
    <3> QED
      BY <1>2, <1>a, <3>2 DEF AuthorizeTool
  <2>2. authRun[r].started /\ Authorizes(r, CallPlan[r][n], receipt)
    BY <1>2 DEF AuthorizeTool
  <2>3. SoundDecision(r, n, c, authRun[r].grants)
    BY <2>1, <2>2, AuthorizesSoundly
  <2>4. held' = [held EXCEPT ![r] = h] /\ UNCHANGED <<authRun, build, wallClock, effects>>
    BY <1>2 DEF AuthorizeTool
  <2> HIDE DEF c
  <2>5. h \in HeldCalls
    BY <2>3 DEF SoundDecision, HeldCalls
  <2>6. RunSound(r, authRun[r], h)
    BY <1>a, <2>2, <2>3 DEF RunSound
  <2> HIDE DEF h
  <2>7. authRun' = [authRun EXCEPT ![r] = authRun[r]] /\ authRun[r] \in AuthRows
        /\ KeepsSteps(authRun[r], authRun[r])
    BY <1>a, <2>4
  <2> QED
    BY <2>4, <2>5, <2>6, <2>7, OneRunMoves
<1>3. ASSUME NEW r \in AuthRuns, RaiseTaint(r) PROVE AuthInv'
  <2> DEFINE run == [authRun[r] EXCEPT !.tainted = TRUE]
  <2>1. authRun' = [authRun EXCEPT ![r] = run] /\ UNCHANGED <<held, build, wallClock, effects>>
    BY <1>3 DEF RaiseTaint
  <2>2. run \in AuthRows /\ run.steps = authRun[r].steps /\ run.grants = authRun[r].grants
        /\ run.started = authRun[r].started /\ run.checkpointed = authRun[r].checkpointed
    BY <1>a DEF AuthRows
  <2> HIDE DEF run
  <2>3. RunSound(r, run, held[r])
    BY <1>a, <2>2 DEF RunSound
  <2>4. held' = [held EXCEPT ![r] = held[r]] /\ held[r] \in HeldCalls
    BY <1>a, <2>1
  <2>5. KeepsSteps(authRun[r], run)
    BY <1>a, <2>2 DEF KeepsSteps
  <2> QED
    BY <2>1, <2>2, <2>3, <2>4, <2>5, OneRunMoves
<1>4. ASSUME NEW r \in AuthRuns, CommitStep(r) PROVE AuthInv'
  <2> DEFINE n == Len(authRun[r].steps)
             c == held[r].call
             s == Append(authRun[r].steps, c)
             run == [authRun[r] EXCEPT !.steps = s]
             h == [held[r] EXCEPT !.pc = "effect"]
  <2>1. SoundDecision(r, n + 1, c, authRun[r].grants) /\ authRun[r].started
    BY <1>4, <1>a DEF CommitStep, RunSound
  <2>2. c \in AuthCalls
    BY <2>1 DEF SoundDecision
  <2>3. s \in Seq(AuthCalls) /\ Len(s) = n + 1 /\ s[n + 1] = c
        /\ \A m \in 1 .. n : s[m] = authRun[r].steps[m]
    BY <1>a, <2>2
  <2>4. authRun' = [authRun EXCEPT ![r] = run] /\ held' = [held EXCEPT ![r] = h]
        /\ UNCHANGED <<build, wallClock, effects>>
    BY <1>4 DEF CommitStep
  <2>5. h \in HeldCalls /\ h.pc = "effect" /\ h.call = c
    BY <1>a DEF HeldCalls
  <2> HIDE DEF s, h, c
  <2>6. run \in AuthRows /\ run.steps = s /\ run.grants = authRun[r].grants
        /\ run.started = authRun[r].started /\ run.checkpointed = authRun[r].checkpointed
    BY <1>a, <2>3 DEF AuthRows
  <2>7. \A m \in 1 .. n + 1 : SoundDecision(r, m, s[m], authRun[r].grants)
    BY <1>a, <2>1, <2>3 DEF RunSound
  <2>8. authRun[r].checkpointed \in Nat /\ authRun[r].checkpointed <= n
    BY <1>a DEF RunSound, AuthRows
  <2> HIDE DEF run
  <2>9. RunSound(r, run, h)
    BY <1>a, <2>1, <2>3, <2>5, <2>6, <2>7, <2>8 DEF RunSound
  <2>10. KeepsSteps(authRun[r], run)
    BY <1>a, <2>3, <2>6 DEF KeepsSteps
  <2> QED
    BY <2>4, <2>5, <2>6, <2>9, <2>10, OneRunMoves
<1>5. ASSUME NEW r \in AuthRuns, DecideAgain(r) PROVE AuthInv'
  <2>1. held' = [held EXCEPT ![r] = NothingHeld] /\ UNCHANGED <<authRun, build, wallClock, effects>>
    BY <1>5 DEF DecideAgain
  <2>2. RunSound(r, authRun[r], NothingHeld)
    BY <1>a DEF RunSound, NothingHeld
  <2>3. authRun' = [authRun EXCEPT ![r] = authRun[r]] /\ authRun[r] \in AuthRows
        /\ KeepsSteps(authRun[r], authRun[r]) /\ NothingHeld \in HeldCalls
    BY <1>a, <2>1
  <2> QED
    BY <2>1, <2>2, <2>3, OneRunMoves
<1>6. ASSUME NEW r \in AuthRuns, ResumeCommitted(r) PROVE AuthInv'
  <2> DEFINE n == Len(authRun[r].steps)
             c == authRun[r].steps[n]
             d == build[CallPlan[r][n].tool]
             h == [pc |-> "effect", call |-> c]
  <2>1. n >= 1
    <3>1. authRun[r].checkpointed \in Nat /\ authRun[r].checkpointed <= n
      BY <1>a DEF RunSound, AuthRows
    <3> QED
      BY SMTT(40), <1>6, <1>a, <3>1 DEF ResumeCommitted, AtRest
  <2>2. c \in AuthCalls /\ SoundDecision(r, n, c, authRun[r].grants)
    <3>1. SoundDecision(r, n, c, authRun[r].grants)
      BY <1>a, <2>1 DEF RunSound
    <3> QED
      BY <3>1 DEF SoundDecision
  <2>3. Rehydrates(d, c, CallPlan[r][n].size) /\ build \in Builds
    BY <1>6 DEF ResumeCommitted, AuthInv
  <2>4. d = c.descriptor
    <3> HIDE DEF n, c
    <3> QED
      BY <2>2, <2>3, RehydratesCommitted
  <2>5. [c EXCEPT !.descriptor = d] = c
    BY SMTT(40), <2>2, <2>4 DEF AuthCalls
  <2>6. held' = [held EXCEPT ![r] = h] /\ authRun[r].started
        /\ UNCHANGED <<authRun, build, wallClock, effects>>
    BY ZenonT(40), <1>6, <2>5 DEF ResumeCommitted
  <2>7. h \in HeldCalls
    BY <2>2 DEF HeldCalls
  <2>8. RunSound(r, authRun[r], h)
    BY <1>a, <2>1, <2>6 DEF RunSound
  <2> HIDE DEF h
  <2>9. authRun' = [authRun EXCEPT ![r] = authRun[r]] /\ authRun[r] \in AuthRows
        /\ KeepsSteps(authRun[r], authRun[r])
    BY <1>a, <2>6
  <2> QED
    BY <2>6, <2>7, <2>8, <2>9, OneRunMoves
<1>7. ASSUME NEW r \in AuthRuns, CrossBoundary(r) PROVE AuthInv'
  <2> DEFINE n == Len(authRun[r].steps)
             e == [run |-> r, step |-> held[r].call.step, descriptor |-> held[r].call.descriptor]
             h == [held[r] EXCEPT !.pc = "record"]
  <2>1. n >= 1 /\ held[r].call = authRun[r].steps[n] /\ authRun[r].started
    BY SMTT(40), <1>7, <1>a DEF CrossBoundary, RunSound
  <2>2. held[r].call.step = n
    BY <1>a, <2>1 DEF RunSound, SoundDecision
  <2>3. /\ effects' = effects \cup {e}
        /\ held' = [held EXCEPT ![r] = h]
        /\ UNCHANGED <<authRun, build, wallClock>>
    BY <1>7 DEF CrossBoundary
  <2>4. h \in HeldCalls /\ h.pc = "record" /\ h.call = held[r].call
    BY <1>a DEF HeldCalls
  <2> HIDE DEF h
  <2>5. RunSound(r, authRun[r], h)
    BY <1>a, <2>1, <2>4 DEF RunSound
  <2>6. EffectsCommitted'
    BY <1>a, <2>1, <2>2, <2>3 DEF AuthInv, EffectsCommitted
  <2> QED
    BY <2>3, <2>4, <2>5, <2>6 DEF AuthInv
<1>8. ASSUME NEW r \in AuthRuns, RecordCall(r) PROVE AuthInv'
  <2> DEFINE n == Len(authRun[r].steps)
             run == [authRun[r] EXCEPT !.checkpointed = n]
  <2>1. authRun' = [authRun EXCEPT ![r] = run] /\ held' = [held EXCEPT ![r] = NothingHeld]
        /\ UNCHANGED <<build, wallClock, effects>>
    BY <1>8 DEF RecordCall
  <2>2. run \in AuthRows /\ run.steps = authRun[r].steps /\ run.grants = authRun[r].grants
        /\ run.started = authRun[r].started /\ run.checkpointed = n
    BY <1>a DEF AuthRows
  <2> HIDE DEF run
  <2>3. RunSound(r, run, NothingHeld)
    BY <1>a, <2>2 DEF RunSound, NothingHeld
  <2>4. KeepsSteps(authRun[r], run) /\ NothingHeld \in HeldCalls
    BY <1>a, <2>2 DEF KeepsSteps
  <2> QED
    BY <2>1, <2>2, <2>3, <2>4, OneRunMoves
<1>9. CASE ClockTicks
  BY <1>9 DEF ClockTicks, AuthInv, EffectsCommitted
<1>10. ASSUME NEW b \in Builds, Replace(b) PROVE AuthInv'
  <2>1. \A r \in AuthRuns : RunSound(r, authRun[r], NothingHeld) /\ NothingHeld \in HeldCalls
    BY <1>a DEF RunSound, NothingHeld
  <2> QED
    BY <1>10, <2>1 DEF Replace, AuthInv, EffectsCommitted
<1>11. CASE UNCHANGED authVars
  BY SMTT(40), <1>11 DEF authVars, AuthInv, EffectsCommitted
<1> QED
  BY <1>1, <1>2, <1>3, <1>4, <1>5, <1>6, <1>7, <1>8, <1>9, <1>10, <1>11 DEF AuthNext

(* Sound steps and effects of committed steps are what DispatchSanctioned    *)
(* asks for.                                                                 *)
LEMMA AuthImplies == AuthInv => DispatchSanctioned
<1> SUFFICES ASSUME AuthInv, NEW e \in effects
             PROVE  LET auth == authRun[e.run].steps[e.step]
                        plan == CallPlan[e.run][e.step]
                        grant == authRun[e.run].grants[plan.tool]
                    IN /\ e.descriptor = auth.descriptor
                       /\ e.descriptor.mode # "block" /\ grant \notin {"block", "absent"}
                       /\ plan.size <= e.descriptor.max
                       /\ \/ e.descriptor.mode = "gate" \/ grant = "gate"
                          \/ e.descriptor.scope \in {"change_production", "egress"}
                          \/ e.descriptor.effect = "non_idempotent"
                          \/ auth.tainted /\ e.descriptor.effect # "read_only"
                          => \E receipt \in Receipts :
                                /\ receipt = auth.receipt
                                /\ receipt.run = e.run /\ receipt.call = plan.call
                                /\ receipt.tool = plan.tool
                                /\ receipt.expires >= auth.at
  BY DEF DispatchSanctioned
<1>1. e.run \in AuthRuns /\ e.step \in 1 .. Len(authRun[e.run].steps)
      /\ e.descriptor = authRun[e.run].steps[e.step].descriptor
  BY DEF AuthInv, EffectsCommitted
<1>2. SoundDecision(e.run, e.step, authRun[e.run].steps[e.step], authRun[e.run].grants)
  BY <1>1 DEF AuthInv, RunSound
<1> QED
  BY ZenonT(40), <1>1, <1>2 DEF SoundDecision

(* Every effect a Run ever has was authorized under the descriptor it ran     *)
(* under, on its allowlist, with a receipt wherever a gate stood, whatever    *)
(* kills, builds, expiries and taints come between the decision, the commit  *)
(* and the effect.                                                           *)
THEOREM EffectsSanctioned == AuthSpec => []DispatchSanctioned
<1>1. AuthInv => DispatchSanctioned
  BY AuthImplies
<1> QED
  BY <1>1, InitAuth, AuthStep, PTL DEF AuthSpec

-----------------------------------------------------------------------------
(* EchoRun: the inductive invariant.                                         *)

ThreadRows ==
    [pc: {"none", "loop", "prepare", "effect", "record", "finish", "exit"},
     plan: 0..EchoStepCount, verdict: {"none", "passed", "failed"},
     output: Outputs \cup {NoOutput}]
Frames == [seq: 1..EchoStepCount, status: {"running", "done", "failed", "canceled"}]
Viewers ==
    [pc: {"off", "read", "check", "refused", "closed"},
     cursor: (1..EchoStepCount) \cup {NoOutput}, got: Seq(Frames)]

(* The row of the Run: at most one step is outstanding, none when it is over, *)
(* and the verdict is that of the stored answer.                             *)
RowTrue(r, bl) ==
    /\ r.checkpointed <= r.committed /\ r.committed <= r.checkpointed + 1
    /\ Over(r.status) => Settled(r) /\ r.control = "none"
    /\ r.artifact # NoOutput <=> r.checkpointed >= 2
    /\ r.artifact # NoOutput => r.artifact \in bl
    /\ r.checkpointed >= 2 => r.verdict = IF r.artifact \in Marked THEN "passed" ELSE "failed"
    /\ r.status = "done" => r.artifact \in Marked
    /\ r.status = "failed" => r.artifact \in Outputs \ Marked

(* What a thread carries from the state it read is still covered by the row.  *)
ThreadTrue(t, r, bl) ==
    /\ t.pc \in {"prepare", "effect", "record"} => t.plan < EchoStepCount
    /\ t.pc \in {"effect", "record"} => t.plan < r.committed
    /\ t.pc = "record" /\ t.plan = 1 => t.output \in bl
    /\ t.pc = "finish" => r.checkpointed = EchoStepCount /\ t.verdict = r.verdict

(* What a client received are consecutive settled frames of the row, up to    *)
(* its cursor.                                                               *)
Received(got, cursor, r) ==
    /\ \A i \in 1..Len(got) :
          got[i].seq <= SettledFrames(r) /\ got[i] = Frame(r, got[i].seq)
    /\ \A i \in 1..(Len(got) - 1) : got[i + 1].seq = got[i].seq + 1
    /\ Len(got) = 0 => cursor = NoOutput
    /\ Len(got) > 0 => cursor = got[Len(got)].seq
Closed(pc, got, r) ==
    pc = "closed" => Over(r.status) /\ (Len(got) = 0 => r.checkpointed = 0)
                     /\ (Len(got) > 0 => got[Len(got)].seq = r.checkpointed)
ViewTrue(v, r) == Received(v.got, v.cursor, r) /\ Closed(v.pc, v.got, r)

EchoInv ==
    /\ echo \in EchoRows /\ RowTrue(echo, blobs)
    /\ blobs \subseteq Outputs
    /\ attached \subseteq Hosts
    /\ request \in [Hosts -> {"idle", "launch", "settle"}]
    /\ thread \in [Hosts -> ThreadRows]
    /\ \A h \in Hosts : (thread[h].pc # "none") <=> h \in attached
    /\ \A h \in Hosts : ThreadTrue(thread[h], echo, blobs)
    /\ viewer \in [Clients -> Viewers]
    /\ \A c \in Clients : ViewTrue(viewer[c], echo)

(* s comes after r in the life of a Run: steps only accumulate, an end and a  *)
(* verdict are final.                                                        *)
Follows(r, s) ==
    /\ r.checkpointed <= s.checkpointed /\ r.committed <= s.committed
    /\ Over(r.status) => s.status = r.status /\ s.checkpointed = r.checkpointed
    /\ r.checkpointed >= 2 => s.verdict = r.verdict

-----------------------------------------------------------------------------
(* EchoRun: what survives a later row.                                       *)

(* What a thread carries stays covered.                                      *)
LEMMA ThreadKept ==
    ASSUME NEW r \in EchoRows, NEW s \in EchoRows, NEW t \in ThreadRows, NEW bl, NEW bm,
           Follows(r, s), bl \subseteq bm, ThreadTrue(t, r, bl)
    PROVE  ThreadTrue(t, s, bm)
  BY DEF EchoRows, ThreadRows, Follows, ThreadTrue, EchoStepCount

(* A settled frame never changes.                                            *)
LEMMA FramesStay ==
    ASSUME NEW r \in EchoRows, NEW s \in EchoRows, NEW bl, NEW bm, RowTrue(r, bl), RowTrue(s, bm),
           Follows(r, s)
    PROVE  /\ SettledFrames(r) \in 0..EchoStepCount /\ SettledFrames(r) <= SettledFrames(s)
           /\ \A q \in 1..EchoStepCount : q <= SettledFrames(r) => Frame(s, q) = Frame(r, q)
<1>1. /\ r.checkpointed \in 0..3 /\ r.committed \in 0..3
      /\ s.checkpointed \in 0..3 /\ s.committed \in 0..3
      /\ r.status \in EchoStatuses /\ s.status \in EchoStatuses
  BY DEF EchoRows, EchoStepCount
<1>2. /\ SettledFrames(r) \in 0..EchoStepCount /\ SettledFrames(r) <= SettledFrames(s)
  BY <1>1 DEF SettledFrames, RowTrue, Follows, Settled, EchoStepCount
<1>3. ASSUME NEW q \in 1..EchoStepCount, q <= SettledFrames(r)
      PROVE  Frame(s, q) = Frame(r, q)
  <2>1. CASE Over(r.status)
    BY <1>1, <2>1 DEF Frame, Follows
  <2>2. CASE ~Over(r.status)
    <3>1. ~(Over(s.status) /\ q = s.checkpointed)
      BY <1>1, <1>3, <2>2 DEF SettledFrames, RowTrue, Follows, Settled, EchoStepCount
    <3> QED
      BY <2>2, <3>1 DEF Frame
  <2> QED
    BY <2>1, <2>2
<1> QED
  BY <1>2, <1>3

(* What a client received stays true of the row.                             *)
LEMMA ViewKept ==
    ASSUME NEW r \in EchoRows, NEW s \in EchoRows, NEW bl, NEW bm, RowTrue(r, bl), RowTrue(s, bm),
           Follows(r, s), NEW v \in Viewers, ViewTrue(v, r)
    PROVE  ViewTrue(v, s)
<1> DEFINE got == v.got
<1>1. got \in Seq(Frames)
  BY DEF Viewers
<1>3. Received(got, v.cursor, r) /\ Closed(v.pc, got, r)
  BY DEF ViewTrue
<1> HIDE DEF got
<1>2. \A i \in 1..Len(got) : got[i].seq \in 1..EchoStepCount
  <2>1. \A i \in 1..Len(got) : got[i] \in Frames
    BY <1>1
  <2> QED
    BY <2>1 DEF Frames
<1>4. Received(got, v.cursor, s)
  <2>1. ASSUME NEW i \in 1..Len(got)
        PROVE  got[i].seq <= SettledFrames(s) /\ got[i] = Frame(s, got[i].seq)
    <3>1. /\ got[i].seq \in 1..EchoStepCount /\ got[i].seq <= SettledFrames(r)
          /\ got[i] = Frame(r, got[i].seq)
      BY <1>2, <1>3 DEF Received
    <3>2. Frame(s, got[i].seq) = Frame(r, got[i].seq)
      BY <3>1, FramesStay
    <3>3. SettledFrames(r) \in Int /\ SettledFrames(s) \in Int /\ SettledFrames(r) <= SettledFrames(s)
      BY FramesStay DEF SettledFrames, EchoRows, EchoStepCount
    <3> QED
      BY <3>1, <3>2, <3>3 DEF EchoStepCount
  <2> QED
    BY <1>3, <2>1 DEF Received
<1>5. Closed(v.pc, got, s)
  BY <1>3 DEF Closed, Follows
<1> QED
  BY <1>4, <1>5 DEF ViewTrue, got

-----------------------------------------------------------------------------
(* EchoRun: the rows the operations write.                                   *)

(* The Run has moved on to s, with the blobs bm.                             *)
Advances(r, bl, s, bm) == s \in EchoRows /\ RowTrue(s, bm) /\ Follows(r, s)

(* A row is its own successor, also when a blob is added.                    *)
LEMMA AdvancesSame ==
    ASSUME NEW r \in EchoRows, NEW bl, NEW bm, RowTrue(r, bl), bl \subseteq bm
    PROVE  Advances(r, bl, r, bm)
  BY DEF Advances, RowTrue, Follows, EchoRows, EchoStepCount

(* A status that is not an end, and a control, written on a Run that is not   *)
(* over.                                                                     *)
LEMMA AdvancesStatus ==
    ASSUME NEW r \in EchoRows, NEW bl, RowTrue(r, bl), ~Over(r.status), NEW s \in EchoRows,
           s.committed = r.committed, s.checkpointed = r.checkpointed,
           s.verdict = r.verdict, s.artifact = r.artifact,
           ~Over(s.status) \/ (s.status = "canceled" /\ Settled(r) /\ s.control = "none")
    PROVE  Advances(r, bl, s, bl)
  BY DEF Advances, RowTrue, Follows, EchoRows, EchoStepCount, Over, Settled

(* settle_control: a pending control takes effect at the boundary.           *)
LEMMA AppliedRow ==
    ASSUME NEW r \in EchoRows
    PROVE  LET s == Applied(r) IN
           /\ s \in EchoRows
           /\ s.status = IF r.control = "pause" THEN "paused" ELSE "canceled"
           /\ s.control = "none"
           /\ s.committed = r.committed /\ s.checkpointed = r.checkpointed
           /\ s.verdict = r.verdict /\ s.artifact = r.artifact
  BY DEF Applied, EchoRows, EchoStatuses

(* A control that takes effect only pauses or ends the Run.                   *)
LEMMA AdvancesApplied ==
    ASSUME NEW r \in EchoRows, NEW bl, RowTrue(r, bl), r.control # "none", Settled(r)
    PROVE  Advances(r, bl, Applied(r), bl)
<1>1. ~Over(r.status)
  BY DEF RowTrue
<1>2. ~Over(Applied(r).status) \/ Applied(r).status = "canceled"
  BY AppliedRow DEF Over
<1> QED
  BY <1>1, <1>2, AppliedRow, AdvancesStatus

(* So does one that takes effect if the Run is at a boundary.                *)
LEMMA AdvancesSettled ==
    ASSUME NEW r \in EchoRows, NEW bl, RowTrue(r, bl)
    PROVE  Advances(r, bl, SettledControl(r), bl)
<1>1. CASE r.control # "none" /\ Settled(r)
  BY <1>1, AdvancesApplied DEF SettledControl
<1>2. CASE ~(r.control # "none" /\ Settled(r))
  BY <1>2, AdvancesSame DEF SettledControl
<1> QED
  BY <1>1, <1>2

(* A row that follows one that follows another.                              *)
LEMMA AdvancesTwice ==
    ASSUME NEW r \in EchoRows, NEW s \in EchoRows, NEW z \in EchoRows, NEW bl,
           Advances(r, bl, s, bl), Advances(s, bl, z, bl)
    PROVE  Advances(r, bl, z, bl)
  BY DEF Advances, Follows, EchoRows, EchoStepCount

(* The next step is committed.                                               *)
LEMMA AdvancesCommit ==
    ASSUME NEW r \in EchoRows, NEW bl, RowTrue(r, bl), Settled(r), r.status = "running",
           r.checkpointed < EchoStepCount
    PROVE  LET s == [r EXCEPT !.committed = @ + 1] IN
           Advances(r, bl, s, bl) /\ s.committed = r.checkpointed + 1
<1> DEFINE s == [r EXCEPT !.committed = @ + 1]
<1>1. /\ s \in EchoRows /\ s.committed = r.committed + 1 /\ s.status = r.status
      /\ s.control = r.control /\ s.checkpointed = r.checkpointed /\ s.verdict = r.verdict
      /\ s.artifact = r.artifact
  BY DEF EchoRows, EchoStepCount, Settled
<1> HIDE DEF s
<1>2. Advances(r, bl, s, bl)
  BY <1>1 DEF Advances, RowTrue, Follows, EchoRows, EchoStepCount, Over, Settled
<1>3. s.committed = r.checkpointed + 1
  BY <1>1 DEF Settled
<1> QED
  BY <1>2, <1>3 DEF s

(* The outstanding step gets its checkpoint, the model step its artifact and  *)
(* verdict with it.                                                          *)
Recorded(plan, output, r) == Verdict(plan, output, [r EXCEPT !.checkpointed = @ + 1])

(* A receipt that is recorded, with the answer in the store, keeps the row    *)
(* true.                                                                     *)
LEMMA AdvancesRecord ==
    ASSUME NEW r \in EchoRows, NEW bl \in SUBSET Outputs, RowTrue(r, bl), r.committed = r.checkpointed + 1,
           NEW output \in Outputs \cup {NoOutput},
           r.checkpointed = 1 => output \in bl
    PROVE  LET s == Recorded(r.checkpointed, output, r) IN
           /\ Advances(r, bl, s, bl) /\ ~Over(s.status)
           /\ s.committed = r.committed /\ s.checkpointed = r.checkpointed + 1
<1> DEFINE p == [r EXCEPT !.checkpointed = @ + 1]
           s == Verdict(r.checkpointed, output, p)
<1>1. /\ p \in EchoRows /\ p.checkpointed = r.checkpointed + 1 /\ p.committed = r.committed
      /\ p.status = r.status /\ p.control = r.control /\ p.verdict = r.verdict
      /\ p.artifact = r.artifact
  BY DEF EchoRows, EchoStepCount
<1> HIDE DEF p
<1>2. /\ s \in EchoRows /\ s.checkpointed = r.checkpointed + 1 /\ s.committed = r.committed
      /\ s.status = r.status
      /\ s.artifact = IF r.checkpointed = 1 THEN output ELSE r.artifact
      /\ s.verdict = IF r.checkpointed = 1 THEN (IF output \in Marked THEN "passed" ELSE "failed")
                     ELSE r.verdict
  BY <1>1 DEF Verdict, EchoRows
<1> HIDE DEF s
<1>3. r.checkpointed \in 0..3 /\ r.committed \in 0..3
  BY DEF EchoRows, EchoStepCount
<1>4. ~Over(r.status)
  BY <1>3 DEF RowTrue, Settled
<1>5. output \in bl => output # NoOutput
  BY EchoAssumption
<1>6. RowTrue(s, bl)
  BY <1>2, <1>3, <1>4, <1>5 DEF RowTrue, Over
<1>7. Follows(r, s)
  BY <1>2, <1>3, <1>4 DEF Follows
<1> QED
  BY <1>2, <1>4, <1>6, <1>7 DEF Advances, Recorded, s, p

-----------------------------------------------------------------------------
(* EchoRun: the shapes of a step.                                            *)

(* A step of a process: the row advances, and each thread is as it was or     *)
(* carries what is true of the new row.                                      *)
LEMMA HostMoves ==
    ASSUME EchoInv, Advances(echo, blobs, echo', blobs'), blobs \subseteq blobs', blobs' \subseteq Outputs,
           viewer' = viewer, attached' \subseteq Hosts,
           request' \in [Hosts -> {"idle", "launch", "settle"}],
           thread' \in [Hosts -> ThreadRows],
           \A h \in Hosts : (thread'[h].pc # "none") <=> h \in attached',
           \A h \in Hosts : thread'[h] = thread[h] \/ ThreadTrue(thread'[h], echo', blobs')
    PROVE  EchoInv'
<1>1. /\ echo \in EchoRows /\ RowTrue(echo, blobs) /\ thread \in [Hosts -> ThreadRows]
      /\ \A h \in Hosts : ThreadTrue(thread[h], echo, blobs)
      /\ viewer \in [Clients -> Viewers] /\ \A c \in Clients : ViewTrue(viewer[c], echo)
  BY DEF EchoInv
<1>2. echo' \in EchoRows /\ RowTrue(echo', blobs') /\ Follows(echo, echo')
  BY DEF Advances
<1>3. ASSUME NEW h \in Hosts PROVE ThreadTrue(thread'[h], echo', blobs')
  <2>1. thread[h] \in ThreadRows /\ ThreadTrue(thread[h], echo, blobs)
    BY <1>1
  <2>2. ThreadTrue(thread[h], echo', blobs')
    BY <1>1, <1>2, <2>1, ThreadKept
  <2> QED
    BY <2>2
<1>4. ASSUME NEW c \in Clients PROVE ViewTrue(viewer'[c], echo')
  <2>1. viewer[c] \in Viewers /\ ViewTrue(viewer[c], echo)
    BY <1>1
  <2>2. ViewTrue(viewer[c], echo')
    BY <1>1, <1>2, <2>1, ViewKept
  <2> QED
    BY <2>2
<1> QED
  BY <1>1, <1>2, <1>3, <1>4 DEF EchoInv

(* A step of the thread of one process.                                      *)
LEMMA ThreadMoves ==
    ASSUME EchoInv, NEW h \in Hosts, NEW t \in ThreadRows, t.pc # "none", thread[h].pc # "none",
           EchoStep(h, t), Advances(echo, blobs, echo', blobs'), blobs \subseteq blobs',
           blobs' \subseteq Outputs, ThreadTrue(t, echo', blobs')
    PROVE  EchoInv'
<1>1. /\ thread \in [Hosts -> ThreadRows] /\ attached \subseteq Hosts
      /\ request \in [Hosts -> {"idle", "launch", "settle"}]
      /\ \A g \in Hosts : (thread[g].pc # "none") <=> g \in attached
  BY DEF EchoInv
<1>2. /\ thread' = [thread EXCEPT ![h] = t]
      /\ attached' = attached /\ request' = request /\ viewer' = viewer
  BY DEF EchoStep
<1>3. /\ thread' \in [Hosts -> ThreadRows]
      /\ \A g \in Hosts : thread'[g] = IF g = h THEN t ELSE thread[g]
  BY <1>1, <1>2
<1>4. \A g \in Hosts : (thread'[g].pc # "none") <=> g \in attached'
  BY <1>1, <1>2, <1>3
<1>5. \A g \in Hosts : thread'[g] = thread[g] \/ ThreadTrue(thread'[g], echo', blobs')
  BY <1>3
<1> QED
  BY <1>1, <1>2, <1>3, <1>4, <1>5, HostMoves

(* A step of a client.                                                       *)
LEMMA ClientMoves ==
    ASSUME EchoInv, NEW c \in Clients, NEW v \in Viewers, View(c, v), ViewTrue(v, echo)
    PROVE  EchoInv'
<1>1. viewer \in [Clients -> Viewers] /\ \A d \in Clients : ViewTrue(viewer[d], echo)
  BY DEF EchoInv
<1>2. /\ viewer' = [viewer EXCEPT ![c] = v]
      /\ echo' = echo /\ blobs' = blobs /\ thread' = thread /\ attached' = attached
      /\ request' = request
  BY DEF View
<1>3. viewer' \in [Clients -> Viewers] /\ \A d \in Clients : ViewTrue(viewer'[d], echo)
  BY <1>1, <1>2
<1> QED
  BY <1>2, <1>3 DEF EchoInv

(* A thread that leaves carries nothing.                                     *)
LEMMA LeavingRow ==
    /\ NoThread \in ThreadRows /\ NoThread.pc = "none"
    /\ Leaving \in ThreadRows /\ Leaving.pc = "exit"
    /\ [NoThread EXCEPT !.pc = "loop"] \in ThreadRows
    /\ [NoThread EXCEPT !.pc = "loop"].pc = "loop"
<1>1. NoThread \in ThreadRows /\ NoThread.pc = "none"
  BY DEF NoThread, ThreadRows, EchoStepCount
<1>2. /\ Leaving \in ThreadRows /\ Leaving.pc = "exit"
      /\ [NoThread EXCEPT !.pc = "loop"] \in ThreadRows
      /\ [NoThread EXCEPT !.pc = "loop"].pc = "loop"
  BY <1>1 DEF Leaving, ThreadRows
<1> QED
  BY <1>1, <1>2

(* A thread outside its step needs nothing of the row.                       *)
LEMMA IdleThread ==
    ASSUME NEW t, NEW r, NEW bl, t.pc \in {"none", "loop", "exit"}
    PROVE  ThreadTrue(t, r, bl)
  BY DEF ThreadTrue

(* What the program can be in at its start.                                  *)
LEMMA InitEcho == EchoInit => EchoInv
<1> SUFFICES ASSUME EchoInit PROVE EchoInv
  OBVIOUS
<1>1. echo \in EchoRows /\ RowTrue(echo, blobs)
  BY DEF EchoInit, EchoRows, EchoStatuses, EchoStepCount, RowTrue, Over
<1>2. \A h \in Hosts : thread[h] = NoThread
  BY DEF EchoInit
<1>3. thread \in [Hosts -> ThreadRows]
  BY LeavingRow DEF EchoInit
<1>4. \A h \in Hosts : ThreadTrue(thread[h], echo, blobs) /\ thread[h].pc = "none"
  BY <1>2, LeavingRow, IdleThread
<1> DEFINE v == [pc |-> "off", cursor |-> NoOutput, got |-> <<>>]
<1>5. v \in Viewers
  <2>1. <<>> \in Seq(Frames)
    BY EmptySeq
  <2> QED
    BY <2>1 DEF Viewers
<1>6. ViewTrue(v, echo)
  <2>1. Received(<<>>, NoOutput, echo) /\ Closed("off", <<>>, echo)
    BY DEF Received, Closed
  <2> QED
    BY <2>1 DEF ViewTrue
<1> HIDE DEF v
<1>7. viewer \in [Clients -> Viewers] /\ \A c \in Clients : ViewTrue(viewer[c], echo)
  <2>1. viewer = [c \in Clients |-> v]
    BY DEF EchoInit, v
  <2> QED
    BY <1>5, <1>6, <2>1
<1>8. /\ blobs \subseteq Outputs /\ attached = {}
      /\ request \in [Hosts -> {"idle", "launch", "settle"}]
  BY DEF EchoInit
<1> QED
  BY <1>1, <1>3, <1>4, <1>7, <1>8 DEF EchoInv

-----------------------------------------------------------------------------
(* EchoRun: the steps.                                                       *)

(* The run operations and the supervisor of a process.                       *)
LEMMA OperationStep ==
    ASSUME EchoInv, NEW h \in Hosts,
           \/ EchoStart(h) \/ EchoResume(h) \/ EchoSettle(h) \/ Launch(h) \/ SpawnFails(h)
           \/ \E control \in {"pause", "cancel"} : EchoControl(h, control)
           \/ Detach(h) \/ KillHost(h)
    PROVE  EchoInv'
<1>0. /\ echo \in EchoRows /\ RowTrue(echo, blobs) /\ blobs \subseteq Outputs
      /\ attached \subseteq Hosts /\ request \in [Hosts -> {"idle", "launch", "settle"}]
      /\ thread \in [Hosts -> ThreadRows]
      /\ \A g \in Hosts : (thread[g].pc # "none") <=> g \in attached
  BY DEF EchoInv
<1>1. ASSUME UNCHANGED <<blobs, thread, attached, viewer>>, Advances(echo, blobs, echo', blobs),
             request' \in [Hosts -> {"idle", "launch", "settle"}]
      PROVE  EchoInv'
  BY <1>0, <1>1, HostMoves
<1>2. ASSUME NEW t \in ThreadRows, t.pc \in {"none", "loop", "exit"},
             thread' = [thread EXCEPT ![h] = t],
             attached' = IF t.pc = "none" THEN attached \ {h} ELSE attached \cup {h},
             UNCHANGED <<echo, blobs, viewer>>,
             request' \in [Hosts -> {"idle", "launch", "settle"}]
      PROVE  EchoInv'
  <2>1. /\ thread' \in [Hosts -> ThreadRows]
        /\ \A g \in Hosts : thread'[g] = IF g = h THEN t ELSE thread[g]
    BY <1>0, <1>2
  <2>2. attached' \subseteq Hosts
    BY <1>0, <1>2
  <2>3. \A g \in Hosts : (thread'[g].pc # "none") <=> g \in attached'
    <3>1. ASSUME NEW g \in Hosts, g # h PROVE (thread'[g].pc # "none") <=> g \in attached'
      BY <1>0, <1>2, <2>1, <3>1
    <3>2. (thread'[h].pc # "none") <=> h \in attached'
      BY <1>2, <2>1
    <3> QED
      BY <3>1, <3>2
  <2>4. \A g \in Hosts : thread'[g] = thread[g] \/ ThreadTrue(thread'[g], echo', blobs')
    BY <1>2, <2>1, IdleThread
  <2>5. Advances(echo, blobs, echo', blobs')
    BY <1>0, <1>2, AdvancesSame
  <2> QED
    BY <1>0, <1>2, <2>1, <2>2, <2>3, <2>4, <2>5, HostMoves
<1>3. CASE EchoStart(h)
  <2>1. echo' = [echo EXCEPT !.status = "running"] /\ ~Over(echo.status)
    BY <1>3 DEF EchoStart, Over
  <2>2. Advances(echo, blobs, echo', blobs)
    <3>1. /\ echo' \in EchoRows /\ echo'.committed = echo.committed
          /\ echo'.checkpointed = echo.checkpointed /\ echo'.verdict = echo.verdict
          /\ echo'.artifact = echo.artifact /\ ~Over(echo'.status)
      BY <1>0, <2>1 DEF EchoRows, EchoStatuses, Over
    <3> QED
      BY <1>0, <2>1, <3>1, AdvancesStatus
  <2> QED
    BY <1>0, <1>1, <1>3, <2>2 DEF EchoStart, EchoRest
<1>4. CASE EchoResume(h)
  <2>1. echo' = [echo EXCEPT !.status = "running"] /\ ~Over(echo.status)
    BY <1>4 DEF EchoResume, Over
  <2>2. Advances(echo, blobs, echo', blobs)
    <3>1. /\ echo' \in EchoRows /\ echo'.committed = echo.committed
          /\ echo'.checkpointed = echo.checkpointed /\ echo'.verdict = echo.verdict
          /\ echo'.artifact = echo.artifact /\ ~Over(echo'.status)
      BY <1>0, <2>1 DEF EchoRows, EchoStatuses, Over
    <3> QED
      BY <1>0, <2>1, <3>1, AdvancesStatus
  <2> QED
    BY <1>0, <1>1, <1>4, <2>2 DEF EchoResume, EchoRest
<1>5. CASE EchoSettle(h)
  <2>1. Advances(echo, blobs, echo', blobs)
    BY <1>0, <1>5, AdvancesSettled DEF EchoSettle
  <2> QED
    BY <1>0, <1>1, <1>5, <2>1 DEF EchoSettle, EchoRest
<1>6. ASSUME NEW control \in {"pause", "cancel"}, EchoControl(h, control) PROVE EchoInv'
  <2>1. echo' = [echo EXCEPT !.control = control] /\ ~Over(echo.status)
    BY <1>6 DEF EchoControl
  <2>2. Advances(echo, blobs, echo', blobs)
    <3>1. /\ echo' \in EchoRows /\ echo'.committed = echo.committed
          /\ echo'.checkpointed = echo.checkpointed /\ echo'.verdict = echo.verdict
          /\ echo'.artifact = echo.artifact /\ echo'.status = echo.status
      BY <1>0, <2>1 DEF EchoRows
    <3> QED
      BY <1>0, <2>1, <3>1, AdvancesStatus
  <2> QED
    BY <1>0, <1>1, <1>6, <2>2 DEF EchoControl, EchoRest
<1>7. CASE Launch(h)
  <2>0. request' \in [Hosts -> {"idle", "launch", "settle"}] /\ UNCHANGED <<echo, blobs, viewer>>
    BY <1>0, <1>7 DEF Launch, EchoRest
  <2>1. CASE h \in attached
    <3>1. thread' = thread /\ attached' = attached
      BY <1>7, <2>1 DEF Launch
    <3>2. Advances(echo, blobs, echo', blobs)
      BY <1>0, <2>0, AdvancesSame
    <3> QED
      BY <1>1, <2>0, <3>1, <3>2
  <2>2. CASE h \notin attached
    <3> DEFINE t == [NoThread EXCEPT !.pc = "loop"]
    <3>1. thread' = [thread EXCEPT ![h] = t] /\ attached' = attached \cup {h}
      BY <1>7, <2>2 DEF Launch
    <3>2. t \in ThreadRows /\ t.pc = "loop"
      BY LeavingRow
    <3> HIDE DEF t
    <3> QED
      BY <1>2, <2>0, <3>1, <3>2
  <2> QED
    BY <2>1, <2>2
<1>8. CASE SpawnFails(h)
  <2>1. Advances(echo, blobs, echo', blobs)
    BY <1>0, <1>8, AdvancesSame DEF SpawnFails
  <2> QED
    BY <1>0, <1>1, <1>8, <2>1 DEF SpawnFails, EchoRest
<1>9. CASE Detach(h)
  BY <1>0, <1>2, <1>9, LeavingRow DEF Detach, EchoRest
<1>10. CASE KillHost(h)
  BY <1>0, <1>2, <1>10, LeavingRow DEF KillHost
<1> QED
  BY <1>3, <1>4, <1>5, <1>6, <1>7, <1>8, <1>9, <1>10

(* The thread of a process: its loop, its three steps and its finish.        *)
LEMMA ThreadStep ==
    ASSUME EchoInv, NEW h \in Hosts,
           \/ EchoLoop(h) \/ EchoPrepare(h) \/ PlainEffect(h) \/ EffectFails(h)
           \/ \E output \in Outputs : ModelEffect(h, output)
           \/ \E over \in BOOLEAN : EchoRecord(h, over)
           \/ EchoFinish(h)
    PROVE  EchoInv'
<1> DEFINE t == thread[h]
<1>0. /\ echo \in EchoRows /\ RowTrue(echo, blobs) /\ blobs \subseteq Outputs
      /\ t \in ThreadRows /\ ThreadTrue(t, echo, blobs)
  BY DEF EchoInv
<1>a. /\ echo.checkpointed \in 0..3 /\ echo.committed \in 0..3
      /\ t.plan \in 0..3 /\ t.output \in Outputs \cup {NoOutput}
  BY <1>0 DEF EchoRows, ThreadRows, EchoStepCount
<1>1. Advances(echo, blobs, echo, blobs)
  BY <1>0, AdvancesSame
<1>2. ASSUME EchoStep(h, Leaving), t.pc # "none", Advances(echo, blobs, echo', blobs), blobs' = blobs
      PROVE  EchoInv'
  <2>1. ThreadTrue(Leaving, echo', blobs')
    BY LeavingRow, IdleThread
  <2> QED
    BY <1>0, <1>2, <2>1, LeavingRow, ThreadMoves
<1>3. ASSUME NEW pc \in {"loop", "prepare", "effect", "record", "finish"},
             NEW n \in ThreadRows, n.pc = pc, EchoStep(h, n), t.pc # "none",
             Advances(echo, blobs, echo', blobs), blobs' = blobs,
             ThreadTrue(n, echo', blobs)
      PROVE  EchoInv'
  BY <1>0, <1>3, ThreadMoves
<1> HIDE DEF t
<1>4. CASE EchoLoop(h)
  <2> DEFINE n == [t EXCEPT !.pc = IF echo.checkpointed >= EchoStepCount THEN "finish" ELSE "prepare",
                            !.plan = echo.checkpointed, !.verdict = echo.verdict]
  <2>1. t.pc = "loop" /\ UNCHANGED <<echo, blobs>>
    BY <1>4 DEF EchoLoop, t
  <2>2. CASE Over(echo.status) \/ echo.status = "paused"
    BY <1>1, <1>2, <1>4, <2>1, <2>2 DEF EchoLoop, t
  <2>3. CASE ~(Over(echo.status) \/ echo.status = "paused")
    <3>1. EchoStep(h, n)
      BY <1>4, <2>3 DEF EchoLoop, t
    <3>2. /\ n \in ThreadRows
          /\ n.pc = IF echo.checkpointed >= EchoStepCount THEN "finish" ELSE "prepare"
          /\ n.plan = echo.checkpointed /\ n.verdict = echo.verdict
      BY <1>0 DEF ThreadRows, EchoRows
    <3> HIDE DEF n
    <3>3. ThreadTrue(n, echo', blobs)
      BY <1>a, <2>1, <3>2 DEF ThreadTrue, EchoStepCount
    <3>4. n.pc \in {"finish", "prepare"}
      BY <3>2
    <3> QED
      BY <1>1, <1>3, <2>1, <3>1, <3>2, <3>3, <3>4
  <2> QED
    BY <2>2, <2>3
<1>5. CASE EchoPrepare(h)
  <2>0. t.pc = "prepare" /\ blobs' = blobs /\ t.plan < 3
    BY <1>0, <1>5 DEF EchoPrepare, ThreadTrue, EchoStepCount, t
  <2>1. ASSUME NEW pc \in {"loop", "effect"}
        PROVE  [t EXCEPT !.pc = pc] \in ThreadRows /\ [t EXCEPT !.pc = pc].pc = pc
               /\ [t EXCEPT !.pc = pc].plan = t.plan
    BY <1>0 DEF ThreadRows
  <2>a. ThreadTrue([t EXCEPT !.pc = "loop"], echo', blobs)
    <3> DEFINE n == [t EXCEPT !.pc = "loop"]
    <3>1. n.pc = "loop"
      BY <2>1
    <3> HIDE DEF n
    <3>2. ThreadTrue(n, echo', blobs)
      BY <3>1, IdleThread
    <3> QED
      BY <3>2 DEF n
  <2>2. CASE /\ echo.control # "none" /\ Settled(echo)
             /\ echo' = Applied(echo)
             /\ EchoStep(h, [t EXCEPT !.pc = "loop"])
    <3>1. Advances(echo, blobs, echo', blobs)
      BY <1>0, <2>2, AdvancesApplied
    <3> QED
      BY <1>3, <2>0, <2>1, <2>2, <2>a, <3>1
  <2>3. CASE UNCHANGED echo /\ EchoStep(h, Leaving)
    BY <1>1, <1>2, <2>0, <2>3
  <2>4. CASE /\ t.plan = echo.checkpointed /\ ~Settled(echo)
             /\ UNCHANGED echo
             /\ EchoStep(h, [t EXCEPT !.pc = "effect"])
    <3>1. ThreadTrue([t EXCEPT !.pc = "effect"], echo', blobs)
      BY <1>0, <1>a, <2>0, <2>1, <2>4 DEF ThreadTrue, RowTrue, Settled, EchoStepCount
    <3> QED
      BY <1>1, <1>3, <2>0, <2>1, <2>4, <3>1
  <2>5. CASE /\ Settled(echo) /\ echo.status = "running" /\ t.plan = echo.checkpointed
             /\ echo.checkpointed >= StepBudget
             /\ echo' = [echo EXCEPT !.status = "paused"]
             /\ EchoStep(h, [t EXCEPT !.pc = "loop"])
    <3>1. /\ echo' \in EchoRows /\ echo'.committed = echo.committed
          /\ echo'.checkpointed = echo.checkpointed /\ echo'.verdict = echo.verdict
          /\ echo'.artifact = echo.artifact /\ ~Over(echo'.status) /\ ~Over(echo.status)
      BY <1>0, <2>5 DEF EchoRows, EchoStatuses, Over
    <3>2. Advances(echo, blobs, echo', blobs)
      BY <1>0, <3>1, AdvancesStatus
    <3> QED
      BY <1>3, <2>0, <2>1, <2>5, <2>a, <3>2
  <2>6. CASE /\ Settled(echo) /\ echo.status = "running" /\ t.plan = echo.checkpointed
             /\ ~(echo.checkpointed >= StepBudget)
             /\ echo' = [echo EXCEPT !.committed = @ + 1]
             /\ EchoStep(h, [t EXCEPT !.pc = "effect"])
    <3>1. Advances(echo, blobs, echo', blobs) /\ echo'.committed = echo.checkpointed + 1
      BY <1>0, <1>a, <2>0, <2>6, AdvancesCommit DEF EchoStepCount
    <3>2. ThreadTrue([t EXCEPT !.pc = "effect"], echo', blobs)
      BY <1>a, <2>0, <2>1, <2>6, <3>1 DEF ThreadTrue, EchoStepCount
    <3> QED
      BY <1>3, <2>0, <2>1, <2>6, <3>1, <3>2
  <2> QED
    BY <1>5, <2>2, <2>3, <2>4, <2>5, <2>6 DEF EchoPrepare, t
<1>6. CASE PlainEffect(h)
  <2> DEFINE n == [t EXCEPT !.pc = "record"]
  <2>1. t.pc = "effect" /\ t.plan # 1 /\ EchoStep(h, n) /\ UNCHANGED <<echo, blobs>>
    BY <1>6 DEF PlainEffect, t
  <2>2. n \in ThreadRows /\ n.pc = "record" /\ n.plan = t.plan
    BY <1>0 DEF ThreadRows
  <2> HIDE DEF n
  <2>3. ThreadTrue(n, echo', blobs)
    BY <1>0, <1>a, <2>1, <2>2 DEF ThreadTrue
  <2> QED
    BY <1>1, <1>3, <2>1, <2>2, <2>3
<1>7. ASSUME NEW output \in Outputs, ModelEffect(h, output) PROVE EchoInv'
  <2> DEFINE n == [t EXCEPT !.pc = "record", !.output = output]
  <2>1. t.pc = "effect" /\ t.plan = 1 /\ EchoStep(h, n) /\ echo' = echo
        /\ blobs' = blobs \cup {output}
    BY <1>7 DEF ModelEffect, t
  <2>2. n \in ThreadRows /\ n.pc = "record" /\ n.plan = t.plan /\ n.output = output
    BY <1>0 DEF ThreadRows
  <2> HIDE DEF n
  <2>3. ThreadTrue(n, echo', blobs')
    BY <1>0, <1>a, <2>1, <2>2 DEF ThreadTrue
  <2>4. Advances(echo, blobs, echo', blobs')
    BY <1>0, <2>1, AdvancesSame
  <2>5. blobs \subseteq blobs' /\ blobs' \subseteq Outputs /\ n.pc # "none" /\ thread[h].pc # "none"
    BY <1>0, <2>1, <2>2 DEF t
  <2> QED
    BY <2>1, <2>2, <2>3, <2>4, <2>5, ThreadMoves
<1>8. CASE EffectFails(h)
  BY <1>1, <1>2, <1>8 DEF EffectFails, t
<1>9. ASSUME NEW over \in BOOLEAN, EchoRecord(h, over) PROVE EchoInv'
  <2> DEFINE s == Recorded(t.plan, t.output, echo)
             n == [t EXCEPT !.pc = "loop", !.output = NoOutput]
             known == echo.checkpointed > t.plan
  <2>0. t.pc = "record" /\ blobs' = blobs /\ t.plan < echo.committed
    BY <1>0, <1>9 DEF EchoRecord, ThreadTrue, t
  <2>1. n \in ThreadRows /\ n.pc = "loop"
    BY <1>0 DEF ThreadRows
  <2>2. EchoStep(h, Leaving) \/ EchoStep(h, n)
    BY <1>9 DEF EchoRecord, t
  <2>3. Advances(echo, blobs, echo', blobs)
    <3>1. CASE known
      <4>1. echo' = echo
        BY <1>9, <3>1 DEF EchoRecord, t
      <4> QED
        BY <1>1, <4>1
    <3>2. CASE ~known
      <4>1. t.plan = echo.checkpointed /\ echo.committed = echo.checkpointed + 1
        BY <1>0, <1>a, <2>0, <3>2 DEF RowTrue
      <4>2. echo.checkpointed = 1 => t.output \in blobs
        BY <1>0, <2>0, <4>1 DEF ThreadTrue
      <4>3. /\ Advances(echo, blobs, s, blobs) /\ ~Over(s.status)
        BY <1>0, <1>a, <4>1, <4>2, AdvancesRecord
      <4>4. s \in EchoRows /\ RowTrue(s, blobs)
        BY <4>3 DEF Advances
      <4>5. echo' = IF over THEN [s EXCEPT !.status = "paused", !.control = "none"]
                    ELSE SettledControl(s)
        BY <1>9, <3>2 DEF EchoRecord, Recorded, t
      <4> HIDE DEF s
      <4>6. CASE over
        <5> DEFINE z == [s EXCEPT !.status = "paused", !.control = "none"]
        <5>1. /\ z \in EchoRows /\ z.committed = s.committed /\ z.checkpointed = s.checkpointed
              /\ z.verdict = s.verdict /\ z.artifact = s.artifact /\ ~Over(z.status)
          BY <4>4 DEF EchoRows, EchoStatuses, Over
        <5> HIDE DEF z
        <5>2. Advances(s, blobs, z, blobs)
          BY <4>3, <4>4, <5>1, AdvancesStatus
        <5>3. Advances(echo, blobs, z, blobs)
          BY <1>0, <4>3, <4>4, <5>1, <5>2, AdvancesTwice
        <5> QED
          BY <4>5, <4>6, <5>3 DEF z
      <4>7. CASE ~over
        <5>1. Advances(s, blobs, SettledControl(s), blobs)
          BY <4>4, AdvancesSettled
        <5>2. SettledControl(s) \in EchoRows
          BY <5>1 DEF Advances
        <5>3. Advances(echo, blobs, SettledControl(s), blobs)
          BY <1>0, <4>3, <4>4, <5>1, <5>2, AdvancesTwice
        <5> QED
          BY <4>5, <4>7, <5>3
      <4> QED
        BY <4>6, <4>7
    <3> QED
      BY <3>1, <3>2
  <2> HIDE DEF n
  <2>4. ThreadTrue(n, echo', blobs)
    BY <2>1, IdleThread
  <2>5. CASE EchoStep(h, Leaving)
    BY <1>2, <2>0, <2>3, <2>5
  <2>6. CASE EchoStep(h, n)
    BY <1>3, <2>0, <2>1, <2>3, <2>4, <2>6
  <2> QED
    BY <2>2, <2>5, <2>6
<1>10. CASE EchoFinish(h)
  <2> DEFINE outcome == IF t.verdict = "passed" THEN "done" ELSE "failed"
  <2>0. /\ t.pc = "finish" /\ blobs' = blobs /\ EchoStep(h, Leaving)
        /\ echo.checkpointed = 3 /\ t.verdict = echo.verdict
    BY <1>0, <1>10 DEF EchoFinish, ThreadTrue, EchoStepCount, t
  <2>1. \/ /\ ~Over(echo.status) /\ Settled(echo) /\ echo.control = "none"
           /\ echo' = [echo EXCEPT !.status = outcome]
        \/ echo' = SettledControl(echo)
        \/ echo' = echo
    BY <1>10 DEF EchoFinish, t
  <2>2. CASE /\ ~Over(echo.status) /\ Settled(echo) /\ echo.control = "none"
             /\ echo' = [echo EXCEPT !.status = outcome]
    <3>1. /\ echo' \in EchoRows /\ echo'.status = outcome /\ echo'.control = echo.control
          /\ echo'.committed = echo.committed /\ echo'.checkpointed = echo.checkpointed
          /\ echo'.verdict = echo.verdict /\ echo'.artifact = echo.artifact
      BY <1>0, <2>2 DEF EchoRows, EchoStatuses
    <3>2. echo.artifact \in Outputs
      BY <1>0, <2>0 DEF RowTrue
    <3>3. outcome = IF echo.artifact \in Marked THEN "done" ELSE "failed"
      BY <1>0, <2>0 DEF RowTrue
    <3> HIDE DEF outcome
    <3>4. Advances(echo, blobs, echo', blobs)
      <4>1. RowTrue(echo', blobs)
        BY <1>0, <2>2, <3>1, <3>2, <3>3 DEF RowTrue, Settled
      <4>2. Follows(echo, echo')
        BY <1>a, <2>2, <3>1 DEF Follows
      <4> QED
        BY <3>1, <4>1, <4>2 DEF Advances
    <3> QED
      BY <1>2, <2>0, <3>4
  <2>3. CASE echo' = SettledControl(echo)
    <3>1. Advances(echo, blobs, echo', blobs)
      BY <1>0, <2>3, AdvancesSettled
    <3> QED
      BY <1>2, <2>0, <3>1
  <2>4. CASE echo' = echo
    BY <1>1, <1>2, <2>0, <2>4
  <2> QED
    BY <2>1, <2>2, <2>3, <2>4
<1> QED
  BY <1>4, <1>5, <1>6, <1>7, <1>8, <1>9, <1>10

-----------------------------------------------------------------------------
(* EchoRun: the frames of a round.                                           *)

WindowFirst(r) ==
    IF SettledFrames(r) > FrameWindow THEN SettledFrames(r) - FrameWindow ELSE 0

(* A frame is numbered by its step.                                          *)
LEMMA FrameShape ==
    ASSUME NEW r \in EchoRows, NEW q \in 1..EchoStepCount
    PROVE  Frame(r, q) \in Frames /\ Frame(r, q).seq = q
<1>1. r.status \in EchoStatuses
  BY DEF EchoRows
<1> QED
  BY <1>1 DEF Frame, Frames, Over, EchoStatuses

(* The window holds the last settled frames, in order.                       *)
LEMMA WindowShape ==
    ASSUME NEW r \in EchoRows, NEW bl, RowTrue(r, bl)
    PROVE  /\ WindowFirst(r) \in 0..EchoStepCount /\ SettledFrames(r) \in 0..EchoStepCount
           /\ WindowFirst(r) <= SettledFrames(r)
           /\ SettledFrames(r) > 0 => WindowFirst(r) < SettledFrames(r)
           /\ Window(r) \in Seq(Frames) /\ Len(Window(r)) = SettledFrames(r) - WindowFirst(r)
           /\ \A i \in 1..Len(Window(r)) : Window(r)[i] = Frame(r, WindowFirst(r) + i)
<1> DEFINE n == SettledFrames(r)
           f == WindowFirst(r)
<1>1. n \in 0..3
  <2>1. Follows(r, r)
    BY DEF Follows, EchoRows, EchoStepCount
  <2> QED
    BY <2>1, FramesStay DEF EchoStepCount
<1>2. f \in 0..3 /\ f <= n /\ (n > 0 => f < n)
  <2> HIDE DEF n
  <2>1. f = IF n > FrameWindow THEN n - FrameWindow ELSE 0
    BY DEF WindowFirst, n
  <2> HIDE DEF f
  <2> QED
    BY <1>1, <2>1, EchoAssumption
<1>3. Window(r) = [i \in 1..(n - f) |-> Frame(r, f + i)]
  BY DEF Window, WindowFirst
<1> HIDE DEF n, f
<1>4. \A i \in 1..(n - f) : Frame(r, f + i) \in Frames
  <2> TAKE i \in 1..(n - f)
  <2>1. f + i \in 1..EchoStepCount
    BY <1>1, <1>2 DEF EchoStepCount
  <2> QED
    BY <2>1, FrameShape
<1>5. n - f \in Nat
  BY <1>1, <1>2
<1>6. Window(r) \in Seq(Frames) /\ Len(Window(r)) = n - f
  BY <1>3, <1>4, <1>5
<1>7. \A i \in 1..Len(Window(r)) : Window(r)[i] = Frame(r, f + i)
  BY <1>3, <1>6
<1> QED
  BY <1>1, <1>2, <1>6, <1>7 DEF n, f, EchoStepCount

(* The frames after a cursor that is in the window.                          *)
LEMMA AfterCursor ==
    ASSUME NEW frames \in Seq(Frames), NEW f \in Nat, NEW cursor \in Nat,
           \A i \in 1..Len(frames) : frames[i].seq = f + i,
           f <= cursor, cursor <= f + Len(frames)
    PROVE  /\ FramesAfter(frames, cursor) \in Seq(Frames)
           /\ Len(FramesAfter(frames, cursor)) = f + Len(frames) - cursor
           /\ \A i \in 1..(f + Len(frames) - cursor) :
                 FramesAfter(frames, cursor)[i] = frames[cursor - f + i]
<1> DEFINE n == Len(frames)
           k == cursor - f
           next == SubSeq(frames, k + 1, n)
<1>1. n \in Nat /\ k \in Nat /\ k <= n
  OBVIOUS
<1>2. {i \in DOMAIN frames : frames[i].seq <= cursor} = 1..k
  <2>1. DOMAIN frames = 1..n
    OBVIOUS
  <2> QED
    BY <1>1, <2>1
<1>3. Cardinality(1..k) = k
  <2>1. Cardinality(1..k) = IF 1 > k THEN 0 ELSE k - 1 + 1
    BY <1>1, FS_Interval
  <2> HIDE DEF k
  <2> QED
    BY <1>1, <2>1
<1>4. FramesAfter(frames, cursor) = next
  <2>1. cursor # NoOutput
    BY EchoAssumption
  <2> QED
    BY <1>2, <1>3, <2>1 DEF FramesAfter
<1> HIDE DEF k, n
<1>5. \A i \in (k + 1)..n : frames[i] \in Frames
  BY <1>1 DEF n
<1>6. /\ next \in Seq(Frames)
      /\ Len(next) = IF k + 1 <= n THEN n - (k + 1) + 1 ELSE 0
      /\ \A i \in 1..(n - (k + 1) + 1) : next[i] = frames[k + 1 + i - 1]
  BY <1>1, <1>5, SubSeqProperties
<1> HIDE DEF next
<1>7. next \in Seq(Frames) /\ Len(next) = n - k /\ \A i \in 1..(n - k) : next[i] = frames[k + i]
  BY <1>1, <1>6
<1>8. f + Len(frames) - cursor = n - k /\ cursor - f = k
  BY <1>1 DEF n, k
<1> QED
  BY <1>4, <1>7, <1>8

(* What a round hands over, and the cursor it leaves.                        *)
Handed(next, taken) == SubSeq(next, 1, taken)
Seen(handed, cursor) == IF handed = <<>> THEN cursor ELSE Last(handed).seq

(* Frames that follow the last one received extend what was received.        *)
LEMMA ReceivedMore ==
    ASSUME NEW r \in EchoRows, NEW got \in Seq(Frames), NEW cursor, Received(got, cursor, r),
           NEW next \in Seq(Frames), NEW base \in 0..EchoStepCount,
           SettledFrames(r) \in 0..EchoStepCount, base + Len(next) <= SettledFrames(r),
           \A i \in 1..Len(next) : next[i] = Frame(r, base + i),
           Len(got) > 0 => base = cursor,
           NEW taken \in 0..Len(next),
           cursor \in (1..EchoStepCount) \cup {NoOutput}
    PROVE  LET handed == Handed(next, taken) IN
           /\ got \o handed \in Seq(Frames)
           /\ Received(got \o handed, Seen(handed, cursor), r)
           /\ Seen(handed, cursor) \in (1..EchoStepCount) \cup {NoOutput}
<1> DEFINE handed == Handed(next, taken)
           m == Len(got)
           l == Len(next)
           all == got \o handed
           n == SettledFrames(r)
<1>0. m \in Nat /\ l \in Nat /\ taken \in Nat /\ taken <= l /\ base \in 0..3 /\ n \in 0..3
      /\ base + l <= n
  BY DEF EchoStepCount
<1>1. /\ handed \in Seq(Frames) /\ Len(handed) = taken
      /\ \A i \in 1..taken : handed[i] = next[i]
  <2>1. \A i \in 1..taken : next[i] \in Frames
    BY <1>0
  <2>2. /\ handed \in Seq(Frames)
        /\ Len(handed) = IF 1 <= taken THEN taken - 1 + 1 ELSE 0
        /\ \A i \in 1..(taken - 1 + 1) : handed[i] = next[1 + i - 1]
    BY <1>0, <2>1, SubSeqProperties DEF Handed
  <2> HIDE DEF handed
  <2> QED
    BY <1>0, <2>2
<1> HIDE DEF handed
<1>2. /\ all \in Seq(Frames) /\ Len(all) = m + taken
      /\ \A i \in 1..(m + taken) : all[i] = IF i <= m THEN got[i] ELSE handed[i - m]
  BY <1>0, <1>1, ConcatProperties
<1>3. \A i \in 1..taken : handed[i] = Frame(r, base + i) /\ handed[i].seq = base + i
  <2> TAKE i \in 1..taken
  <2>1. base + i \in 1..EchoStepCount /\ i \in 1..l
    BY <1>0 DEF EchoStepCount
  <2>2. handed[i] = next[i]
    BY <1>1
  <2>3. next[i] = Frame(r, base + i)
    BY <2>1 DEF l
  <2> DEFINE q == base + i
  <2>4. q \in 1..EchoStepCount
    BY <2>1
  <2> HIDE DEF q
  <2>5. Frame(r, q).seq = q
    BY <2>4, FrameShape
  <2> QED
    BY <2>2, <2>3, <2>5 DEF q
<1>a. \A i \in 1..(m + taken) : i <= m => all[i] = got[i]
  BY <1>2
<1>b. \A i \in 1..(m + taken) : ~(i <= m) => all[i] = handed[i - m]
  BY <1>2
<1>4. /\ \A i \in 1..m : got[i].seq <= n /\ got[i] = Frame(r, got[i].seq)
      /\ \A i \in 1..(m - 1) : got[i + 1].seq = got[i].seq + 1
      /\ m = 0 => cursor = NoOutput
      /\ m > 0 => cursor = got[m].seq /\ base = cursor
  BY DEF Received
<1> HIDE DEF all, m, l, n
<1>5. ASSUME NEW i \in 1..Len(all) PROVE all[i].seq <= n /\ all[i] = Frame(r, all[i].seq)
  <2>1. CASE i <= m
    <3>1. i \in 1..m /\ all[i] = got[i]
      BY <1>0, <1>2, <2>1
    <3> QED
      BY <1>4, <3>1
  <2>2. CASE ~(i <= m)
    <3>1. i - m \in 1..taken /\ all[i] = handed[i - m]
      <4>1. i - m \in 1..taken /\ i \in 1..(m + taken)
        BY <1>0, <1>2, <2>2
      <4> QED
        BY <1>b, <2>2, <4>1
    <3>2. all[i] = Frame(r, base + (i - m)) /\ all[i].seq = base + (i - m)
      BY <1>3, <3>1
    <3> QED
      BY <1>0, <3>1, <3>2
  <2> QED
    BY <2>1, <2>2
<1>6. ASSUME NEW i \in 1..(Len(all) - 1) PROVE all[i + 1].seq = all[i].seq + 1
  <2>1. CASE i < m
    <3>1. i \in 1..(m - 1) /\ all[i] = got[i] /\ all[i + 1] = got[i + 1]
      <4>1. /\ i \in 1..(m - 1) /\ i \in 1..(m + taken) /\ i <= m
            /\ i + 1 \in 1..(m + taken) /\ i + 1 <= m
        BY <1>0, <1>2, <2>1
      <4> QED
        BY <1>2, <4>1
    <3> QED
      BY <1>4, <3>1
  <2>2. CASE i = m
    <3>1. m > 0 /\ 1 \in 1..taken /\ all[i] = got[m] /\ all[i + 1] = handed[1]
      <4>1. m > 0 /\ 1 \in 1..taken /\ (i + 1) - m = 1 /\ i + 1 \in 1..(m + taken) /\ i \in 1..(m + taken)
        BY <1>0, <1>2, <2>2
      <4>2. all[i] = got[m]
        <5>1. i \in 1..(m + taken) /\ i <= m
          BY <1>0, <2>2, <4>1
        <5>2. all[i] = got[i]
          BY <1>a, <5>1
        <5> QED
          BY <2>2, <5>2
      <4> DEFINE j == i + 1
      <4>3. j \in 1..(m + taken) /\ ~(j <= m) /\ j - m = 1
        BY <1>0, <2>2, <4>1
      <4> HIDE DEF j
      <4>4. all[j] = handed[1]
        BY <1>b, <4>3
      <4> QED
        BY <4>1, <4>2, <4>4 DEF j
    <3>2. handed[1].seq = base + 1
      BY <1>3, <3>1
    <3> QED
      BY <1>4, <3>1, <3>2
  <2>3. CASE i > m
    <3>1. /\ i - m \in 1..taken /\ (i + 1) - m \in 1..taken
          /\ all[i] = handed[i - m] /\ all[i + 1] = handed[(i + 1) - m]
      <4>0. i \in Int /\ 1 <= i /\ i <= m + taken - 1
        BY <1>0, <1>2
      <4>1. i - m \in 1..taken /\ (i + 1) - m \in 1..taken
        BY <1>0, <2>3, <4>0
      <4>2. i \in 1..(m + taken) /\ ~(i <= m) /\ i + 1 \in 1..(m + taken) /\ ~(i + 1 <= m)
        BY <1>0, <2>3, <4>0
      <4>4. all[i] = handed[i - m] /\ all[i + 1] = handed[(i + 1) - m]
        <5> DEFINE j == i + 1
        <5>1. j \in 1..(m + taken) /\ ~(j <= m)
          BY <4>2
        <5> HIDE DEF j
        <5>2. all[i] = handed[i - m] /\ all[j] = handed[j - m]
          BY <1>b, <4>2, <5>1
        <5> QED
          BY <5>2 DEF j
      <4> QED
        BY <4>1, <4>4
    <3>2. handed[i - m].seq = base + (i - m) /\ handed[(i + 1) - m].seq = base + ((i + 1) - m)
      BY <1>3, <3>1
    <3> QED
      BY <1>0, <3>1, <3>2
  <2> QED
    BY <1>0, <1>2, <2>1, <2>2, <2>3
<1>7. CASE taken = 0
  <2>1. handed = <<>> /\ Len(all) = m /\ Seen(handed, cursor) = cursor
    BY <1>0, <1>1, <1>2, <1>7, EmptySeq DEF Seen
  <2>2. m > 0 => all[m] = got[m]
    BY <1>0, <1>2, <1>7
  <2>3. Received(all, cursor, r)
    BY <1>0, <1>4, <1>5, <1>6, <2>1, <2>2 DEF Received, n
  <2> QED
    BY <1>2, <2>1, <2>3 DEF all, handed
<1>8. CASE taken > 0
  <2>1. handed # <<>> /\ Seen(handed, cursor) = handed[taken].seq
    BY <1>0, <1>1, <1>8 DEF Seen, Last
  <2>2. taken \in 1..taken /\ Len(all) # 0 /\ all[Len(all)] = handed[taken]
    <3> DEFINE j == m + taken
    <3>1. Len(all) = j /\ j # 0 /\ j \in 1..(m + taken) /\ ~(j <= m) /\ j - m = taken
          /\ taken \in 1..taken
      BY <1>0, <1>2, <1>8
    <3> HIDE DEF j
    <3>2. all[j] = handed[taken]
      BY <1>b, <3>1
    <3> QED
      BY <3>1, <3>2
  <2>3. handed[taken].seq = base + taken /\ base + taken \in 1..3
    <3>1. handed[taken].seq = base + taken
      BY <1>3, <2>2
    <3>2. base + taken \in 1..3
      BY <1>0, <1>8
    <3> QED
      BY <3>1, <3>2
  <2>4. Received(all, handed[taken].seq, r)
    BY <1>5, <1>6, <2>2 DEF Received, n
  <2> QED
    BY <1>2, <2>1, <2>3, <2>4 DEF all, handed, EchoStepCount
<1> QED
  BY <1>0, <1>7, <1>8

(* The steps of a client.                                                    *)
LEMMA ClientStep ==
    ASSUME EchoInv, NEW c \in Clients, ClientNext(c)
    PROVE  EchoInv'
<1> DEFINE v == viewer[c]
           got == v.got
           cursor == v.cursor
           n == SettledFrames(echo)
<1>0. /\ echo \in EchoRows /\ RowTrue(echo, blobs) /\ v \in Viewers
      /\ Received(got, cursor, echo) /\ Closed(v.pc, got, echo)
  BY DEF EchoInv, ViewTrue
<1>1. got \in Seq(Frames) /\ cursor \in (1..EchoStepCount) \cup {NoOutput}
  BY <1>0 DEF Viewers
<1>2. n \in 0..3
  BY <1>0, WindowShape DEF EchoStepCount
<1>3. ASSUME NEW pc \in {"off", "read", "check", "refused", "closed"}, Closed(pc, got, echo),
             View(c, [v EXCEPT !.pc = pc])
      PROVE  EchoInv'
  <2> DEFINE u == [v EXCEPT !.pc = pc]
  <2>1. u \in Viewers /\ u.pc = pc /\ u.got = got /\ u.cursor = cursor
    BY <1>0 DEF Viewers
  <2> HIDE DEF u
  <2>2. ViewTrue(u, echo)
    BY <1>0, <1>3, <2>1 DEF ViewTrue
  <2>3. View(c, u)
    BY <1>3 DEF u
  <2> QED
    BY <2>1, <2>2, <2>3, ClientMoves
<1>4. CASE Connect(c)
  BY <1>3, <1>4 DEF Connect, Closed
<1>5. CASE FollowRefused(c)
  BY <1>3, <1>5 DEF FollowRefused, Closed
<1>6. CASE FollowCheck(c)
  <2> DEFINE seen == IF cursor = NoOutput THEN 0 ELSE cursor
             pc == IF Over(echo.status) /\ seen >= n THEN "closed" ELSE "read"
  <2>1. View(c, [v EXCEPT !.pc = pc])
    BY <1>6 DEF FollowCheck
  <2> HIDE DEF v
  <2>2. Closed(pc, got, echo)
    <3> SUFFICES ASSUME Over(echo.status), seen >= n PROVE Closed("closed", got, echo)
      BY DEF Closed
    <3>1. n = echo.checkpointed
      BY DEF SettledFrames
    <3> HIDE DEF n, got, cursor
    <3>2. Len(got) = 0 => n = 0
      BY <1>0, <1>2 DEF Received
    <3>3. Len(got) > 0 => got[Len(got)].seq = n
      <4> SUFFICES ASSUME Len(got) > 0 PROVE got[Len(got)].seq = n
        OBVIOUS
      <4>1. Len(got) \in 1..Len(got) /\ got[Len(got)] \in Frames
        BY <1>1
      <4>2. got[Len(got)].seq <= n /\ cursor = got[Len(got)].seq /\ cursor \in 1..3
        BY <1>0, <4>1 DEF Received, Frames, EchoStepCount, n
      <4>3. seen = cursor
        BY <4>2, EchoAssumption
      <4> QED
        BY <1>2, <4>2, <4>3
    <3> QED
      BY <3>1, <3>2, <3>3 DEF Closed
  <2>3. pc \in {"closed", "read"}
    OBVIOUS
  <2> HIDE DEF pc
  <2> QED
    BY <1>3, <2>1, <2>2, <2>3 DEF v
<1>7. ASSUME NEW taken \in 0..EchoStepCount, FollowRead(c, taken) PROVE EchoInv'
  <2> DEFINE frames == Window(echo)
             f == WindowFirst(echo)
             next == FramesAfter(frames, cursor)
             handed == Handed(next, taken)
             all == got \o handed
             pc == IF taken < Len(next) THEN "off" ELSE "check"
             u == [pc |-> pc, cursor |-> Seen(handed, cursor), got |-> all]
  <2>1. /\ taken <= Len(next) /\ View(c, u)
        /\ cursor # NoOutput => ~(cursor > n) /\ ~Evicted(frames, cursor)
    BY <1>7 DEF FollowRead, Handed, Seen
  <2> HIDE DEF v, u
  <2>2. /\ f \in 0..3 /\ f <= n /\ (n > 0 => f < n)
        /\ frames \in Seq(Frames) /\ Len(frames) = n - f
        /\ \A i \in 1..Len(frames) : frames[i] = Frame(echo, f + i)
    BY <1>0, WindowShape DEF EchoStepCount
  <2> HIDE DEF frames, f, n, got, cursor
  <2>3. \A i \in 1..Len(frames) : frames[i].seq = f + i
    <3> TAKE i \in 1..Len(frames)
    <3>1. f + i \in 1..EchoStepCount
      BY <1>2, <2>2 DEF EchoStepCount
    <3> QED
      BY <1>0, <2>2, <3>1, FrameShape
  <2>4. PICK base \in 0..EchoStepCount :
          /\ next \in Seq(Frames) /\ base + Len(next) <= n
          /\ \A i \in 1..Len(next) : next[i] = Frame(echo, base + i)
          /\ Len(got) > 0 => base = cursor
    <3>1. CASE cursor = NoOutput
      <4>1. next = frames
        BY <3>1 DEF FramesAfter
      <4>2. Len(got) = 0
        <5> SUFFICES ASSUME Len(got) > 0 PROVE FALSE
          BY <1>1
        <5>1. Len(got) \in 1..Len(got) /\ got[Len(got)] \in Frames
          BY <1>1
        <5>2. cursor \in 1..3
          BY <1>0, <5>1 DEF Received, Frames, EchoStepCount
        <5> QED
          BY <3>1, <5>2, EchoAssumption
      <4>3. f \in 0..EchoStepCount /\ f + Len(frames) <= n
        BY <1>2, <2>2 DEF EchoStepCount
      <4> QED
        BY <2>2, <4>1, <4>2, <4>3
    <3>2. CASE cursor # NoOutput
      <4>1. cursor \in 1..3 /\ cursor <= n
        BY <1>1, <1>2, <2>1, <3>2 DEF EchoStepCount
      <4>2. f <= cursor
        <5>1. frames # <<>> /\ Head(frames) = frames[1] /\ 1 \in 1..Len(frames)
          BY <1>2, <2>2, <4>1
        <5>2. Head(frames).seq = f + 1
          BY <2>3, <5>1
        <5> QED
          BY <2>1, <2>2, <3>2, <4>1, <5>1, <5>2 DEF Evicted
      <4>3. cursor \in Nat /\ f \in Nat /\ cursor <= f + Len(frames) /\ f + Len(frames) - cursor = n - cursor
        BY <1>2, <2>2, <4>1
      <4>4. /\ next \in Seq(Frames) /\ Len(next) = n - cursor
            /\ \A i \in 1..(n - cursor) : next[i] = frames[cursor - f + i]
        <5>1. /\ next \in Seq(Frames) /\ Len(next) = f + Len(frames) - cursor
              /\ \A i \in 1..(f + Len(frames) - cursor) : next[i] = frames[cursor - f + i]
          BY <2>2, <2>3, <4>2, <4>3, AfterCursor
        <5> HIDE DEF next
        <5> QED
          BY <4>3, <5>1
      <4> HIDE DEF next
      <4>5. \A i \in 1..Len(next) : next[i] = Frame(echo, cursor + i)
        <5> TAKE i \in 1..Len(next)
        <5>1. /\ i \in 1..(n - cursor) /\ cursor - f + i \in 1..Len(frames)
              /\ f + (cursor - f + i) = cursor + i
          BY <1>2, <2>2, <4>1, <4>2, <4>4
        <5>2. frames[cursor - f + i] = Frame(echo, f + (cursor - f + i))
          BY <2>2, <5>1
        <5> QED
          BY <4>4, <5>1, <5>2
      <4>6. cursor \in 0..EchoStepCount /\ cursor + Len(next) <= n
        BY <1>2, <4>1, <4>4 DEF EchoStepCount
      <4> QED
        BY <4>4, <4>5, <4>6
    <3> QED
      BY <3>1, <3>2
  <2> HIDE DEF next
  <2>5. taken \in 0..Len(next)
    BY <1>7, <2>1, <2>4 DEF EchoStepCount
  <2>6. /\ all \in Seq(Frames) /\ Received(all, Seen(handed, cursor), echo)
        /\ Seen(handed, cursor) \in (1..EchoStepCount) \cup {NoOutput}
    <3>1. n \in 0..EchoStepCount /\ n = SettledFrames(echo)
      BY <1>2 DEF n, EchoStepCount
    <3> QED
      BY <1>0, <1>1, <2>4, <2>5, <3>1, ReceivedMore
  <2> HIDE DEF all, handed
  <2> DEFINE seen == Seen(handed, cursor)
  <2> HIDE DEF seen
  <2>7. pc \in {"off", "check"}
    OBVIOUS
  <2> HIDE DEF pc
  <2>8. u \in Viewers /\ u.pc = pc /\ u.cursor = Seen(handed, cursor) /\ u.got = all
    BY <2>6, <2>7 DEF u, Viewers
  <2>9. ViewTrue(u, echo)
    BY <2>6, <2>7, <2>8 DEF ViewTrue, Closed
  <2> QED
    BY <2>1, <2>8, <2>9, ClientMoves
<1> QED
  BY <1>4, <1>5, <1>6, <1>7 DEF ClientNext

(* Every step of a process and of a client keeps the invariant.              *)
LEMMA EchoStepKeeps == EchoInv /\ [EchoNext]_echoVars => EchoInv'
<1>1. ASSUME EchoInv, NEW h \in Hosts, EchoHostNext(h) PROVE EchoInv'
  BY <1>1, OperationStep, ThreadStep DEF EchoHostNext
<1>2. ASSUME EchoInv, NEW c \in Clients, ClientNext(c) PROVE EchoInv'
  BY <1>2, ClientStep
<1>3. ASSUME EchoInv, UNCHANGED echoVars PROVE EchoInv'
  BY <1>3 DEF echoVars, EchoInv
<1> QED
  BY <1>1, <1>2, <1>3 DEF EchoNext

(* The Echo Run under any interleaving of the processes that drive it, the    *)
(* users that control it and the clients that follow it, with any number of   *)
(* kills and lost connections: one thread per process, an end that agrees     *)
(* with the stored answer, and clients that saw each frame once, in order,    *)
(* the terminal one last.                                                    *)
THEOREM EchoIsSound == EchoSpec => []EchoSound
<1>1. EchoInv => EchoTypeOK /\ VerdictHonest
  BY DEF EchoInv, EchoTypeOK, VerdictHonest, RowTrue
<1>2. EchoInv => FramesExact
  <2> SUFFICES ASSUME EchoInv, NEW c \in Clients
               PROVE  LET got == viewer[c].got IN
                      /\ \A i \in 1..(Len(got) - 1) :
                            got[i + 1].seq = got[i].seq + 1 /\ got[i].status = "running"
                      /\ viewer[c].pc = "closed" /\ echo.checkpointed > 0 =>
                            got # <<>> /\ Last(got) = [seq |-> echo.checkpointed, status |-> echo.status]
    BY DEF FramesExact
  <2> DEFINE v == viewer[c]
             got == v.got
             n == SettledFrames(echo)
  <2>0. /\ echo \in EchoRows /\ RowTrue(echo, blobs) /\ v \in Viewers
        /\ Received(got, v.cursor, echo) /\ Closed(v.pc, got, echo)
    BY DEF EchoInv, ViewTrue
  <2>1. got \in Seq(Frames)
    BY <2>0 DEF Viewers
  <2> HIDE DEF got
  <2>2. /\ \A i \in 1..Len(got) :
              got[i].seq <= n /\ got[i] = Frame(echo, got[i].seq) /\ got[i].seq \in 1..3
        /\ \A i \in 1..(Len(got) - 1) : got[i + 1].seq = got[i].seq + 1
    <3>1. \A i \in 1..Len(got) : got[i] \in Frames
      BY <2>1
    <3> QED
      BY <2>0, <3>1 DEF Received, Frames, EchoStepCount
  <2>3. ASSUME NEW i \in 1..(Len(got) - 1) PROVE got[i].status = "running"
    <3>1. /\ i \in 1..Len(got) /\ i + 1 \in 1..Len(got)
      BY <2>1
    <3>2. got[i].seq < n /\ got[i] = Frame(echo, got[i].seq)
      <4>1. n \in 0..3
        BY <2>0, WindowShape DEF EchoStepCount
      <4> HIDE DEF n
      <4> QED
        BY <2>2, <3>1, <4>1
    <3>3. ~(Over(echo.status) /\ got[i].seq = echo.checkpointed)
      BY <2>2, <3>1, <3>2 DEF SettledFrames
    <3> QED
      BY <3>2, <3>3 DEF Frame
  <2>4. ASSUME v.pc = "closed", echo.checkpointed > 0
        PROVE  got # <<>> /\ Last(got) = [seq |-> echo.checkpointed, status |-> echo.status]
    <3>1. Over(echo.status) /\ Len(got) > 0 /\ got[Len(got)].seq = echo.checkpointed
      BY <2>0, <2>1, <2>4 DEF Closed
    <3>2. Len(got) \in 1..Len(got) /\ got # <<>>
      BY <2>1, <3>1
    <3>3. got[Len(got)] = Frame(echo, echo.checkpointed)
      BY <2>2, <3>1, <3>2
    <3> QED
      BY <3>1, <3>2, <3>3 DEF Frame, Last
  <2> QED
    BY <2>2, <2>3, <2>4 DEF got
<1>3. EchoInv => EchoSound
  BY <1>1, <1>2 DEF EchoSound
<1> QED
  BY <1>3, InitEcho, EchoStepKeeps, PTL DEF EchoSpec

=============================================================================
