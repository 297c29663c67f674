------------------------------ MODULE ToolAuth ------------------------------
(***************************************************************************)
(* Authorization of tool calls (pos-agents tools.rs, runtime.rs, roster.rs, *)
(* and the parts of harness.rs that call them).  A Run is started with a     *)
(* fixed allowlist; each step of its plan is authorized once, against the    *)
(* descriptors of the running build, and committed with the descriptor's     *)
(* version.  A process may be killed between the commit and the effect, and  *)
(* the next one may be another build: it hands out the committed call again  *)
(* without asking for the authorization a second time.                       *)
(*                                                                           *)
(* The state of the Run is read before the log head is, so the decision is   *)
(* one step and the commit another; RunHarness has the rest of the harness.  *)
(***************************************************************************)
EXTENDS Integers, Sequences, FiniteSets

CONSTANTS
    AuthRuns,      \* Runs
    AuthTools,     \* tool ids
    Builds,        \* registries: sets of functions from tools to descriptors or NoTool
    Allowlists,    \* functions from tools to "allow", "gate", "block" or "absent"
    CallPlan,      \* CallPlan[r]: the steps of r, [tool, call, size]
    Receipts,      \* receipts users may sign, [run, call, tool, expires]
    Executors,     \* where a Run may be asked to execute
    LineageMax,    \* RUN_LINEAGE_DEPTH_MAX
    MaxClock,      \* bound: ticks of the wall clock
    MaxRestarts,   \* bound: processes replaced
    NoTool,
    NoToolCall

ToolModes == {"allow", "gate", "block"}
EffectClasses == {"read_only", "idempotent", "non_idempotent"}
Scopes == {"read", "write", "exec", "change_production", "egress", "secret_use"}
Descriptors == [version: Nat \ {0}, scope: Scopes, mode: ToolModes, effect: EffectClasses, max: Nat]

(* Builds differ in a descriptor only if they differ in its version, and no    *)
(* two steps of a Run carry the same call id: both are up to the callers.    *)
ASSUME AuthAssumption ==
    /\ \A b \in Builds : b \in [AuthTools -> Descriptors \cup {NoTool}]
    /\ \A b, c \in Builds : \A t \in AuthTools :
          b[t] # NoTool /\ c[t] # NoTool /\ b[t].version = c[t].version => b[t] = c[t]
    /\ \A r \in AuthRuns : CallPlan[r] \in Seq([tool: AuthTools, call: Nat, size: Nat])
    /\ Allowlists \subseteq [AuthTools -> ToolModes \cup {"absent"}]
    /\ \A r \in AuthRuns : \A i, j \in DOMAIN CallPlan[r] :
          i # j => CallPlan[r][i].call # CallPlan[r][j].call
    /\ LineageMax \in Nat /\ MaxClock \in Nat /\ MaxRestarts \in Nat

VARIABLES
    authRun,    \* proj_runs, proj_run_tool_grants and proj_run_steps
    build,      \* the registry of the running process
    held,       \* the AuthorizedToolCall a worker holds
    wallClock,
    restarts,
    effects     \* history: calls that crossed the effect boundary

authVars == <<authRun, build, held, wallClock, restarts, effects>>

NoRun == [started |-> FALSE, depth |-> 0, grants |-> NoTool, tainted |-> FALSE,
          steps |-> <<>>, checkpointed |-> 0]
NothingHeld == [pc |-> "idle", call |-> NoToolCall]

AuthInit ==
    /\ authRun = [r \in AuthRuns |-> NoRun]
    /\ build \in Builds
    /\ held = [r \in AuthRuns |-> NothingHeld]
    /\ wallClock = 0
    /\ restarts = 0
    /\ effects = {}

-----------------------------------------------------------------------------
(* RuntimeRegistry::resolve over native_only: one healthy runtime, on the     *)
(* device.                                                                   *)
RuntimeServes(executor) == executor = "device"

(* RunHarness::lineage_depth                                                 *)
LineageDepth(parent) == IF parent = NoToolCall THEN 0 ELSE authRun[parent].depth + 1

StartAuthorized(r, parent, grants, executor) ==
    /\ ~authRun[r].started
    /\ parent # NoToolCall => parent # r /\ authRun[parent].started
    /\ LineageDepth(parent) <= LineageMax
    /\ RuntimeServes(executor)
    /\ authRun' = [authRun EXCEPT ![r] = [NoRun EXCEPT !.started = TRUE,
                                                       !.depth = LineageDepth(parent),
                                                       !.grants = grants]]
    /\ UNCHANGED <<build, held, wallClock, restarts, effects>>

(* RunHarness::raise_taint                                                   *)
RaiseTaint(r) ==
    /\ authRun[r].started /\ ~authRun[r].tainted
    /\ authRun' = [authRun EXCEPT ![r].tainted = TRUE]
    /\ UNCHANGED <<build, held, wallClock, restarts, effects>>

ClockTicks ==
    /\ wallClock < MaxClock
    /\ wallClock' = wallClock + 1
    /\ UNCHANGED <<authRun, build, held, restarts, effects>>

-----------------------------------------------------------------------------
AlwaysGated(scope) == scope \in {"change_production", "egress"}

TaintGated(d, tainted) == tainted /\ (d.scope = "egress" \/ d.effect # "read_only")

GateRequired(d, grant, tainted) ==
    \/ d.mode = "gate"
    \/ grant = "gate"
    \/ AlwaysGated(d.scope)
    \/ d.effect = "non_idempotent"
    \/ TaintGated(d, tainted)

(* validate_receipt: this Run, this call, this tool, and not expired.        *)
ReceiptValid(receipt, r, step) ==
    /\ receipt # NoToolCall
    /\ receipt.run = r /\ receipt.call = step.call /\ receipt.tool = step.tool
    /\ receipt.expires >= wallClock

(* ToolRegistry::authorize: registered, on the allowlist, not blocked on      *)
(* either side, input within the bound, and a receipt where a gate stands.   *)
Authorizes(r, step, receipt) ==
    LET d == build[step.tool]
        grant == authRun[r].grants[step.tool]
    IN /\ d # NoTool
       /\ grant # "absent"
       /\ d.mode # "block" /\ grant # "block"
       /\ step.size <= d.max
       /\ GateRequired(d, grant, authRun[r].tainted) => ReceiptValid(receipt, r, step)

AtRest(r) == Len(authRun[r].steps) = authRun[r].checkpointed

(* prepare_step of a new step, up to the decision.                           *)
AuthorizeTool(r, receipt) ==
    LET run == authRun[r]
        step == CallPlan[r][Len(run.steps) + 1]
    IN /\ held[r].pc = "idle"
       /\ run.started /\ AtRest(r)
       /\ Len(run.steps) < Len(CallPlan[r])
       /\ Authorizes(r, step, receipt)
       /\ held' = [held EXCEPT ![r] =
                     [pc |-> "authorized",
                      call |-> [step |-> Len(run.steps) + 1, descriptor |-> build[step.tool],
                                receipt |-> receipt, tainted |-> run.tainted, at |-> wallClock]]]
       /\ UNCHANGED <<authRun, build, wallClock, restarts, effects>>

(* append_step: the gate and the step, with the descriptor's version.        *)
CommitStep(r) ==
    /\ held[r].pc = "authorized"
    /\ AtRest(r)
    /\ authRun' = [authRun EXCEPT ![r].steps = Append(@, held[r].call)]
    /\ held' = [held EXCEPT ![r].pc = "effect"]
    /\ UNCHANGED <<build, wallClock, restarts, effects>>

(* The head moved under append_step: the step is decided again.              *)
DecideAgain(r) ==
    /\ held[r].pc = "authorized"
    /\ held' = [held EXCEPT ![r] = NothingHeld]
    /\ UNCHANGED <<authRun, build, wallClock, restarts, effects>>

(* Slip of Rehydrates: the version is not compared.                          *)
RehydratesAnyVersion(d, step, size) == d # NoTool /\ size <= d.max

(* ToolRegistry::rehydrate: a committed call is handed out again under the    *)
(* version it was committed with.                                            *)
Rehydrates(d, step, size) ==
    d # NoTool /\ d.version = step.descriptor.version /\ size <= d.max

(* resume_committed_step: a call that may not be repeated waits for a human. *)
ResumeCommitted(r) ==
    LET run == authRun[r]
        n == Len(run.steps)
        d == build[CallPlan[r][n].tool]
    IN /\ held[r].pc = "idle"
       /\ run.started /\ ~AtRest(r)
       /\ Rehydrates(d, run.steps[n], CallPlan[r][n].size)
       /\ d.effect # "non_idempotent"
       /\ held' = [held EXCEPT ![r] = [pc |-> "effect",
                                       call |-> [run.steps[n] EXCEPT !.descriptor = d]]]
       /\ UNCHANGED <<authRun, build, wallClock, restarts, effects>>

CrossBoundary(r) ==
    /\ held[r].pc = "effect"
    /\ effects' = effects \cup {[run |-> r, step |-> held[r].call.step,
                                 descriptor |-> held[r].call.descriptor]}
    /\ held' = [held EXCEPT ![r].pc = "record"]
    /\ UNCHANGED <<authRun, build, wallClock, restarts>>

RecordCall(r) ==
    /\ held[r].pc = "record"
    /\ authRun' = [authRun EXCEPT ![r].checkpointed = Len(authRun[r].steps)]
    /\ held' = [held EXCEPT ![r] = NothingHeld]
    /\ UNCHANGED <<build, wallClock, restarts, effects>>

(* The process is replaced, maybe by another build.                          *)
Replace(b) ==
    /\ restarts < MaxRestarts
    /\ restarts' = restarts + 1
    /\ build' = b
    /\ held' = [r \in AuthRuns |-> NothingHeld]
    /\ UNCHANGED <<authRun, wallClock, effects>>

AuthNext ==
    \/ \E r \in AuthRuns :
          \/ \E parent \in AuthRuns \cup {NoToolCall}, grants \in Allowlists, executor \in Executors :
                StartAuthorized(r, parent, grants, executor)
          \/ \E receipt \in Receipts \cup {NoToolCall} : AuthorizeTool(r, receipt)
          \/ RaiseTaint(r) \/ CommitStep(r) \/ DecideAgain(r)
          \/ ResumeCommitted(r) \/ CrossBoundary(r) \/ RecordCall(r)
    \/ ClockTicks
    \/ \E b \in Builds : Replace(b)

AuthSpec == AuthInit /\ [][AuthNext]_authVars

-----------------------------------------------------------------------------
(* Every call that reached the outside ran under the very descriptor it was   *)
(* authorized under, on the Run's allowlist, blocked by nobody; and where     *)
(* that descriptor, the grant or the taint of the Run asked for a human, the  *)
(* step carries a receipt for this call, valid when it was decided.  Kills,   *)
(* other builds, expiry and taint may come between any two of these steps.    *)
DispatchSanctioned ==
    \A e \in effects :
        LET auth == authRun[e.run].steps[e.step]
            plan == CallPlan[e.run][e.step]
            grant == authRun[e.run].grants[plan.tool]
        IN /\ e.descriptor = auth.descriptor
           /\ e.descriptor.mode # "block" /\ grant \notin {"block", "absent"}
           /\ plan.size <= e.descriptor.max
           /\ \/ e.descriptor.mode = "gate" \/ grant = "gate"
              \/ e.descriptor.scope \in {"change_production", "egress"}
              \/ e.descriptor.effect = "non_idempotent"
              \/ auth.tainted /\ e.descriptor.effect # "read_only"
              => \E receipt \in Receipts :
                    /\ receipt = auth.receipt
                    /\ receipt.run = e.run /\ receipt.call = plan.call /\ receipt.tool = plan.tool
                    /\ receipt.expires >= auth.at
=============================================================================
