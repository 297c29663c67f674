------------------------------- MODULE EchoRun -------------------------------
(***************************************************************************)
(* The Echo Run: the worker threads the api host starts for it, the three   *)
(* steps of EchoAgent, and the clients that follow its steps over a stream   *)
(* (pos-agents echo.rs, pos-api run_ops.rs and stream.rs, pos-domain         *)
(* run_state.rs).                                                            *)
(*                                                                           *)
(* RunHarness takes the harness operations apart; here each is one step, and *)
(* the subject is what runs around them: the supervisor that lets one thread *)
(* per process drive the Run, the model output that is stored before it is   *)
(* recorded, the verdict, and the window of frames a client resumes in.      *)
(***************************************************************************)
EXTENDS Integers, Sequences, FiniteSets, SequencesExt

CONSTANTS
    Hosts,          \* processes with an api host
    Clients,        \* followers of the Run's stream
    Outputs,        \* what the model may answer
    Marked,         \* the answers that contain the marker
    FrameWindow,    \* STREAM_RESUME_WINDOW_LEN
    StepBudget,     \* steps the budget admits
    MaxHostKills,   \* bound: processes killed
    MaxDrops,       \* bound: times a client loses its connection
    NoOutput

EchoStepCount == 3

EchoStatuses == {"absent", "running", "paused", "done", "failed", "canceled"}
Over(status) == status \in {"done", "failed", "canceled"}

ASSUME EchoAssumption ==
    /\ Marked \subseteq Outputs
    /\ NoOutput \notin Outputs \cup Nat
    /\ FrameWindow \in Nat \ {0}
    /\ StepBudget \in Nat /\ MaxHostKills \in Nat /\ MaxDrops \in Nat

VARIABLES
    echo,       \* proj_runs, the row of the Run
    blobs,      \* model outputs in the blob store
    thread,     \* the Echo thread of each process
    attached,   \* ActiveEchoRuns: processes whose set holds the Run
    request,    \* the run operation each process is in
    viewer,     \* what each client received, and where its follow loop is
    hostKills,
    drops

echoVars == <<echo, blobs, thread, attached, request, viewer, hostKills, drops>>

(* The state a thread carries through its loop is the one it read at the top. *)
NoThread == [pc |-> "none", plan |-> 0, verdict |-> "none", output |-> NoOutput]

EchoRows ==
    [status: EchoStatuses, control: {"none", "pause", "cancel"},
     committed: 0..EchoStepCount, checkpointed: 0..EchoStepCount,
     verdict: {"none", "passed", "failed"}, artifact: Outputs \cup {NoOutput}]

EchoInit ==
    /\ echo = [status |-> "absent", control |-> "none", committed |-> 0,
               checkpointed |-> 0, verdict |-> "none", artifact |-> NoOutput]
    /\ blobs = {}
    /\ thread = [h \in Hosts |-> NoThread]
    /\ attached = {}
    /\ request = [h \in Hosts |-> "idle"]
    /\ viewer = [c \in Clients |-> [pc |-> "off", cursor |-> NoOutput, got |-> <<>>]]
    /\ hostKills = 0
    /\ drops = 0

Settled(r) == r.committed = r.checkpointed

-----------------------------------------------------------------------------
(* The run operations of a process.                                          *)

EchoRest == <<blobs, viewer, hostKills, drops>>

(* start: RunStarted, then the launch.                                       *)
EchoStart(h) ==
    /\ request[h] = "idle"
    /\ echo.status = "absent"
    /\ echo' = [echo EXCEPT !.status = "running"]
    /\ request' = [request EXCEPT ![h] = "launch"]
    /\ UNCHANGED <<thread, attached, EchoRest>>

(* request_control: refused on a terminal Run and over another control.      *)
EchoControl(h, control) ==
    /\ request[h] = "idle"
    /\ echo.status # "absent" /\ ~Over(echo.status)
    /\ echo.control = "none"
    /\ ~(echo.status = "paused" /\ control = "pause")
    /\ echo' = [echo EXCEPT !.control = control]
    /\ request' = [request EXCEPT ![h] = "settle"]
    /\ UNCHANGED <<thread, attached, EchoRest>>

Applied(r) ==
    [r EXCEPT !.status = IF r.control = "pause" THEN "paused" ELSE "canceled",
              !.control = "none"]

SettledControl(r) == IF r.control # "none" /\ Settled(r) THEN Applied(r) ELSE r

EchoSettle(h) ==
    /\ request[h] = "settle"
    /\ echo' = SettledControl(echo)
    /\ request' = [request EXCEPT ![h] = "idle"]
    /\ UNCHANGED <<thread, attached, EchoRest>>

(* resume: a paused Run is resumed first; any Run that is not over is         *)
(* launched again.                                                           *)
EchoResume(h) ==
    /\ request[h] = "idle"
    /\ echo.status \in {"running", "paused"}
    /\ echo.status = "paused" => echo.control = "none"
    /\ echo' = [echo EXCEPT !.status = "running"]
    /\ request' = [request EXCEPT ![h] = "launch"]
    /\ UNCHANGED <<thread, attached, EchoRest>>

(* EchoSupervisor::launch: one thread of this process per Run; a Run the set  *)
(* holds already has one, be it on its way out.                              *)
Launch(h) ==
    /\ request[h] = "launch"
    /\ request' = [request EXCEPT ![h] = "idle"]
    /\ attached' = attached \cup {h}
    /\ thread' = IF h \in attached THEN thread
                 ELSE [thread EXCEPT ![h] = [NoThread EXCEPT !.pc = "loop"]]
    /\ UNCHANGED <<echo, EchoRest>>

(* The thread could not be spawned: the key leaves the set again.            *)
SpawnFails(h) ==
    /\ request[h] = "launch"
    /\ h \notin attached
    /\ request' = [request EXCEPT ![h] = "idle"]
    /\ UNCHANGED <<echo, thread, attached, EchoRest>>

-----------------------------------------------------------------------------
(* The thread.                                                               *)

EchoStep(h, t) ==
    /\ thread' = [thread EXCEPT ![h] = t]
    /\ UNCHANGED <<attached, request, viewer, hostKills, drops>>

Leaving == [NoThread EXCEPT !.pc = "exit"]

(* EchoAgent::run, the top of the loop.                                      *)
EchoLoop(h) ==
    /\ thread[h].pc = "loop"
    /\ EchoStep(h, IF Over(echo.status) \/ echo.status = "paused" THEN Leaving
                   ELSE [thread[h] EXCEPT
                           !.pc = IF echo.checkpointed >= EchoStepCount THEN "finish" ELSE "prepare",
                           !.plan = echo.checkpointed,
                           !.verdict = echo.verdict])
    /\ UNCHANGED <<echo, blobs>>

(* prepare_step for the plan of the state read before.  A control takes      *)
(* effect at the boundary; a Run that moved on, or is not running, is an      *)
(* error that ends the thread; the budget may pause the Run.                 *)
EchoPrepare(h) ==
    LET t == thread[h] IN
    /\ t.pc = "prepare"
    /\ UNCHANGED blobs
    /\ \/ /\ echo.control # "none" /\ Settled(echo)
          /\ echo' = Applied(echo)
          /\ EchoStep(h, [t EXCEPT !.pc = "loop"])
       \/ /\ echo.control = "none" \/ ~Settled(echo)
          /\ echo.status # "running" \/ t.plan # echo.checkpointed
          /\ UNCHANGED echo
          /\ EchoStep(h, Leaving)
       \/ /\ echo.status = "running" /\ t.plan = echo.checkpointed
          /\ ~Settled(echo)
          /\ UNCHANGED echo
          /\ EchoStep(h, [t EXCEPT !.pc = "effect"])
       \/ /\ echo.control = "none" /\ Settled(echo)
          /\ echo.status = "running" /\ t.plan = echo.checkpointed
          /\ echo' = IF echo.checkpointed >= StepBudget
                     THEN [echo EXCEPT !.status = "paused"]
                     ELSE [echo EXCEPT !.committed = @ + 1]
          /\ EchoStep(h, [t EXCEPT !.pc = IF echo.checkpointed >= StepBudget THEN "loop" ELSE "effect"])

(* preflight_effect and report_effect change nothing outside the receipt.    *)
PlainEffect(h) ==
    /\ thread[h].pc = "effect"
    /\ thread[h].plan # 1
    /\ thread[h].plan = 2 => thread[h].verdict # "none"
    /\ EchoStep(h, [thread[h] EXCEPT !.pc = "record"])
    /\ UNCHANGED <<echo, blobs>>

(* model_effect: the answer is in the blob store before anything says so.    *)
ModelEffect(h, output) ==
    /\ thread[h].pc = "effect"
    /\ thread[h].plan = 1
    /\ blobs' = blobs \cup {output}
    /\ EchoStep(h, [thread[h] EXCEPT !.pc = "record", !.output = output])
    /\ UNCHANGED echo

(* Weather, an output over its cap, a failed write: the thread ends and the  *)
(* committed step waits for the next resume.                                 *)
EffectFails(h) ==
    /\ thread[h].pc = "effect"
    /\ EchoStep(h, Leaving)
    /\ UNCHANGED <<echo, blobs>>

(* The artifact and the validation of the model step, in the batch of its    *)
(* receipt.                                                                  *)
Verdict(plan, output, r) ==
    IF plan = 1
    THEN [r EXCEPT !.artifact = output,
                   !.verdict = IF output \in Marked THEN "passed" ELSE "failed"]
    ELSE r

(* record_effect.  A step that has its checkpoint accepts the same report     *)
(* again and refuses another one; a receipt that spent more than its step     *)
(* reserved pauses the Run in the same batch; a pending control follows.     *)
EchoRecord(h, over) ==
    LET t == thread[h]
        recorded == Verdict(t.plan, t.output, [echo EXCEPT !.checkpointed = @ + 1])
        known == echo.checkpointed > t.plan
        same == t.plan = 1 => t.output = echo.artifact
    IN /\ t.pc = "record"
       /\ echo' = IF known THEN echo
                  ELSE IF over THEN [recorded EXCEPT !.status = "paused", !.control = "none"]
                  ELSE SettledControl(recorded)
       /\ EchoStep(h, IF known /\ ~same THEN Leaving
                      ELSE [t EXCEPT !.pc = "loop", !.output = NoOutput])
       /\ UNCHANGED blobs

(* The end of EchoAgent::run: the outcome is that of the verdict read, and    *)
(* finish leaves a Run that is over, paused or mid-step as it is.            *)
EchoFinish(h) ==
    LET ends == ~Over(echo.status) /\ Settled(echo) /\ echo.status # "paused"
        outcome == IF thread[h].verdict = "passed" THEN "done" ELSE "failed"
    IN /\ thread[h].pc = "finish"
       /\ echo' = IF ends /\ echo.control = "none" THEN [echo EXCEPT !.status = outcome]
                  ELSE IF ~Over(echo.status) THEN SettledControl(echo) ELSE echo
       /\ EchoStep(h, Leaving)
       /\ UNCHANGED blobs

(* ActiveRunGuard::drop, after the thread's last look at the Run.            *)
Detach(h) ==
    /\ thread[h].pc = "exit"
    /\ thread' = [thread EXCEPT ![h] = NoThread]
    /\ attached' = attached \ {h}
    /\ UNCHANGED <<echo, request, EchoRest>>

(* The process is killed: its thread and its set go with it.                 *)
KillHost(h) ==
    /\ hostKills < MaxHostKills
    /\ thread[h].pc # "none" \/ request[h] # "idle"
    /\ hostKills' = hostKills + 1
    /\ thread' = [thread EXCEPT ![h] = NoThread]
    /\ attached' = attached \ {h}
    /\ request' = [request EXCEPT ![h] = "idle"]
    /\ UNCHANGED <<echo, blobs, viewer, drops>>

-----------------------------------------------------------------------------
(* The stream.                                                               *)

(* settled_frame_count: the frame of the last checkpoint waits until it is    *)
(* known whether it is the terminal one.                                     *)
SettledFrames(r) ==
    IF Over(r.status) \/ r.committed > r.checkpointed \/ r.checkpointed = 0
    THEN r.checkpointed ELSE r.checkpointed - 1

(* step_stream_frame                                                         *)
Frame(r, seq) ==
    [seq |-> seq,
     status |-> IF Over(r.status) /\ seq = r.checkpointed THEN r.status ELSE "running"]

(* ResumeWindow over the settled steps: the oldest frames are gone.          *)
Window(r) ==
    LET n == SettledFrames(r)
        first == IF n > FrameWindow THEN n - FrameWindow ELSE 0
    IN [i \in 1..(n - first) |-> Frame(r, first + i)]

(* Slip of Evicted: one frame of a hole is let pass.                         *)
EvictedLate(frames, cursor) == frames # <<>> /\ cursor + 2 < Head(frames).seq

Evicted(frames, cursor) == frames # <<>> /\ cursor + 1 < Head(frames).seq

(* frames_after: the window is in order, so the frames up to the cursor are   *)
(* the first ones of it.                                                     *)
FramesAfter(frames, cursor) ==
    IF cursor = NoOutput THEN frames
    ELSE SubSeq(frames, Cardinality({i \in DOMAIN frames : frames[i].seq <= cursor}) + 1, Len(frames))

View(c, v) ==
    /\ viewer' = [viewer EXCEPT ![c] = v]
    /\ UNCHANGED <<echo, blobs, thread, attached, request, hostKills>>

(* A client connects with the cursor of the last frame it saw.               *)
Connect(c) ==
    /\ viewer[c].pc = "off"
    /\ echo.status # "absent"
    /\ View(c, [viewer[c] EXCEPT !.pc = "read"])
    /\ UNCHANGED drops

(* One round of stream_follow: the frames after the cursor are handed over,   *)
(* or only the first few of them when the connection breaks meanwhile.       *)
FollowRead(c, taken) ==
    LET v == viewer[c]
        frames == Window(echo)
        refused == v.cursor # NoOutput /\
                   (v.cursor > SettledFrames(echo) \/ Evicted(frames, v.cursor))
        next == FramesAfter(frames, v.cursor)
        handed == SubSeq(next, 1, taken)
        seen == IF handed = <<>> THEN v.cursor ELSE Last(handed).seq
    IN /\ v.pc = "read"
       /\ taken <= Len(next)
       /\ ~refused
       /\ taken < Len(next) => drops < MaxDrops
       /\ drops' = IF taken < Len(next) THEN drops + 1 ELSE drops
       /\ View(c, [pc |-> IF taken < Len(next) THEN "off" ELSE "check",
                   cursor |-> seen, got |-> v.got \o handed])

(* A cursor outside the window ends the follow: the client asks a query.     *)
FollowRefused(c) ==
    LET v == viewer[c] IN
    /\ v.pc = "read"
    /\ v.cursor # NoOutput
    /\ v.cursor > SettledFrames(echo) \/ Evicted(Window(echo), v.cursor)
    /\ View(c, [v EXCEPT !.pc = "refused"])
    /\ UNCHANGED drops

(* The second read of the round: is the Run over and everything seen?        *)
FollowCheck(c) ==
    LET v == viewer[c]
        seen == IF v.cursor = NoOutput THEN 0 ELSE v.cursor
    IN /\ v.pc = "check"
       /\ View(c, [v EXCEPT !.pc = IF Over(echo.status) /\ seen >= SettledFrames(echo)
                                   THEN "closed" ELSE "read"])
       /\ UNCHANGED drops

-----------------------------------------------------------------------------
EchoHostNext(h) ==
    \/ EchoStart(h) \/ EchoResume(h) \/ EchoSettle(h) \/ Launch(h) \/ SpawnFails(h)
    \/ \E control \in {"pause", "cancel"} : EchoControl(h, control)
    \/ EchoLoop(h) \/ EchoPrepare(h) \/ PlainEffect(h) \/ EffectFails(h)
    \/ \E output \in Outputs : ModelEffect(h, output)
    \/ \E over \in BOOLEAN : EchoRecord(h, over)
    \/ EchoFinish(h) \/ Detach(h) \/ KillHost(h)

ClientNext(c) ==
    \/ Connect(c) \/ FollowRefused(c) \/ FollowCheck(c)
    \/ \E taken \in 0..EchoStepCount : FollowRead(c, taken)

EchoNext ==
    \/ \E h \in Hosts : EchoHostNext(h)
    \/ \E c \in Clients : ClientNext(c)

EchoSpec == EchoInit /\ [][EchoNext]_echoVars

-----------------------------------------------------------------------------
EchoTypeOK ==
    /\ echo \in EchoRows
    /\ blobs \subseteq Outputs
    /\ attached \subseteq Hosts
    /\ \A h \in Hosts : (thread[h].pc # "none") <=> h \in attached

(* A Run that ends done has an artifact in the store that carries the marker, *)
(* one that ends failed an artifact that does not, whatever threads of        *)
(* several processes answered for its model step and whoever was killed       *)
(* between the stored answer and its receipt.                                *)
VerdictHonest ==
    /\ echo.artifact # NoOutput <=> echo.checkpointed >= 2
    /\ echo.artifact # NoOutput => echo.artifact \in blobs
    /\ echo.status = "done" => echo.artifact \in Marked
    /\ echo.status = "failed" => echo.artifact \in Outputs \ Marked

(* Whatever it lost and however often it reconnected, a client has received   *)
(* consecutive frames, each once; a status of the end only on the last one;   *)
(* and a stream the server closed ended with it, unless the Run had no step.  *)
FramesExact ==
    \A c \in Clients :
        LET got == viewer[c].got IN
        /\ \A i \in 1..(Len(got) - 1) :
              /\ got[i + 1].seq = got[i].seq + 1
              /\ got[i].status = "running"
        /\ viewer[c].pc = "closed" /\ echo.checkpointed > 0 =>
              got # <<>> /\ Last(got) = [seq |-> echo.checkpointed, status |-> echo.status]

(* The Run's verdict and what its followers see of it are true.               *)
EchoSound == EchoTypeOK /\ VerdictHonest /\ FramesExact
=============================================================================
