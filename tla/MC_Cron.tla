------------------------------ MODULE MC_Cron ------------------------------
(* Small instances of Cron for TLC.                                          *)
EXTENDS Cron

CONSTANT Guest   \* the second process

(* The schedule fires at every instant.                                      *)
MCFires == [s \in Schedules |-> 1..MaxTime]

(* The first schedule never queues up, the second does.                      *)
MCPolicies == [c \in Crons |-> IF c = 1 THEN {"Skip", "CancelPrevious"} ELSE {"Queue"}]
MCMaxRegisters == [c \in Crons |-> IF c = 1 THEN 2 ELSE 1]

(* Two schedules and one process, or, for longer, one schedule and two       *)
(* processes: the second one ticks until the second schedule is registered,  *)
(* or the first one again, or one is enabled or disabled.                    *)
Visiting == registers[1] <= 1 /\ registers[2] = 0 /\ toggles = 0
MCNext == Next /\ (Visiting' \/ (tick'[Guest] = Idle /\ now' < MaxTime))
MCSpec ==
    /\ Init /\ [][MCNext]_vars
    /\ \A t \in Tickers : WF_vars((t = Guest => Visiting) /\ TickNext(t))
    /\ \A j \in JobIds : WF_vars(jobs[j] = "queued" /\ FinishJob(j))
=============================================================================
