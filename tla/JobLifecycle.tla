---------------------------- MODULE JobLifecycle ----------------------------
(***************************************************************************)
(* What the queue promises a reader: the frozen contract                    *)
(* Queued -> Running -> Done | Failed | Dead of one job as the API sees it,  *)
(* with the two facts the contract leaves to the reader: a worker that      *)
(* vanishes returns its job to where it was waiting, and Done and Dead are  *)
(* the end.  The state is the read view, durable state joined with lease.   *)
(***************************************************************************)
CONSTANT Jobs

VARIABLE live   \* live[j]: what live_state answers for job j

LiveStates == {"absent", "Queued", "Running", "Failed", "Done", "Dead"}

Init == live = [j \in Jobs |-> "absent"]

Become(j, from, to) ==
    /\ live[j] \in from
    /\ live' = [live EXCEPT ![j] = to]

Enqueue(j) == Become(j, {"absent"}, "Queued")
Run(j) == Become(j, {"Queued", "Failed"}, "Running")
Succeed(j) == Become(j, {"Running"}, "Done")
Retry(j) == Become(j, {"Running", "Queued"}, "Failed")
Die(j) == Become(j, {"Running", "Queued", "Failed"}, "Dead")
Vanish(j) == Become(j, {"Running"}, "Queued")

Next == \E j \in Jobs : Enqueue(j) \/ Run(j) \/ Succeed(j) \/ Retry(j) \/ Die(j) \/ Vanish(j)

Spec == Init /\ [][Next]_live
=============================================================================
