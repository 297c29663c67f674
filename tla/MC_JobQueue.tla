---------------------------- MODULE MC_JobQueue ----------------------------
(* Small instances of JobQueue for TLC.                                      *)
EXTENDS JobQueue, TLC

CONSTANTS j1, j2, w1, w2, w3

MCClass == [j \in Jobs |-> IF j = j1 THEN "ingest" ELSE "maintenance"]
MCOneClass == [j \in Jobs |-> "ingest"]
MCWorkerClass == [w \in Workers |-> IF w = w3 THEN "maintenance" ELSE "ingest"]
MCRank == [j \in Jobs |-> IF j = j1 THEN 1 ELSE 0]
MCRetryMax == [j \in Jobs |-> 1]
MCNoRetry == [j \in Jobs |-> IF j = j1 THEN 1 ELSE 0]
MCWorkerSymmetry == Permutations({w1, w2})
=============================================================================
