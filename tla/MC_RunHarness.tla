--------------------------- MODULE MC_RunHarness ---------------------------
(* Small instances of RunHarness for TLC.                                    *)
EXTENDS RunHarness, TLC

CONSTANTS w1, w2

(* The last step's tool is not idempotent.                                   *)
MCLastOnce == [n \in Steps |-> n < StepCount - 1]
MCAllIdempotent == [n \in Steps |-> TRUE]
MCWorkerSymmetry == Permutations({w1, w2})
=============================================================================
