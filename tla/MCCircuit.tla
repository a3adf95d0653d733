----------------------------- MODULE MCCircuit -----------------------------
(* One key, two requests that may retry once, and a policy change while they *)
(* are in flight: the failure threshold drops and the recovery one rises.    *)
EXTENDS StationKeyCircuit, TLC

CONSTANTS r1, r2

MCAttempts == {r1, r2} \X {0, 1}
MCFailThreshold == <<2, 1>>
MCRecoveryThreshold == <<1, 2>>
MCRecoveryWait == <<2, 1>>
MCDeadline == [r \in {r1, r2} |-> 3]
RequestSymmetry == Permutations({r1, r2})
=============================================================================
