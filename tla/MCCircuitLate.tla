---------------------------- MODULE MCCircuitLate ----------------------------
(* One key and two requests: the first may fail, retry the key and lose its  *)
(* lease to the reaper; the deadline of the second is late enough to recover *)
(* the key afterwards.                                                       *)
EXTENDS StationKeyCircuit

CONSTANTS r1, r2

MCAttempts == {r1, r2} \X {0, 1}
MCFailThreshold == <<1>>
MCRecoveryThreshold == <<1>>
MCRecoveryWait == <<1>>
MCDeadline == [r \in {r1, r2} |-> IF r = r2 THEN 4 ELSE 2]
=============================================================================
