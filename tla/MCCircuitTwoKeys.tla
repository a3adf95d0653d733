-------------------------- MODULE MCCircuitTwoKeys --------------------------
(* Two keys and two single-attempt requests.  The first failure opens a key, *)
(* and every deadline lies within the wall clock's range.                    *)
EXTENDS StationKeyCircuit

CONSTANTS k1, k2, r1, r2

MCAttempts == {r1, r2} \X {0}
MCFailThreshold == <<1>>
MCRecoveryThreshold == <<1>>
MCRecoveryWait == <<1>>
MCDeadline == [r \in {r1, r2} |-> 2]
=============================================================================
