--------------------------- MODULE MCPersistence ---------------------------
(* Two requests on two keys, with room for one record in the backlog, two    *)
(* tries of a write and two faults.                                          *)
EXTENDS CircuitPersistence

CONSTANTS a1, a2, k1, k2

MCKeyOf == [a \in {a1, a2} |-> IF a = a1 THEN k1 ELSE k2]
=============================================================================
