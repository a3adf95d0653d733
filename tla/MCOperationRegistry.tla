----------------------- MODULE MCOperationRegistry -----------------------
(* Three operations, two of them under one concurrency key and one with the *)
(* detach policy, two of them at a time, one terminal kept.                 *)
EXTENDS OperationRegistry, TLC

CONSTANTS o1, o2, o3, k1, c1

MCKeyOf == [o \in {o1, o2, o3} |-> IF o = o3 THEN NoKey ELSE k1]
Alike == Permutations({o1, o2})
=============================================================================
