------------------------------ MODULE MCRoute ------------------------------
(* Two requests without idempotency keys compete for two keys of two        *)
(* stations.  The first key is limited by its station, so that a miss gives *)
(* back the process counter; the second by itself, so that a miss gives     *)
(* back process and station.  Two slots in all, which two requests cannot   *)
(* exceed.                                                                  *)
EXTENDS RouteExecution, TLC

CONSTANTS k1, k2, s1, s2, r1, r2

MCStationOf == [k \in {k1, k2} |-> IF k = k1 THEN s1 ELSE s2]
MCLimit == [c \in {k1, k2, s1, s2, Global} |-> IF c \in {s1, k2} THEN 1 ELSE 2]
MCRankings == {<<k1, k2>>}
MCDrifts == {{}}
RequestSymmetry == Permutations({r1, r2})
=============================================================================
