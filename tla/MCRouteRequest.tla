--------------------------- MODULE MCRouteRequest ---------------------------
(* One request without an idempotency key over two keys, every ranking and   *)
(* every set of drifted candidates, and a runtime revision that moves as     *)
(* often as it likes.                                                        *)
EXTENDS RouteExecution

CONSTANTS k1, k2, s1

MCStationOf == [k \in {k1, k2} |-> s1]
MCLimit == [c \in {k1, k2, s1, Global} |-> 1]
MCRankings == {<<>>, <<k1>>, <<k2>>, <<k1, k2>>, <<k2, k1>>}
MCDrifts == SUBSET {k1, k2}
=============================================================================
