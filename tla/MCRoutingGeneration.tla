------------------------ MODULE MCRoutingGeneration ------------------------
(* A base policy, one that changes only the routing weights and one that      *)
(* needs new quality and circuit components.                                  *)
EXTENDS RoutingGeneration

MCBase == [quality |-> 0, circuit |-> 0, transport |-> 0, other |-> 0]
MCWeights == [MCBase EXCEPT !.other = 1]
MCComponents == [MCBase EXCEPT !.quality = 1, !.circuit = 1]
MCPolicies == {MCBase, MCWeights, MCComponents}
=============================================================================
