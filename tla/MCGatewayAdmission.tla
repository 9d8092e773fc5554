-------------------------- MODULE MCGatewayAdmission --------------------------
(* Small instances of GatewayAdmission for TLC: a binding with more requests *)
(* than it may run and queue, and a request of another binding (other) that  *)
(* competes with it for the global permits.                                  *)
EXTENDS GatewayAdmission, TLC

CONSTANTS other, a, b

MCBindingOf == [r \in Requests |-> IF r = other THEN b ELSE a]

MCSymmetry == Permutations(Requests \ {other})
=============================================================================
