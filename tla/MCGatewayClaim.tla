---------------------------- MODULE MCGatewayClaim ----------------------------
(* A small instance of GatewayClaim for TLC: the supervisor, one launcher,   *)
(* two ports, and as many pids as sidecars can be alive at once.             *)
EXTENDS GatewayClaim, TLC

MCSymmetry == Permutations(Pids)
=============================================================================
