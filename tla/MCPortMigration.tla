---------------------------- MODULE MCPortMigration ---------------------------
(* Two overlapping migrations between two ports, over two profiles.            *)
EXTENDS PortMigration, TLC

Symmetry == Permutations(Ports) \cup Permutations(Workers)
===============================================================================
