------------------------------ MODULE MCVPcie ------------------------------
(* VPcie on small instances *)
EXTENDS VPcieBus, TLC

Symmetry == Permutations(Nodes)
=============================================================================
