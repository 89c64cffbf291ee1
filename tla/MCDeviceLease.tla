--------------------------- MODULE MCDeviceLease ---------------------------
(* DeviceLease with two connections to one pod.                             *)
EXTENDS DeviceLease, TLC

Symmetry == Permutations(Clients)
=============================================================================
