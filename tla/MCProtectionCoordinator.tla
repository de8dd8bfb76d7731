---------------------- MODULE MCProtectionCoordinator ----------------------
(* The calls in progress are interchangeable.                              *)
EXTENDS ProtectionCoordinator, TLC

JobSymmetry == Permutations(Jobs)
=============================================================================
