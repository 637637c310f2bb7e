------------------------- MODULE MCRegistryRecovery -------------------------
(* Instances of RegistryRecovery for TLC.                                  *)
EXTENDS RegistryRecovery, TLC

CONSTANTS p1, p2

Symmetric == Permutations(Procs)

=============================================================================
