------------------------ MODULE MCSystemOperationLock ------------------------
(* SystemOperationLock for TLC: three or four operations, a lease of six ticks. *)
EXTENDS SystemOperationLock, TLC

MCSymmetry == Permutations(Callers)
=============================================================================
