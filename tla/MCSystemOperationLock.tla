----------------------- MODULE MCSystemOperationLock ------------------------
(* Small instances of SystemOperationLock for TLC. *)
EXTENDS SystemOperationLock, TLC

Symmetry == Permutations(Workers) \cup Permutations(Prints)
=============================================================================
