------------------------ MODULE MCIdempotentRequest -------------------------
(* Small instances of IdempotentRequest for TLC. *)
EXTENDS IdempotentRequest, TLC

Symmetry == Permutations(Workers) \cup Permutations(Prints)
=============================================================================
