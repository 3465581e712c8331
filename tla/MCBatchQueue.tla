---------------------------- MODULE MCBatchQueue ----------------------------
(* Small instances of BatchQueue for TLC. *)
EXTENDS BatchQueue, TLC
=============================================================================
