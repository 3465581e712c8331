--------------------------- MODULE MCPaymentRefund --------------------------
(* Small instances of PaymentRefund for TLC. *)
EXTENDS PaymentRefund, TLC

WorkerSymmetry == Permutations(Workers)
=============================================================================
