--------------------------- MODULE MCPaymentOrder ---------------------------
(* Small instances of PaymentOrder for TLC. *)
EXTENDS PaymentOrderInvariant

=============================================================================
