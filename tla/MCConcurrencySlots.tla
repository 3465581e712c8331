------------------------- MODULE MCConcurrencySlots -------------------------
(* Small instances of ConcurrencySlots for TLC. *)
EXTENDS ConcurrencySlots, TLC

UserTwoAccountOne == [user |-> 2, account |-> 1]
=============================================================================
