-------------------------------- MODULE Faults --------------------------------
(***************************************************************************)
(* What goes wrong: crashes, failing statements, lost answers, stalls and  *)
(* whatever else a model names as a fault.  They are counted, and bounded. *)
(***************************************************************************)
EXTENDS Naturals

CONSTANT MaxFaults  \* bound: how many faults are explored

VARIABLE faults     \* how many happened so far

Fault == faults < MaxFaults /\ faults' = faults + 1
=============================================================================
