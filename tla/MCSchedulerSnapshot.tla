------------------------ MODULE MCSchedulerSnapshot ------------------------
\* An instance of SchedulerSnapshot for TLC.
EXTENDS SchedulerSnapshot
CONSTANTS p1, f1, r1
=============================================================================
