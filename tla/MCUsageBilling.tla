---------------------------- MODULE MCUsageBilling ----------------------------
EXTENDS UsageBilling, TLC

CONSTANTS server, r1, r2

Here == r1 :> server @@ r2 :> server

=============================================================================
