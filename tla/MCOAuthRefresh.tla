---------------------------- MODULE MCOAuthRefresh ----------------------------
(* Small instances of OAuthRefresh for TLC. *)
EXTENDS OAuthRefresh, TLC

CONSTANTS b1, b2, q1

\* Two processes; the first one also serves a request.
TwoProcesses == b1 :> 1 @@ b2 :> 2 @@ q1 :> 1
=============================================================================
