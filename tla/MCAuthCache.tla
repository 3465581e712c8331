----------------------------- MODULE MCAuthCache -----------------------------
(* Small instances of AuthCache for TLC. *)
EXTENDS AuthCache, TLC

CONSTANTS i1, i2, r1, r2

\* One reader in each process.
OneInEach == r1 :> i1 @@ r2 :> i2
=============================================================================
