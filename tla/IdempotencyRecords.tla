------------------------- MODULE IdempotencyRecords -------------------------
(***************************************************************************)
(* The row of table idempotency_records that belongs to one scope and key, *)
(* and the statements of repository/idempotency_repo.go on it.  Two users  *)
(* of the table share this module: idempotent write requests and the lock  *)
(* of system operations.                                                   *)
(*                                                                         *)
(* Time is a counter all server instances share.  A request reads it once, *)
(* when it starts, and computes locked_until and expires_at from that      *)
(* reading, whenever its statement runs.                                   *)
(*                                                                         *)
(* An operator introduced as a slip is no part of the program: it is the   *)
(* definition after it with a mistake a change to the code could bring in, *)
(* kept to show which property would notice.                               *)
(***************************************************************************)
EXTENDS Integers, Faults

CONSTANTS
  Workers,    \* requests being handled
  Prints,     \* request fingerprints
  NoPrint,
  Lease,      \* ProcessingTimeout: from now to locked_until
  Retention,  \* TTL: from now to expires_at
  MaxTime     \* bound: how long the system is watched

ASSUME PrintsAssumption == NoPrint \notin Prints
ASSUME LeaseAssumption == Lease \in Nat \ {0} /\ Retention \in Nat /\ Lease <= Retention

RowStatus == {"none", "processing", "succeeded", "failed_retryable"}

VARIABLES
  clock,
  rec,     \* the row; its status is "none" when there is none
  pc,      \* per worker: next step
  at       \* per worker: the time it read when it started

(* A row's id is the number of rows inserted up to it.  locked_until = NULL *)
(* and a time that is past are the same to every statement: both are 0.     *)
Rows == [id : Nat, status : RowStatus, print : Prints \cup {NoPrint},
         until : Nat, expires : Nat]

NoRow(n) == [id |-> n, status |-> "none", print |-> NoPrint, until |-> 0, expires |-> 0]

IsRow(id) == rec.status # "none" /\ rec.id = id

\* INSERT ... ON CONFLICT DO NOTHING, in the case it inserts.
CreateProcessing(p, now) ==
  /\ rec.status = "none"
  /\ rec' = [id |-> rec.id + 1, status |-> "processing", print |-> p,
             until |-> now + Lease, expires |-> now + Retention]

\* Slip: the lease is not looked at again.
ReclaimableAnyTime(id, from, now) == IsRow(id) /\ rec.status = from

\* The conditions of TryReclaim's UPDATE.
Reclaimable(id, from, now) ==
  /\ IsRow(id) /\ rec.status = from
  /\ rec.until <= now

\* The row keeps the fingerprint it was inserted with.
TryReclaim(now) ==
  rec' = [rec EXCEPT !.status = "processing", !.until = now + Lease,
                     !.expires = now + Retention]

\* The conditions of ExtendProcessingLock's UPDATE, and the UPDATE.
Extendable(id, p) == IsRow(id) /\ rec.status = "processing" /\ rec.print = p

ExtendProcessingLock ==
  rec' = [rec EXCEPT !.until = clock + Lease, !.expires = clock + Retention]

\* Both outcomes are written to whatever the row has become: WHERE id = $1.
MarkSucceeded(id, expires) ==
  rec' = IF IsRow(id)
           THEN [rec EXCEPT !.status = "succeeded", !.until = 0, !.expires = expires]
           ELSE rec

MarkFailedRetryable(id, until, expires) ==
  rec' = IF IsRow(id)
           THEN [rec EXCEPT !.status = "failed_retryable", !.until = until,
                            !.expires = expires]
           ELSE rec

\* The cleanup job, whatever the row's status.
DeleteExpired ==
  /\ rec.status # "none" /\ rec.expires <= clock
  /\ rec' = NoRow(rec.id)
=============================================================================
