------------------------ MODULE SystemOperationLock -------------------------
(***************************************************************************)
(* The lock that keeps updates, rollbacks and restarts of the server apart *)
(* (system_operation_lock_service.go and its use in system_handler.go): a  *)
(* lease on one row of idempotency_records, which a background loop renews *)
(* while the operation runs.                                               *)
(*                                                                         *)
(* A renewal that is due happens before time moves on, unless it fails.    *)
(* From its first look at the clock an operation takes at most MaxDelay to *)
(* get the lock or not and MaxRun to release it, which itself takes at     *)
(* most MaxDelay.  overran remembers whether one has outlived the lease it *)
(* got at first.                                                           *)
(***************************************************************************)
EXTENDS IdempotencyRecords

CONSTANTS
  Renewal,    \* renewInterval
  MaxDelay,   \* how long the statements of Acquire, or of Release, take
  MaxRun      \* systemUpdateTimeout

ASSUME TimesAssumption ==
  /\ Renewal \in Nat \ {0} /\ Renewal < Lease
  /\ MaxDelay \in Nat /\ MaxRun \in Nat /\ MaxRun < Retention
  /\ MaxTime \in Nat /\ MaxFaults \in Nat

VARIABLES
  op,         \* per worker: the operation's id, its fingerprint
  id, from,   \* per worker: id and status of the row it read or holds
  created,    \* history: per worker, it holds the row it inserted
  renewing,   \* per worker: its renewal loop runs
  ticked,     \* per worker: when that loop last woke up, or was stopped
  overran     \* history: some operation has outlived its first lease

local == <<op, id, from, created>>
lockVars == <<clock, rec, pc, at, local, renewing, ticked, overran, faults>>

LockStep == {"idle", "create", "read", "reclaim", "running", "release"}

LockTypeOK ==
  /\ clock \in Nat /\ rec \in Rows
  /\ pc \in [Workers -> LockStep]
  /\ at \in [Workers -> Nat]
  /\ op \in [Workers -> Prints \cup {NoPrint}]
  /\ id \in [Workers -> Nat]
  /\ from \in [Workers -> RowStatus]
  /\ created \in [Workers -> BOOLEAN]
  /\ renewing \in [Workers -> BOOLEAN]
  /\ ticked \in [Workers -> Nat]
  /\ overran \in BOOLEAN /\ faults \in Nat

LockInit ==
  /\ clock = 0 /\ rec = NoRow(0)
  /\ pc = [w \in Workers |-> "idle"]
  /\ at = [w \in Workers |-> 0]
  /\ op = [w \in Workers |-> NoPrint]
  /\ id = [w \in Workers |-> 0]
  /\ from = [w \in Workers |-> "none"]
  /\ created = [w \in Workers |-> FALSE]
  /\ renewing = [w \in Workers |-> FALSE]
  /\ ticked = [w \in Workers |-> 0]
  /\ overran = FALSE /\ faults = 0

-----------------------------------------------------------------------------
(* What the steps are made of.  An operator introduced as a slip is no part *)
(* of the program: it is the definition after it with a mistake a change to *)
(* the code could bring in, kept to show which property would notice.       *)

LockGoto(w, s) == pc' = [pc EXCEPT ![w] = s]

\* The request is answered and everything it knew is gone.
LockStop(w) ==
  /\ LockGoto(w, "idle")
  /\ at' = [at EXCEPT ![w] = 0]
  /\ op' = [op EXCEPT ![w] = NoPrint]
  /\ id' = [id EXCEPT ![w] = 0]
  /\ from' = [from EXCEPT ![w] = "none"]
  /\ created' = [created EXCEPT ![w] = FALSE]
  /\ renewing' = [renewing EXCEPT ![w] = FALSE]
  /\ ticked' = [ticked EXCEPT ![w] = 0]

\* The lock is handed out and its renewal loop started.
Hold(w) ==
  /\ LockGoto(w, "running")
  /\ renewing' = [renewing EXCEPT ![w] = TRUE]
  /\ ticked' = [ticked EXCEPT ![w] = clock]
  /\ UNCHANGED <<at, op, from>>

-----------------------------------------------------------------------------
(* Acquire. *)

Acquire(w, p) ==
  /\ pc[w] = "idle"
  /\ LockGoto(w, "create")
  /\ at' = [at EXCEPT ![w] = clock]
  /\ op' = [op EXCEPT ![w] = p]
  /\ UNCHANGED <<clock, rec, id, from, created, renewing, ticked, overran, faults>>

InsertRow(w) ==
  /\ pc[w] = "create"
  /\ CreateProcessing(op[w], at[w])
  /\ \/ /\ Hold(w)
        /\ id' = [id EXCEPT ![w] = rec.id + 1]
        /\ created' = [created EXCEPT ![w] = TRUE]
        /\ UNCHANGED faults
     \/ Fault /\ LockStop(w)
  /\ UNCHANGED <<clock, overran>>

RowExists(w) ==
  /\ pc[w] = "create" /\ rec.status # "none"
  /\ LockGoto(w, "read")
  /\ UNCHANGED <<clock, rec, at, local, renewing, ticked, overran, faults>>

Busy(w) == rec.status = "processing" /\ rec.until > at[w]

ReadRow(w) ==
  /\ pc[w] = "read"
  /\ IF rec.status = "none" \/ Busy(w)
       THEN LockStop(w)
       ELSE /\ LockGoto(w, "reclaim")
            /\ id' = [id EXCEPT ![w] = rec.id]
            /\ from' = [from EXCEPT ![w] = rec.status]
            /\ UNCHANGED <<at, op, created, renewing, ticked>>
  /\ UNCHANGED <<clock, rec, overran, faults>>

ReclaimRow(w) ==
  /\ pc[w] = "reclaim"
  /\ IF Reclaimable(id[w], from[w], at[w])
       THEN /\ TryReclaim(at[w])
            /\ \/ Hold(w) /\ UNCHANGED <<id, created, faults>>
               \/ Fault /\ LockStop(w)
       ELSE LockStop(w) /\ UNCHANGED <<rec, faults>>
  /\ UNCHANGED <<clock, overran>>

LockStoreFails(w) ==
  /\ pc[w] \in {"create", "read", "reclaim"} /\ Fault
  /\ LockStop(w)
  /\ UNCHANGED <<clock, rec, overran>>

-----------------------------------------------------------------------------
(* renewLoop, the operation's end and Release. *)

\* Slip: the loop ends when a renewal fails.
RenewOnce(w) ==
  /\ renewing[w] /\ clock >= ticked[w] + Renewal
  /\ \/ /\ Extendable(id[w], op[w])
        /\ ExtendProcessingLock
        /\ ticked' = [ticked EXCEPT ![w] = clock]
        /\ UNCHANGED <<renewing, faults>>
     \/ /\ Fault
        /\ renewing' = [renewing EXCEPT ![w] = FALSE]
        /\ UNCHANGED <<rec, ticked>>
     \/ /\ ~Extendable(id[w], op[w])
        /\ renewing' = [renewing EXCEPT ![w] = FALSE]
        /\ UNCHANGED <<rec, ticked, faults>>
  /\ UNCHANGED <<clock, pc, at, local, overran>>

\* The loop goes on after an error, and ends when no row matches.
Renew(w) ==
  /\ renewing[w] /\ clock >= ticked[w] + Renewal
  /\ \/ /\ Extendable(id[w], op[w])
        /\ ExtendProcessingLock
        /\ ticked' = [ticked EXCEPT ![w] = clock]
        /\ UNCHANGED <<renewing, faults>>
     \/ /\ Fault
        /\ ticked' = [ticked EXCEPT ![w] = clock]
        /\ UNCHANGED <<rec, renewing>>
     \/ /\ ~Extendable(id[w], op[w])
        /\ renewing' = [renewing EXCEPT ![w] = FALSE]
        /\ UNCHANGED <<rec, ticked, faults>>
  /\ UNCHANGED <<clock, pc, at, local, overran>>

Finish(w) ==
  /\ pc[w] = "running"
  /\ LockGoto(w, "release")
  /\ renewing' = [renewing EXCEPT ![w] = FALSE]
  /\ ticked' = [ticked EXCEPT ![w] = clock]
  /\ UNCHANGED <<clock, rec, at, local, overran, faults>>

\* The error of a release is ignored.
Release(w) ==
  /\ pc[w] = "release"
  /\ \/ MarkSucceeded(id[w], clock + Retention) /\ UNCHANGED faults
     \/ MarkFailedRetryable(id[w], clock, clock + Retention) /\ UNCHANGED faults
     \/ Fault /\ UNCHANGED rec
  /\ LockStop(w)
  /\ UNCHANGED <<clock, overran>>

LockCrash(w) ==
  /\ pc[w] \in {"running", "release"} /\ Fault
  /\ LockStop(w)
  /\ UNCHANGED <<clock, rec, overran>>

-----------------------------------------------------------------------------

LockCleanup ==
  /\ DeleteExpired
  /\ UNCHANGED <<clock, pc, at, local, renewing, ticked, overran, faults>>

LockInTime(w) ==
  /\ pc[w] \in {"create", "read", "reclaim"} => clock < at[w] + MaxDelay
  /\ pc[w] # "idle" => clock < at[w] + MaxRun
  /\ pc[w] = "release" => clock < ticked[w] + MaxDelay
  /\ renewing[w] => clock < ticked[w] + Renewal

OutlivesLease(w) == pc[w] # "idle" /\ clock + 1 >= at[w] + Lease

LockTick ==
  /\ clock < MaxTime /\ \A w \in Workers : LockInTime(w)
  /\ clock' = clock + 1
  /\ overran' = (overran \/ \E w \in Workers : OutlivesLease(w))
  /\ UNCHANGED <<rec, pc, at, local, renewing, ticked, faults>>

LockClaim(w) == InsertRow(w) \/ RowExists(w) \/ ReadRow(w) \/ ReclaimRow(w) \/ LockStoreFails(w)
LockRun(w)   == Renew(w) \/ Finish(w) \/ Release(w) \/ LockCrash(w)

LockNext ==
  \/ \E w \in Workers : LockClaim(w) \/ LockRun(w) \/ \E p \in Prints : Acquire(w, p)
  \/ LockCleanup
  \/ LockTick

LockSpec == LockInit /\ [][LockNext]_lockVars

-----------------------------------------------------------------------------
(* What must hold. *)

Holders == {w \in Workers : pc[w] \in {"running", "release"}}

\* At most one system operation runs, unless one has outlived its first lease:
\* crashes, failed statements, lost answers and the cleanup job do not matter.
ExclusiveWithinLease ==
  ~overran => \A v, w \in Holders : v = w

\* An operation that found no row and inserted it keeps the lock as long as it
\* runs, however long that is and though a renewal fails: nobody else gets it.
CreatorKeepsLock ==
  [][\A v, w \in Workers :
       created[w] /\ pc[w] = "running" /\ created'[w]
         /\ pc[v] # "running" /\ pc'[v] = "running" => v = w]_lockVars

-----------------------------------------------------------------------------
(* The inductive invariant behind ExclusiveWithinLease. *)

\* Readings of the clock are past, and only a running operation is renewed.
LockLocalInv ==
  \A w \in Workers :
    /\ at[w] <= clock
    /\ renewing[w] => pc[w] = "running"
    /\ ~overran /\ pc[w] # "idle" => clock < at[w] + Lease

\* A holder's row is there, and neither its lease nor its retention ends before
\* the lease it got at first.
HolderInv ==
  ~overran =>
    \A w \in Holders :
      /\ rec.status = "processing" /\ rec.id = id[w]
      /\ rec.until >= at[w] + Lease /\ rec.expires >= at[w] + Lease

LockInv == LockTypeOK /\ LockLocalInv /\ HolderInv /\ ExclusiveWithinLease

-----------------------------------------------------------------------------
(* The inductive invariant behind CreatorKeepsLock. *)

\* The lease outlasts the renewals that may fail, in a row.
RenewalsFit == MaxDelay + (MaxFaults + 1) * Renewal < Lease

\* A worker knows no row but an earlier one or the present one, and what is due
\* has been done.
DueInv ==
  /\ faults <= MaxFaults
  /\ \A w \in Workers :
       /\ at[w] <= clock /\ ticked[w] <= clock /\ id[w] <= rec.id
       /\ pc[w] \in {"create", "read", "reclaim"} => clock <= at[w] + MaxDelay
       /\ renewing[w] => clock <= ticked[w] + Renewal

\* As long as it runs, a creator renews the row, which nobody else holds; every
\* renewal that fails costs it the time to the next.
CreatorInv ==
  \A w \in Workers : created[w] =>
    /\ pc[w] \in {"running", "release"}
    /\ pc[w] = "running" =>
         /\ renewing[w] /\ Extendable(id[w], op[w])
         /\ rec.until + MaxDelay + faults * Renewal >= ticked[w] + Lease
         /\ rec.expires >= rec.until
         /\ \A v \in Holders : id[v] = id[w] => v = w

KeeperInv == LockTypeOK /\ DueInv /\ CreatorInv
=============================================================================
