---------------------------- MODULE BalanceHold -----------------------------
(***************************************************************************)
(* The money of batch image jobs (usage_billing_repo.go): a job's price is *)
(* moved from the user's balance to the frozen balance when it is          *)
(* submitted, and either captured, which gives back what the job did not   *)
(* cost, or released.                                                      *)
(*                                                                         *)
(* Each movement is one transaction that first claims a request id of its  *)
(* own in usage_billing_dedup; when the id is claimed already it does      *)
(* nothing and succeeds.  The ids of hold, capture and release differ, and *)
(* the frozen balance is one number for all jobs of a user: nothing in the *)
(* table says whose money it is.  The payloads behind the three ids of one *)
(* job never change, so the fingerprint conflict cannot occur.             *)
(***************************************************************************)
EXTENDS Integers

CONSTANTS
  Jobs,     \* batch image jobs of one user
  Hold,     \* what a job freezes, in indivisible units
  Funds,    \* the user's balance at the start
  Others    \* what further jobs of the user keep frozen

ASSUME MoneyAssumption == Hold \in Nat \ {0} /\ Funds \in Nat /\ Others \in Nat

Movement == {"hold", "capture", "release"}

VARIABLES
  balance,  \* users.balance
  frozen,   \* users.frozen_balance
  claims,   \* usage_billing_dedup: per job, the claimed request ids
  moved     \* history: per job, the movements that moved money

ledger == <<balance, frozen, claims, moved>>

LedgerTypeOK ==
  /\ balance \in Int /\ frozen \in Int
  /\ claims \in [Jobs -> SUBSET Movement]
  /\ moved \in [Jobs -> SUBSET Movement]

LedgerInit ==
  /\ balance = Funds /\ frozen = Others
  /\ claims = [j \in Jobs |-> {}]
  /\ moved = [j \in Jobs |-> {}]

Claimed(j, m) == m \in claims[j]
Claim(j, m)   == claims' = [claims EXCEPT ![j] = @ \cup {m}]
Move(j, m, db, df) ==
  /\ balance' = balance + db /\ frozen' = frozen + df
  /\ moved' = [moved EXCEPT ![j] = @ \cup {m}]

CanReserve(j) == Claimed(j, "hold") \/ balance >= Hold

Reserve(j) ==
  IF Claimed(j, "hold") THEN UNCHANGED ledger
  ELSE /\ balance >= Hold
       /\ Claim(j, "hold") /\ Move(j, "hold", -Hold, Hold)

CanCapture(j, cost) == Claimed(j, "capture") \/ (cost <= Hold /\ frozen >= Hold)

Capture(j, cost) ==
  IF Claimed(j, "capture") THEN UNCHANGED ledger
  ELSE /\ cost <= Hold /\ frozen >= Hold
       /\ Claim(j, "capture") /\ Move(j, "capture", Hold - cost, -Hold)

CanRelease(j) == Claimed(j, "release") \/ ~Claimed(j, "hold") \/ frozen >= Hold

\* Slip: whether the job ever froze anything is not looked up.
ReleaseUnheld(j) ==
  IF Claimed(j, "release") THEN UNCHANGED ledger
  ELSE /\ frozen >= Hold
       /\ Claim(j, "release") /\ Move(j, "release", Hold, -Hold)

\* A job that froze nothing has its release claimed all the same.
Release(j) ==
  IF Claimed(j, "release") THEN UNCHANGED ledger
  ELSE /\ Claim(j, "release")
       /\ IF Claimed(j, "hold")
            THEN frozen >= Hold /\ Move(j, "release", Hold, -Hold)
            ELSE UNCHANGED <<balance, frozen, moved>>

\* The job's money is in the frozen balance.
Open(j) == "hold" \in moved[j] /\ moved[j] \cap {"capture", "release"} = {}
=============================================================================
