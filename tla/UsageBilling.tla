----------------------------- MODULE UsageBilling -----------------------------
(***************************************************************************)
(* How a request that is paid from the balance is admitted and charged:    *)
(* billing_cache_service.go, billing_cache.go, gateway_usage_billing.go    *)
(* and usage_billing_repo.go.                                              *)
(*                                                                         *)
(* A request is admitted by the copy of the user's balance in Redis.  If   *)
(* there is none, the balance is read from the database, once for all the  *)
(* requests of a process that wait for it, and a task to store the copy is *)
(* queued in the memory of the process.  When the upstream has answered,   *)
(* one transaction claims the request's id and takes the price; what the   *)
(* copy loses is another queued task, unless the balance is used up: then  *)
(* the copy is deleted.  Ten workers run the tasks of a process, so that   *)
(* they take effect in any order.  A circuit breaker in each process turns *)
(* requests away after failed reads of the balance.                        *)
(*                                                                         *)
(* This module follows one user, and requests that cost one unit each.     *)
(* Credits and an administrator's corrections delete the copy later and    *)
(* from another process; refunds and holds leave it alone.                 *)
(***************************************************************************)
EXTENDS Integers, FiniteSets, Bags, Faults

CONSTANTS
  Instances, Requests,
  At,            \* the process of a request
  Start,         \* the balance at first
  Reserve,       \* billing.minimum_balance_reserve
  QueueSize,     \* cacheWriteBufferSize
  Threshold,     \* failures that open the breaker
  Trials,        \* requests that a half-open breaker lets through
  MaxCredits,    \* bound: payments and corrections that raise the balance
  MaxDebits      \* bound: refunds, holds and corrections that lower it

ASSUME PlacesAssumption == At \in [Requests -> Instances]
ASSUME AmountsAssumption ==
  Start \in Nat /\ Reserve \in Nat /\ MaxCredits \in Nat /\ MaxDebits \in Nat
ASSUME BreakerAssumption ==
  /\ QueueSize \in Nat /\ Threshold \in Nat \ {0} /\ Trials \in Nat \ {0}
  /\ MaxFaults \in Nat

Amount == (0 - 2 * Cardinality(Requests))..(Start + MaxCredits)
NoCopy == Start + MaxCredits + 1

Deduct == [kind |-> "deduct", amount |-> 1]
Task   == [kind : {"set"}, amount : Amount] \cup {Deduct}

VARIABLES
  balance,    \* users.balance
  claims,     \* request ids in usage_billing_dedup
  charged,    \* history: how often a request was charged
  copy,       \* the balance as Redis has it, NoCopy without a key
  excused,    \* history: the copy may be too high, see ExhaustedIsRefused
  queue,      \* per process: the bag of its tasks for the copy
  breaker,    \* per process: mode, failures, trials left
  step,       \* per request: its next step
  got,        \* per request: the balance it is judged by
  exhausted,  \* per request: its charge has left too little
  credits, debits,
  untold      \* credits and corrections that have not deleted the copy yet

funds   == <<balance, claims, charged>>
redis   == <<copy, excused>>
request == <<step, got, exhausted>>
others  == <<credits, debits, untold>>
billingVars == <<funds, redis, queue, breaker, request, others, faults>>

Step == {"new", "look", "load", "wait", "store", "judge", "failed", "refused",
         "serve", "charge", "sync", "resync", "billed", "ended"}

BillingTypeOK ==
  /\ balance \in Amount /\ claims \subseteq Requests /\ charged \in [Requests -> Nat]
  /\ copy \in Amount \cup {NoCopy} /\ excused \in BOOLEAN
  /\ \A i \in Instances : IsABag(queue[i]) /\ BagToSet(queue[i]) \subseteq Task
  /\ breaker \in [Instances -> [mode : {"closed", "open", "due", "half"},
                                failures : 0..Threshold, left : 0..Trials]]
  /\ step \in [Requests -> Step] /\ got \in [Requests -> Amount \cup {NoCopy}]
  /\ exhausted \in [Requests -> BOOLEAN]
  /\ credits \in 0..MaxCredits /\ debits \in 0..MaxDebits /\ untold \in 0..(credits + debits)
  /\ faults \in 0..MaxFaults

Closed == [mode |-> "closed", failures |-> 0, left |-> 0]

BillingInit ==
  /\ balance = Start /\ claims = {} /\ charged = [r \in Requests |-> 0]
  /\ copy = NoCopy /\ excused = FALSE
  /\ queue = [i \in Instances |-> EmptyBag] /\ breaker = [i \in Instances |-> Closed]
  /\ step = [r \in Requests |-> "new"] /\ got = [r \in Requests |-> NoCopy]
  /\ exhausted = [r \in Requests |-> FALSE]
  /\ credits = 0 /\ debits = 0 /\ untold = 0 /\ faults = 0

StepTo(r, s) == step' = [step EXCEPT ![r] = s]
\* balanceBelowEligibilityThreshold
Below(b) == b <= 0 \/ b < Reserve

Delete == copy' = NoCopy /\ excused' = FALSE
\* The copy stays although it may be too high now.
Keep   == excused' = (copy # NoCopy) /\ UNCHANGED copy

-----------------------------------------------------------------------------
(* The circuit breaker. *)

Report(i, b) == breaker' = [breaker EXCEPT ![i] = b]

\* Slip: only a request that is admitted counts as a success.
OnSuccessIfAdmitted(i) ==
  IF \E r \in Requests : At[r] = i /\ step[r] = "judge" /\ ~Below(got[r])
    THEN Report(i, Closed) ELSE UNCHANGED breaker

OnSuccess(i) == Report(i, Closed)

OnFailure(i) ==
  LET b == breaker[i] IN
  CASE b.mode \in {"open", "due"} -> UNCHANGED breaker
    [] b.mode = "half" -> Report(i, [b EXCEPT !.mode = "open", !.left = 0])
    [] b.mode = "closed" /\ b.failures + 1 >= Threshold ->
         Report(i, [mode |-> "open", failures |-> b.failures + 1, left |-> 0])
    [] OTHER -> Report(i, [b EXCEPT !.failures = @ + 1])

ResetTimeout(i) ==
  /\ breaker[i].mode = "open"
  /\ Report(i, [breaker[i] EXCEPT !.mode = "due"])
  /\ UNCHANGED <<funds, redis, queue, request, others, faults>>

-----------------------------------------------------------------------------
(* CheckBillingEligibility: Allow, GetUserBalance, checkBalanceEligibility. *)

LetsThrough(b) ==
  b.mode \in {"closed", "due"} \/ (b.mode = "half" /\ b.left > 0)

\* A refused client comes back with another request.
Arrive(r) ==
  LET i == At[r]
      b == breaker[i] IN
  /\ step[r] \in {"new", "refused"}
  /\ LetsThrough(b)
  /\ CASE b.mode = "closed" -> UNCHANGED breaker
       [] b.mode = "due"    -> Report(i, [b EXCEPT !.mode = "half", !.left = Trials - 1])
       [] b.mode = "half"   -> Report(i, [b EXCEPT !.left = @ - 1])
  /\ StepTo(r, "look")
  /\ UNCHANGED <<funds, redis, queue, got, exhausted, others, faults>>

Loading(i) == \E r \in Requests : At[r] = i /\ step[r] \in {"load", "store"}
AwaitingLoad(i) == {r \in Requests : At[r] = i /\ step[r] = "wait"}

\* The copy, or else the process' one load of the balance; also if Redis fails.
Look(r) ==
  /\ step[r] = "look"
  /\ \/ /\ copy # NoCopy
        /\ StepTo(r, "judge") /\ got' = [got EXCEPT ![r] = copy]
        /\ UNCHANGED faults
     \/ /\ IF copy = NoCopy THEN UNCHANGED faults ELSE Fault
        /\ StepTo(r, IF Loading(At[r]) THEN "wait" ELSE "load")
        /\ UNCHANGED got
  /\ UNCHANGED <<funds, redis, queue, breaker, exhausted, others>>

LoadBalance(r) ==
  /\ step[r] = "load"
  /\ \/ /\ StepTo(r, "store") /\ got' = [got EXCEPT ![r] = balance]
        /\ UNCHANGED faults
     \/ /\ Fault /\ UNCHANGED got
        /\ step' = [q \in Requests |->
             IF q \in AwaitingLoad(At[r]) \cup {r} THEN "failed" ELSE step[q]]
  /\ UNCHANGED <<funds, redis, queue, breaker, exhausted, others>>

Room(i) == BagCardinality(queue[i]) < QueueSize
Enqueue(i, t) == queue' = [queue EXCEPT ![i] = @ (+) SetToBag({t})]

\* The task to store the copy is dropped when the queue is full.
StoreBalance(r) ==
  LET all == AwaitingLoad(At[r]) \cup {r} IN
  /\ step[r] = "store"
  /\ IF Room(At[r]) THEN Enqueue(At[r], [kind |-> "set", amount |-> got[r]])
                    ELSE UNCHANGED queue
  /\ step' = [q \in Requests |-> IF q \in all THEN "judge" ELSE step[q]]
  /\ got' = [q \in Requests |-> IF q \in all THEN got[r] ELSE got[q]]
  /\ UNCHANGED <<funds, redis, breaker, exhausted, others, faults>>

Judge(r) ==
  /\ step[r] = "judge"
  /\ OnSuccess(At[r])
  /\ StepTo(r, IF Below(got[r]) THEN "refused" ELSE "serve")
  /\ got' = [got EXCEPT ![r] = NoCopy]
  /\ UNCHANGED <<funds, redis, queue, exhausted, others, faults>>

Unavailable(r) ==
  /\ step[r] = "failed"
  /\ OnFailure(At[r])
  /\ StepTo(r, "refused")
  /\ UNCHANGED <<funds, redis, queue, got, exhausted, others, faults>>

-----------------------------------------------------------------------------
(* The upstream's answer and applyUsageBilling. *)

Serve(r) ==
  /\ step[r] = "serve"
  /\ \E s \in {"charge", "ended"} : StepTo(r, s)
  /\ UNCHANGED <<funds, redis, queue, breaker, got, exhausted, others, faults>>

\* The transaction of Apply: the claim of the request's id, and the price.
Take(r) ==
  /\ balance' = balance - 1 /\ claims' = claims \cup {r}
  /\ charged' = [charged EXCEPT ![r] = @ + 1]
  /\ exhausted' = [exhausted EXCEPT ![r] = Below(balance')]

\* Slip: the price is taken in one transaction, the claim in the next.
LosesClaim(r) ==
  /\ balance' = balance - 1 /\ charged' = [charged EXCEPT ![r] = @ + 1]
  /\ UNCHANGED <<claims, exhausted>>

\* The commit whose answer is lost.
LosesAnswer(r) == Take(r)

\* One attempt of retryUsageBilling.  A later one that finds the id claimed
\* only reloads the caches; an error that is not transient gives up.
Charge(r) ==
  /\ step[r] = "charge"
  /\ \/ /\ r \notin claims /\ Take(r)
        /\ StepTo(r, "sync")
        /\ UNCHANGED <<redis, faults>>
     \/ /\ r \in claims /\ UNCHANGED <<funds, exhausted>>
        /\ StepTo(r, "resync")
        /\ UNCHANGED <<redis, faults>>
     \/ /\ Fault
        /\ UNCHANGED <<funds, exhausted>> \/ (r \notin claims /\ LosesAnswer(r))
        /\ \/ StepTo(r, "charge") /\ UNCHANGED redis
           \/ StepTo(r, "ended") /\ (IF r \in claims' THEN Keep ELSE UNCHANGED redis)
  /\ UNCHANGED <<queue, breaker, got, others>>

DeductCopy ==
  /\ copy' = IF copy = NoCopy THEN NoCopy ELSE copy - 1
  /\ UNCHANGED excused

DeleteOrFail == (Delete /\ UNCHANGED faults) \/ (Fault /\ Keep)

\* In the queue, or at once if that is full.
QueueDeduct(i) ==
  \/ /\ Room(i) /\ Enqueue(i, Deduct)
     /\ UNCHANGED <<redis, faults>>
  \/ /\ ~Room(i) /\ UNCHANGED queue
     /\ (DeductCopy /\ UNCHANGED faults) \/ (Fault /\ UNCHANGED redis)

\* Slip: what is left of the balance is not looked at.
SyncByQueue(r) ==
  /\ step[r] = "sync"
  /\ QueueDeduct(At[r])
  /\ StepTo(r, "billed")
  /\ UNCHANGED <<funds, breaker, got, exhausted, others>>

\* syncBalanceCacheAfterDeduction
Sync(r) ==
  /\ step[r] = "sync"
  /\ \/ /\ exhausted[r]
        /\ DeleteOrFail /\ UNCHANGED queue
     \/ /\ ~exhausted[r]
        /\ QueueDeduct(At[r])
  /\ StepTo(r, "billed")
  /\ UNCHANGED <<funds, breaker, got, exhausted, others>>

Resync(r) ==
  /\ step[r] = "resync"
  /\ DeleteOrFail
  /\ StepTo(r, "billed")
  /\ UNCHANGED <<funds, queue, breaker, got, exhausted, others>>

-----------------------------------------------------------------------------
(* The cache's workers, and what else happens to balance and copy. *)

\* A task is lost if it fails.
RunTask(i, t) ==
  /\ BagIn(t, queue[i])
  /\ queue' = [queue EXCEPT ![i] = @ (-) SetToBag({t})]
  /\ \/ /\ t.kind = "set"
        /\ copy' = t.amount /\ excused' = Below(balance)
        /\ UNCHANGED faults
     \/ t = Deduct /\ DeductCopy /\ UNCHANGED faults
     \/ Fault /\ UNCHANGED redis
  /\ UNCHANGED <<funds, breaker, request, others>>

Expire ==
  /\ copy # NoCopy /\ Delete
  /\ UNCHANGED <<funds, queue, breaker, request, others, faults>>

\* A payment, a code or a correction raises the balance and then deletes the
\* copy from a goroutine.
Credit ==
  /\ credits < MaxCredits /\ credits' = credits + 1
  /\ balance' = balance + 1 /\ untold' = untold + 1
  /\ UNCHANGED <<claims, charged, redis, queue, breaker, request, debits, faults>>

Tell ==
  /\ untold > 0 /\ untold' = untold - 1
  /\ (Delete /\ UNCHANGED faults) \/ (Fault /\ UNCHANGED redis)
  /\ UNCHANGED <<funds, queue, breaker, request, credits, debits>>

\* A refund or a hold leaves the copy as it is; a correction that lowers the
\* balance (UpdateUserBalance) deletes it afterwards, as a credit does.
Debit ==
  /\ debits < MaxDebits /\ debits' = debits + 1
  /\ balance > 0 /\ balance' = balance - 1
  /\ UNCHANGED untold \/ untold' = untold + 1
  /\ IF Below(balance') THEN Keep ELSE UNCHANGED redis
  /\ UNCHANGED <<claims, charged, queue, breaker, request, credits, faults>>

Unbilled(r) == r \in claims /\ step[r] \in {"charge", "sync", "resync"}

\* The process dies with its tasks, its breaker and its requests.
Crash(i) ==
  LET here == {r \in Requests : At[r] = i} IN
  /\ Fault
  /\ queue' = [queue EXCEPT ![i] = EmptyBag] /\ Report(i, Closed)
  /\ step' = [r \in Requests |->
       CASE r \in here /\ step[r] \in {"look", "load", "wait", "store", "judge", "failed"} -> "refused"
         [] r \in here /\ step[r] \in {"serve", "charge", "sync", "resync"} -> "ended"
         [] OTHER -> step[r]]
  /\ got' = [r \in Requests |-> IF r \in here THEN NoCopy ELSE got[r]]
  /\ IF \E r \in here : Unbilled(r) THEN Keep ELSE UNCHANGED redis
  /\ UNCHANGED <<funds, exhausted, others>>

-----------------------------------------------------------------------------
BillingNext ==
  \/ \E r \in Requests :
       Arrive(r) \/ Look(r) \/ LoadBalance(r) \/ StoreBalance(r) \/ Judge(r) \/ Unavailable(r)
       \/ Serve(r) \/ Charge(r) \/ Sync(r) \/ Resync(r)
  \/ \E i \in Instances :
       ResetTimeout(i) \/ Crash(i) \/ \E t \in Task : RunTask(i, t)
  \/ Expire \/ Credit \/ Tell \/ Debit

BillingSpec == BillingInit /\ [][BillingNext]_billingVars

\* Clients may stay away; what has begun goes on, tasks are run, a copy
\* reaches its end of life and a breaker its timeout.
BillingFairness ==
  /\ \A r \in Requests :
       WF_billingVars(Look(r) \/ LoadBalance(r) \/ StoreBalance(r) \/ Judge(r) \/ Unavailable(r)
               \/ Serve(r) \/ Charge(r) \/ Sync(r) \/ Resync(r))
  /\ \A i \in Instances :
       /\ WF_billingVars(ResetTimeout(i))
       /\ \A t \in Task : WF_billingVars(RunTask(i, t))
  /\ WF_billingVars(Expire) /\ WF_billingVars(Tell)

BillingFairSpec == BillingSpec /\ BillingFairness

-----------------------------------------------------------------------------
(* What is checked. *)

\* However often an attempt fails, or its answer is lost after the commit, a
\* request is charged once, and one that ends as billed has been: the claim of
\* its id and the price are in one transaction (Apply, retryUsageBilling).
ChargedOnce ==
  \A r \in Requests : charged[r] <= 1 /\ (step[r] = "billed" => charged[r] = 1)

\* A used-up balance is not admitted by an older copy, whatever order the
\* tasks run in: the charge that used it up deletes the copy before it ends
\* (syncBalanceCacheAfterDeduction).  It stays where that call failed or was
\* not reached, where the balance was lowered by a refund, a hold or a correction
\* that has not deleted the copy, and where a task stored an older balance after
\* the deletion.
ExhaustedIsRefused ==
  (Below(balance) /\ copy # NoCopy /\ ~Below(copy)) =>
    \/ excused
    \/ \E r \in Requests :
         Unbilled(r) /\ (step[r] = "sync" => exhausted[r])

\* A user who has enough is admitted again by every process, unless it is spent
\* before: the copy that refused him is deleted or expires, and the breaker
\* closes after any read of the balance, also one that refuses
\* (checkBalanceEligibility).
SolventIsServed ==
  \A i \in Instances :
    ~Below(balance) ~>
      \/ Below(balance)
      \/ LetsThrough(breaker[i]) /\ (copy = NoCopy \/ ~Below(copy))

-----------------------------------------------------------------------------
(* The inductive invariant that carries ChargedOnce and ExhaustedIsRefused.  *)

ShapeInv ==
  /\ balance \in Int /\ copy \in Int
  /\ claims \subseteq Requests /\ charged \in [Requests -> Nat]
  /\ step \in [Requests -> Step] /\ exhausted \in [Requests -> BOOLEAN]

\* A claimed request has been charged once, and no other; whoever goes on to
\* the copy has found its id claimed.
ClaimInv ==
  \A r \in Requests :
    /\ charged[r] = IF r \in claims THEN 1 ELSE 0
    /\ step[r] \in {"sync", "resync", "billed"} => r \in claims

ChargeInv == ShapeInv /\ ClaimInv /\ ExhaustedIsRefused
=============================================================================
