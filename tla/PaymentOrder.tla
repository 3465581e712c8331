---------------------------- MODULE PaymentOrder ----------------------------
(***************************************************************************)
(* The life of a recharge order, from its creation to the delivery of what *)
(* was bought, as payment_order.go, payment_order_lifecycle.go and         *)
(* payment_fulfillment.go run it.                                          *)
(*                                                                         *)
(* Orders are rows of one database.  Workers are request handlers and      *)
(* background jobs of all server instances; each runs one operation at a   *)
(* time and every database statement, database transaction or provider     *)
(* call of it is one step, so that two workers interleave exactly where    *)
(* the code lets them.  A worker may crash between any two steps.          *)
(*                                                                         *)
(* updated_at is a column every UPDATE of the row refreshes.  The code     *)
(* compares it in two ways: for equality with the value a worker read when *)
(* it took the fulfilment lease, and with now minus five minutes (both the *)
(* lease duration and the expiry grace).  fresh[o] is the set of workers   *)
(* whose remembered value still equals the column, stale[o] says whether   *)
(* the column is older than five minutes.                                  *)
(***************************************************************************)
EXTENDS Integers, FiniteSets, Faults

CONSTANTS
  Orders,         \* order ids, all of one user
  Subscription,   \* those that buy a subscription; the others buy balance
  Workers,        \* request handlers and background jobs
  MaxPending,     \* cfg.MaxPendingOrders
  DailyLimit,     \* cfg.DailyLimit in orders of equal amount
  Wxpay,          \* those paid by WeChat Pay
  MaxOrders       \* bound: how many of the orders are ever created

ASSUME OrdersAssumption ==
  Orders # {} /\ Subscription \subseteq Orders /\ Wxpay \subseteq Orders
ASSUME LimitsAssumption == MaxPending \in Nat \ {0} /\ DailyLimit \in Nat \ {0}
ASSUME FaultsAssumption == MaxOrders \in Nat /\ MaxFaults \in Nat

Status == {"NONE", "PENDING", "PAID", "RECHARGING", "COMPLETED",
           "EXPIRED", "CANCELLED", "FAILED"}

Upstream == {"none", "open", "closed", "exact", "short"}

Step == {"idle", "insert", "create", "record", "abort",
         "query", "void", "persist", "close", "confirm", "recheck",
         "acquire", "reload", "lookup", "make", "redeem", "assign",
         "rebate", "complete", "fail"}

Via == {"none", "create", "cancel", "expire", "verify", "webhook", "retry"}

VARIABLES
  status,         \* payment_orders.status, "NONE" before the row exists
  paidAt,         \* payment_orders.paid_at is set
  tradeNo,        \* payment_orders.payment_trade_no is the provider's number
  timedOut,       \* expires_at <= now
  stale,          \* updated_at <= now - 5 min
  fresh,          \* workers whose lease version equals updated_at
  upstream,       \* the provider's side of the order
  linked,         \* the user has been given the means to pay
  acked,          \* the provider got a success reply to its notification
  swallowed,      \* history: the first such reply stood for an error
  code,           \* the order's redeem code
  assigned,       \* audit row SUBSCRIPTION_ASSIGNED exists
  claimed,        \* audit row AFFILIATE_REBATE_APPLIED or _SKIPPED exists
  grants,         \* history: how often the purchase was delivered
  rebates,        \* history: how often the inviter was credited
  pc, job, via,   \* per worker: next step, order, operation
  seen            \* per worker: its copy of the row has the trade number

row     == <<status, paidAt, tradeNo, stale, fresh>>
outside == <<timedOut, upstream, linked, acked, swallowed>>
goods   == <<code, assigned, claimed, grants, rebates>>
worker  == <<pc, job, via, seen>>
vars    == <<row, outside, goods, worker, faults>>

TypeOK ==
  /\ status \in [Orders -> Status]
  /\ paidAt \in [Orders -> BOOLEAN]
  /\ tradeNo \in [Orders -> BOOLEAN]
  /\ timedOut \in [Orders -> BOOLEAN]
  /\ stale \in [Orders -> BOOLEAN]
  /\ fresh \in [Orders -> SUBSET Workers]
  /\ upstream \in [Orders -> Upstream]
  /\ linked \in [Orders -> BOOLEAN]
  /\ acked \in [Orders -> BOOLEAN]
  /\ swallowed \in [Orders -> BOOLEAN]
  /\ code \in [Orders -> {"absent", "unused", "used"}]
  /\ assigned \in [Orders -> BOOLEAN]
  /\ claimed \in [Orders -> BOOLEAN]
  /\ grants \in [Orders -> Nat]
  /\ rebates \in [Orders -> Nat]
  /\ pc \in [Workers -> Step]
  /\ job \in [Workers -> Orders]
  /\ via \in [Workers -> Via]
  /\ seen \in [Workers -> BOOLEAN]
  /\ faults \in Nat

Init ==
  /\ status = [o \in Orders |-> "NONE"]
  /\ paidAt = [o \in Orders |-> FALSE]
  /\ tradeNo = [o \in Orders |-> FALSE]
  /\ timedOut = [o \in Orders |-> FALSE]
  /\ stale = [o \in Orders |-> FALSE]
  /\ fresh = [o \in Orders |-> {}]
  /\ upstream = [o \in Orders |-> "none"]
  /\ linked = [o \in Orders |-> FALSE]
  /\ acked = [o \in Orders |-> FALSE]
  /\ swallowed = [o \in Orders |-> FALSE]
  /\ code = [o \in Orders |-> "absent"]
  /\ assigned = [o \in Orders |-> FALSE]
  /\ claimed = [o \in Orders |-> FALSE]
  /\ grants = [o \in Orders |-> 0]
  /\ rebates = [o \in Orders |-> 0]
  /\ pc = [w \in Workers |-> "idle"]
  /\ job = [w \in Workers |-> CHOOSE o \in Orders : TRUE]
  /\ via = [w \in Workers |-> "none"]
  /\ seen = [w \in Workers |-> FALSE]
  /\ faults = 0

-----------------------------------------------------------------------------
(* What the steps are made of.  An operator introduced as a slip is no part of *)
(* the program: it is the definition after it with a mistake a change to the   *)
(* code could bring in, kept to show which property would notice.              *)

\* A worker takes up an operation on an order.
Begin(w, o, v, at) ==
  /\ pc[w] = "idle"
  /\ pc' = [pc EXCEPT ![w] = at]
  /\ job' = [job EXCEPT ![w] = o]
  /\ via' = [via EXCEPT ![w] = v]
  /\ seen' = [seen EXCEPT ![w] = tradeNo[o]]

Goto(w, at) ==
  /\ pc' = [pc EXCEPT ![w] = at]
  /\ UNCHANGED <<job, via, seen>>

\* The operation ends and the worker forgets what it read.
Stop(w) ==
  /\ pc' = [pc EXCEPT ![w] = "idle"]
  /\ via' = [via EXCEPT ![w] = "none"]
  /\ seen' = [seen EXCEPT ![w] = FALSE]
  /\ UNCHANGED job

\* The operation ends with success (ok) or an error.  Only success is
\* acknowledged to a provider whose notification started it.
Reply(w, ok) ==
  /\ Stop(w)
  /\ acked' = IF ok /\ via[w] = "webhook" THEN [acked EXCEPT ![job[w]] = TRUE] ELSE acked
  /\ UNCHANGED <<timedOut, upstream, linked, swallowed>>

\* A notification is acknowledged because of an error.
Swallow(o) ==
  /\ acked' = [acked EXCEPT ![o] = TRUE]
  /\ swallowed' = [swallowed EXCEPT ![o] = @ \/ ~acked[o]]
  /\ UNCHANGED <<timedOut, upstream, linked>>

\* Slip: an UPDATE that leaves updated_at alone.
WriteSameVersion(o, s) ==
  /\ status' = [status EXCEPT ![o] = s]
  /\ UNCHANGED <<stale, fresh>>

\* Any UPDATE of the row also refreshes updated_at.
Write(o, s) ==
  /\ status' = [status EXCEPT ![o] = s]
  /\ stale' = [stale EXCEPT ![o] = FALSE]
  /\ fresh' = [fresh EXCEPT ![o] = {}]

Pending == {o \in Orders : status[o] = "PENDING"}
PaidToday == {o \in Orders : paidAt[o] /\ status[o] \in {"PAID", "RECHARGING", "COMPLETED"}}
LeaseSteps == {"reload", "lookup", "make", "redeem", "assign", "rebate", "complete", "fail"}
Busy(o) == \E w \in Workers : job[w] = o /\ pc[w] \in LeaseSteps

-----------------------------------------------------------------------------
(* CreateOrder: limits, insert, provider call, provider's answer. *)

Begun(o) == status[o] # "NONE" \/ \E w \in Workers : pc[w] = "insert" /\ job[w] = o

\* checkPendingLimit and checkDailyLimit, counted before the insert.
CheckLimits(w, o) ==
  /\ ~Begun(o) /\ Cardinality({p \in Orders : Begun(p)}) < MaxOrders
  /\ Cardinality(Pending) < MaxPending
  /\ Cardinality(PaidToday) + 1 <= DailyLimit
  /\ Begin(w, o, "create", "insert")
  /\ UNCHANGED <<row, outside, goods, faults>>

InsertOrder(w) ==
  /\ pc[w] = "insert"
  /\ Write(job[w], "PENDING")
  /\ Goto(w, "create")
  /\ UNCHANGED <<paidAt, tradeNo, outside, goods, faults>>

\* The provider may have opened its order although the call reports an error.
CreatePayment(w) ==
  /\ pc[w] = "create"
  /\ \/ /\ upstream' = [upstream EXCEPT ![job[w]] = "open"]
        /\ \E at \in {"record", "abort"} : Goto(w, at)
     \/ /\ Goto(w, "abort")
        /\ UNCHANGED upstream
  /\ UNCHANGED <<row, timedOut, linked, acked, swallowed, goods, faults>>

\* Whatever the status has become, the row takes the provider's data; the
\* answer then gives the user the link.
RecordPayment(w) ==
  /\ pc[w] = "record"
  /\ \/ /\ Write(job[w], status[job[w]])
        /\ tradeNo' \in {tradeNo, [tradeNo EXCEPT ![job[w]] = TRUE]}
        /\ linked' = [linked EXCEPT ![job[w]] = TRUE]
        /\ Stop(w)
        /\ UNCHANGED <<paidAt, faults>>
     \/ /\ Fault
        /\ Goto(w, "abort")
        /\ UNCHANGED <<row, linked>>
  /\ UNCHANGED <<timedOut, upstream, acked, swallowed, goods>>

\* UpdateOneID(order.ID).SetStatus(FAILED): no condition on the status.
AbortOrder(w) ==
  /\ pc[w] = "abort"
  /\ Write(job[w], "FAILED")
  /\ Stop(w)
  /\ UNCHANGED <<paidAt, tradeNo, outside, goods, faults>>

-----------------------------------------------------------------------------
(* The user, the provider and the clock. *)

\* The user pays what was asked, or the provider books another amount.
Pay(o) ==
  /\ linked[o] /\ upstream[o] = "open"
  /\ \E amount \in {"exact", "short"} :
        upstream' = [upstream EXCEPT ![o] = amount]
  /\ UNCHANGED <<row, timedOut, linked, acked, swallowed, goods, worker, faults>>

OrderTimesOut(o) ==
  /\ status[o] = "PENDING" /\ ~timedOut[o]
  /\ timedOut' = [timedOut EXCEPT ![o] = TRUE]
  /\ UNCHANGED <<row, upstream, linked, acked, swallowed, goods, worker, faults>>

\* Five minutes pass since the last update of the row.
Age(o) ==
  /\ status[o] \in {"EXPIRED", "RECHARGING"} /\ ~stale[o]
  /\ stale' = [stale EXCEPT ![o] = TRUE]
  /\ UNCHANGED <<status, paidAt, tradeNo, fresh, outside, goods, worker>>

RowAges(o)     == ~Busy(o) /\ Age(o) /\ UNCHANGED faults
WorkerStalls(o) == Busy(o) /\ Fault /\ Age(o)

Crash(w) ==
  /\ pc[w] # "idle" /\ Fault
  /\ Stop(w)
  /\ fresh' = [o \in Orders |-> fresh[o] \ {w}]
  /\ UNCHANGED <<status, paidAt, tradeNo, stale, outside, goods>>

-----------------------------------------------------------------------------
(* CancelOrder, AdminCancelOrder, ExpireTimedOutOrders, VerifyOrderByOutTradeNo *)
(* and ReconcilePendingWxpayOrders: ask the provider, then act.               *)

Cancel(w, o) ==
  /\ status[o] = "PENDING"
  /\ Begin(w, o, "cancel", "query")
  /\ UNCHANGED <<row, outside, goods, faults>>

Expire(w, o) ==
  /\ status[o] = "PENDING" /\ timedOut[o]
  /\ Begin(w, o, "expire", "query")
  /\ UNCHANGED <<row, outside, goods, faults>>

\* The user's VerifyOrderByOutTradeNo; ReconcilePendingWxpayOrders does the
\* same for pending orders only.
Verify(w, o) ==
  /\ status[o] \in {"PENDING", "EXPIRED"}
  /\ Begin(w, o, "verify", "query")
  /\ UNCHANGED <<row, outside, goods, faults>>

UpstreamPaid(o) == upstream[o] \in {"exact", "short"}

\* checkPaidWithOptions.  An answer "paid" is passed on even when the copy of
\* the row is out of date; an answer "unpaid" or no answer lets a cancellation
\* or expiry go on.  The provider's number is persisted when the copy lacks it
\* and it differs from the number used for the query.
QueryUpstream(w) ==
  /\ pc[w] = "query"
  /\ \/ /\ UpstreamPaid(job[w])
        /\ \/ Goto(w, "confirm")
           \/ ~seen[w] /\ Goto(w, "persist")
        /\ UNCHANGED faults
     \/ /\ ~UpstreamPaid(job[w])
        /\ IF via[w] = "verify" THEN Stop(w) ELSE Goto(w, "void")
        /\ UNCHANGED faults
     \/ /\ Fault
        /\ IF via[w] = "verify" THEN Stop(w) ELSE Goto(w, "close")
  /\ UNCHANGED <<row, outside, goods>>

\* CancelPayment, whose error is ignored.
VoidUpstream(w) ==
  /\ pc[w] = "void"
  /\ \/ /\ upstream[job[w]] = "open"
        /\ upstream' = [upstream EXCEPT ![job[w]] = "closed"]
     \/ UNCHANGED upstream
  /\ Goto(w, "close")
  /\ UNCHANGED <<row, timedOut, linked, acked, swallowed, goods, faults>>

PersistTradeNo(w) ==
  /\ pc[w] = "persist"
  /\ Write(job[w], status[job[w]])
  /\ tradeNo' = [tradeNo EXCEPT ![job[w]] = TRUE]
  /\ pc' = [pc EXCEPT ![w] = "confirm"]
  /\ seen' = [seen EXCEPT ![w] = TRUE]
  /\ UNCHANGED <<paidAt, outside, goods, job, via, faults>>

Target(w) == IF via[w] = "expire" THEN "EXPIRED" ELSE "CANCELLED"

\* Slip: the row is closed whatever its status has become.
CloseAnyOrder(w) ==
  /\ pc[w] = "close"
  /\ Write(job[w], Target(w))
  /\ Stop(w)
  /\ UNCHANGED <<paidAt, tradeNo, outside, goods, faults>>

CloseOrder(w) ==
  /\ pc[w] = "close"
  /\ IF status[job[w]] = "PENDING"
       THEN Write(job[w], Target(w))
       ELSE UNCHANGED <<status, stale, fresh>>
  /\ Stop(w)
  /\ UNCHANGED <<paidAt, tradeNo, outside, goods, faults>>

-----------------------------------------------------------------------------
(* HandlePaymentNotification: confirmPayment, toPaid, alreadyProcessed. *)

\* Providers notify a payment at least once, and again until acknowledged.
Notify(w, o) ==
  /\ UpstreamPaid(o)
  /\ Begin(w, o, "webhook", "confirm")
  /\ UNCHANGED <<row, outside, goods, faults>>

\* Slip: whatever was paid will do.
PaidAtAll(o) == UpstreamPaid(o)

PaidInFull(o) == upstream[o] = "exact"

RejectAmount(w) ==
  /\ pc[w] = "confirm" /\ ~PaidInFull(job[w])
  /\ Reply(w, FALSE)
  /\ UNCHANGED <<row, goods, faults>>

\* The conditions of toPaid's UPDATE.
Payable(o) ==
  \/ status[o] \in {"PENDING", "CANCELLED"}
  \/ status[o] = "EXPIRED" /\ ~stale[o]

ToPaid(w) ==
  /\ pc[w] = "confirm" /\ PaidInFull(job[w])
  /\ IF Payable(job[w])
       THEN /\ Write(job[w], "PAID")
            /\ paidAt' = [paidAt EXCEPT ![job[w]] = TRUE]
            /\ tradeNo' = [tradeNo EXCEPT ![job[w]] = via[w] = "webhook" \/ seen[w]]
            /\ Goto(w, "acquire")
       ELSE /\ Goto(w, "recheck")
            /\ UNCHANGED <<status, stale, fresh, paidAt, tradeNo>>
  /\ UNCHANGED <<outside, goods, faults>>

AlreadyProcessed(w) ==
  /\ pc[w] = "recheck"
  /\ IF status[job[w]] \in {"FAILED", "PAID", "RECHARGING"}
       THEN Goto(w, "acquire") /\ UNCHANGED outside
       ELSE Reply(w, TRUE)
  /\ UNCHANGED <<row, goods, faults>>

\* confirmPayment and alreadyProcessed answer nil when they cannot read the
\* order: the provider takes that for success.
SwallowReadError(w) ==
  /\ pc[w] \in {"confirm", "recheck"} /\ Fault
  /\ Stop(w)
  /\ IF via[w] = "webhook" THEN Swallow(job[w]) ELSE UNCHANGED outside
  /\ UNCHANGED <<row, goods>>

\* handleNotify looks for the provider that can verify the notification before
\* it does anything else, and but for WeChat Pay answers success if that fails.
SwallowProviderError(o) ==
  /\ UpstreamPaid(o) /\ ~acked[o] /\ o \notin Wxpay /\ Fault
  /\ Swallow(o)
  /\ UNCHANGED <<row, goods, worker>>

RetryFulfillment(w, o) ==
  /\ paidAt[o] /\ status[o] \in {"FAILED", "PAID", "RECHARGING"}
  /\ Begin(w, o, "retry", "acquire")
  /\ UNCHANGED <<row, outside, goods, faults>>

-----------------------------------------------------------------------------
(* executeFulfillment under the fulfilment lease. *)

\* Slip: a lease nobody takes over.
LeaseNeverExpires(o) == status[o] \in {"PAID", "FAILED"}

\* The conditions of acquirePaymentFulfillmentLease's UPDATE.
LeaseIsFree(o) ==
  \/ status[o] \in {"PAID", "FAILED"}
  \/ status[o] = "RECHARGING" /\ stale[o]

AcquireLease(w) ==
  /\ pc[w] = "acquire"
  /\ LET o == job[w] IN
       IF LeaseIsFree(o)
         THEN /\ Write(o, "RECHARGING")
              /\ Goto(w, "reload")
              /\ UNCHANGED outside
         ELSE /\ Reply(w, status[o] = "COMPLETED")
              /\ UNCHANGED <<status, stale, fresh>>
  /\ UNCHANGED <<paidAt, tradeNo, goods, faults>>

\* The lease version is the updated_at of a second read, not the one written.
ReloadLease(w) ==
  /\ pc[w] = "reload"
  /\ LET o == job[w] IN
       IF status[o] = "RECHARGING"
         THEN /\ fresh' = [fresh EXCEPT ![o] = @ \cup {w}]
              /\ Goto(w, IF o \in Subscription THEN "assign" ELSE "lookup")
              /\ UNCHANGED outside
         ELSE /\ Reply(w, FALSE)
              /\ UNCHANGED fresh
  /\ UNCHANGED <<status, paidAt, tradeNo, stale, goods, faults>>

\* resolveRedeemAction; a failed lookup counts as "no such code".
LookupCode(w) ==
  /\ pc[w] = "lookup"
  /\ \/ /\ Goto(w, CASE code[job[w]] = "used"   -> "rebate"
                     [] code[job[w]] = "unused" -> "redeem"
                     [] OTHER                   -> "make")
        /\ UNCHANGED faults
     \/ Fault /\ Goto(w, "make")
  /\ UNCHANGED <<row, outside, goods>>

CreateCode(w) ==
  /\ pc[w] = "make"
  /\ IF code[job[w]] = "absent"
       THEN /\ code' = [code EXCEPT ![job[w]] = "unused"]
            /\ Goto(w, "redeem")
       ELSE Goto(w, "fail") /\ UNCHANGED code
  /\ UNCHANGED <<row, outside, assigned, claimed, grants, rebates, faults>>

\* Slip: Use without "status = unused" in its WHERE.
RedeemUsedCode(w) ==
  /\ pc[w] = "redeem"
  /\ code' = [code EXCEPT ![job[w]] = "used"]
  /\ grants' = [grants EXCEPT ![job[w]] = @ + 1]
  /\ Goto(w, "rebate")
  /\ UNCHANGED <<row, outside, assigned, claimed, rebates, faults>>

\* Redeem: one transaction marks the code used and credits the balance.  An
\* error can also be reported after the commit.
RedeemCode(w) ==
  /\ pc[w] = "redeem"
  /\ IF code[job[w]] = "unused"
       THEN /\ code' = [code EXCEPT ![job[w]] = "used"]
            /\ grants' = [grants EXCEPT ![job[w]] = @ + 1]
            /\ \/ Goto(w, "rebate") /\ UNCHANGED faults
               \/ Goto(w, "fail") /\ Fault
       ELSE /\ Goto(w, "fail")
            /\ UNCHANGED <<code, grants, faults>>
  /\ UNCHANGED <<row, outside, assigned, claimed, rebates>>

\* Slip: the audit row is not looked at before assigning.
AssignAgain(w) ==
  /\ pc[w] = "assign"
  /\ assigned' = [assigned EXCEPT ![job[w]] = TRUE]
  /\ grants' = [grants EXCEPT ![job[w]] = @ + 1]
  /\ Goto(w, "rebate")
  /\ UNCHANGED <<row, outside, code, claimed, rebates, faults>>

\* ensurePaymentSubscriptionAssigned: the audit row and the assignment commit
\* together; an error can be reported after the commit (cache invalidation).
AssignSubscription(w) ==
  /\ pc[w] = "assign"
  /\ IF assigned[job[w]]
       THEN UNCHANGED <<assigned, grants>>
       ELSE /\ assigned' = [assigned EXCEPT ![job[w]] = TRUE]
            /\ grants' = [grants EXCEPT ![job[w]] = @ + 1]
  /\ \/ Goto(w, "rebate") /\ UNCHANGED faults
     \/ Goto(w, "fail") /\ Fault
  /\ UNCHANGED <<row, outside, code, claimed, rebates>>

\* Slip: the error of a delivery or rebate is dropped.
IgnoreDeliveryError(w) ==
  /\ pc[w] \in {"make", "redeem", "assign", "rebate"} /\ Fault
  /\ Goto(w, IF pc[w] = "rebate" THEN "complete" ELSE "rebate")
  /\ UNCHANGED <<row, outside, goods>>

\* An error inside a delivery or rebate transaction rolls it back.
DeliveryFails(w) ==
  /\ pc[w] \in {"make", "redeem", "assign", "rebate"} /\ Fault
  /\ Goto(w, "fail")
  /\ UNCHANGED <<row, outside, goods>>

ApplyRebate(w) ==
  /\ pc[w] = "rebate"
  /\ IF claimed[job[w]]
       THEN UNCHANGED <<claimed, rebates>>
       ELSE /\ claimed' = [claimed EXCEPT ![job[w]] = TRUE]
            /\ rebates' = [rebates EXCEPT ![job[w]] = @ + 1]
  /\ Goto(w, "complete")
  /\ UNCHANGED <<row, outside, code, assigned, grants, faults>>

HoldsLease(w) == status[job[w]] = "RECHARGING" /\ w \in fresh[job[w]]

MarkCompleted(w) ==
  /\ pc[w] = "complete"
  /\ IF HoldsLease(w)
       THEN Write(job[w], "COMPLETED") /\ Reply(w, TRUE)
       ELSE /\ IF status[job[w]] = "COMPLETED"
                 THEN Reply(w, TRUE)
                 ELSE Goto(w, "fail") /\ UNCHANGED outside
            /\ UNCHANGED <<status, stale, fresh>>
  /\ UNCHANGED <<paidAt, tradeNo, goods, faults>>

MarkFailed(w) ==
  /\ pc[w] = "fail"
  /\ IF HoldsLease(w)
       THEN Write(job[w], "FAILED")
       ELSE UNCHANGED <<status, stale, fresh>>
  /\ Reply(w, FALSE)
  /\ UNCHANGED <<paidAt, tradeNo, goods, faults>>

-----------------------------------------------------------------------------

Arrive(w, o) ==
  CheckLimits(w, o) \/ Cancel(w, o) \/ Expire(w, o) \/ Verify(w, o)
    \/ Notify(w, o) \/ RetryFulfillment(w, o)

Create(w)  == InsertOrder(w) \/ CreatePayment(w) \/ RecordPayment(w) \/ AbortOrder(w)
Check(w)   == QueryUpstream(w) \/ VoidUpstream(w) \/ PersistTradeNo(w) \/ CloseOrder(w)
Confirm(w) == RejectAmount(w) \/ ToPaid(w) \/ AlreadyProcessed(w) \/ SwallowReadError(w)
Fulfil(w)  == \/ AcquireLease(w) \/ ReloadLease(w) \/ LookupCode(w) \/ CreateCode(w)
              \/ RedeemCode(w) \/ AssignSubscription(w) \/ DeliveryFails(w)
              \/ ApplyRebate(w) \/ MarkCompleted(w) \/ MarkFailed(w)

Proceed(w)     == Create(w) \/ Check(w) \/ Confirm(w) \/ Fulfil(w)
Environment(o) == Pay(o) \/ OrderTimesOut(o) \/ RowAges(o) \/ WorkerStalls(o)

Next ==
  \/ \E w \in Workers, o \in Orders : Arrive(w, o)
  \/ \E w \in Workers : Proceed(w) \/ Crash(w)
  \/ \E o \in Orders : Environment(o) \/ SwallowProviderError(o)

Spec == Init /\ [][Next]_vars

(* A started operation goes on; a row nobody works on ages; a provider      *)
(* repeats its notification until it is acknowledged.                       *)
Redeliver(o) == ~acked[o] /\ \E w \in Workers : Notify(w, o)

Fairness ==
  /\ \A w \in Workers : WF_vars(Proceed(w))
  /\ \A o \in Orders : WF_vars(RowAges(o))
  /\ \A o \in Orders : SF_vars(Redeliver(o))

FairSpec == Spec /\ Fairness

-----------------------------------------------------------------------------
(* What must hold. *)

\* However many webhooks, retries, lease thefts and crashes there are, an
\* order's purchase and its inviter's rebate are each given at most once.
DeliveredAtMostOnce ==
  \A o \in Orders : grants[o] <= 1 /\ rebates[o] <= 1

\* COMPLETED is written only after the purchase was delivered and the rebate
\* claimed, also when the worker that writes it did neither itself.
CompletedIsDelivered ==
  \A o \in Orders : status[o] = "COMPLETED" => grants[o] = 1 /\ rebates[o] = 1

\* Nothing is delivered unless the provider holds the exact amount.
DeliveredOnlyIfPaid ==
  \A o \in Orders : grants[o] > 0 \/ rebates[o] > 0 => upstream[o] = "exact"

\* A paid order is never closed again: a cancellation or expiry decided on an
\* old answer, or a late failure report of CreateOrder, does not undo it, and
\* COMPLETED is final.
PaidStaysPaid ==
  [][\A o \in Orders :
       paidAt[o] => /\ paidAt'[o]
                    /\ status'[o] \in {"PAID", "RECHARGING", "FAILED", "COMPLETED"}
                    /\ status[o] = "COMPLETED" => status'[o] = "COMPLETED"]_vars

\* Lease versions are meaningful: somebody's version equals updated_at only
\* while the order is RECHARGING and that worker is inside the fulfilment.
LeaseIsCurrent ==
  \A o \in Orders : \A w \in fresh[o] :
     status[o] = "RECHARGING" /\ job[w] = o /\ pc[w] \in LeaseSteps

\* A payment the provider still reports (it was not told "success") reaches
\* COMPLETED, whatever crashed, failed or lost its lease on the way; but not if
\* an error is answered with success: then nobody comes back to the order.
PaidIsDelivered ==
  \A o \in Orders :
    (paidAt[o] /\ ~acked[o]) ~> (status[o] = "COMPLETED" \/ swallowed[o])

\* The abstract view of an order.  A FAILED order without paid_at is one whose
\* creation failed.
StageOf(s, paid) ==
  CASE s = "NONE" -> "none"
    [] s = "PENDING" -> "open"
    [] s = "COMPLETED" -> "settled"
    [] s \in {"CANCELLED", "EXPIRED"} -> "closed"
    [] s = "FAILED" /\ ~paid -> "closed"
    [] OTHER -> "paid"

Promise == INSTANCE PaymentPromise WITH
  stage     <- [o \in Orders |-> StageOf(status[o], paidAt[o])],
  received  <- [o \in Orders |-> upstream[o] = "exact"],
  delivered <- grants,
  credited  <- rebates

\* The order machinery keeps the service's promise: every step of a worker,
\* of the user or of a fault is a step of the abstract specification or none.
KeepsPromise == Promise!PromiseSpec

=============================================================================
