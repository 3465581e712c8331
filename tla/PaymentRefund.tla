---------------------------- MODULE PaymentRefund ---------------------------
(***************************************************************************)
(* Refunds of completed balance orders: RequestRefund, PrepareRefund with  *)
(* ExecuteRefund, and QueryAndFinalizeRefund of payment_refund.go.         *)
(*                                                                         *)
(* A refund takes the money back from the user's balance, asks the payment *)
(* provider to return it, and gives the balance back when the provider     *)
(* refuses or has not decided yet.  The row's status REFUNDING is its only *)
(* lock.  Every statement, transaction or provider call is one step of a   *)
(* worker; other refunds, the user's spending, and crashes come in         *)
(* between.  payment_audit_logs is unique in (order_id, action), so only   *)
(* the first row of an action exists and a later one is lost silently.     *)
(***************************************************************************)
EXTENDS Integers, FiniteSets, FiniteSetsExt, Faults

CONSTANTS
  Orders,       \* completed balance orders of one user
  Workers,      \* admin and user requests
  Amount,       \* what each order credited, in indivisible units
  Idempotent,   \* the provider knows a repeated refund by order and amount
  MaxAttempts,  \* refunds of equal amount a provider can tell apart
  MaxRefunds,   \* bound: how many refunds are attempted in all
  MaxSpend      \* bound: how much the user spends

ASSUME PeopleAssumption == IsFiniteSet(Orders) /\ Orders # {} /\ IsFiniteSet(Workers)
ASSUME AmountAssumption == Amount \in Nat \ {0}
ASSUME BoundsAssumption == MaxRefunds \in Nat \ {0} /\ MaxSpend \in Nat /\ MaxFaults \in Nat
ASSUME ProviderAssumption ==
  /\ Idempotent \in BOOLEAN
  /\ MaxAttempts \in Nat \ {0}
  /\ MaxAttempts = IF Idempotent THEN 1 ELSE MaxRefunds

Status == {"COMPLETED", "REFUND_REQUESTED", "REFUNDING", "REFUND_PENDING",
           "PARTIALLY_REFUNDED", "REFUNDED", "REFUND_FAILED"}
\* Slip: a refunded order can be refunded again.
AlwaysRefundable == Status \ {"REFUNDING"}

Refundable == {"COMPLETED", "REFUND_REQUESTED", "REFUND_PENDING", "REFUND_FAILED"}
Final == {"PARTIALLY_REFUNDED", "REFUNDED"}

\* A refund at the provider: its amount and which of its kind it is.
RefundIds == (1..Amount) \X (1..MaxAttempts)
PendingLogs == [id : RefundIds, undone : BOOLEAN]

Step == {"idle", "request", "lock", "deduct", "gateway", "undoFail", "restore",
         "setFailed", "setOk", "undoPending", "setPending", "logPending",
         "query", "finalOk", "finalFail"}

VARIABLES
  status,        \* payment_orders.status
  refundAmount,  \* payment_orders.refund_amount
  tradeNo,       \* payment_orders.payment_trade_no is set
  pendingLog,    \* the audit row REFUND_PENDING, a set of at most one
  rollbackLog,   \* the audit row REFUND_ROLLBACK_FAILED exists
  successLog,    \* the audit row REFUND_SUCCESS exists
  balance,       \* users.balance
  recharged,     \* users.total_recharged
  gateway,       \* per order and refund id: what the provider has done
  spent,         \* history: how much the user has spent
  taken,         \* history: per order, what refunds have taken from the balance
  pc, job,       \* per worker: next step and order
  was,           \* per worker: the status it planned from
  amt,           \* per worker: refund amount
  take,          \* per worker: plan.BalanceToDeduct
  rid,           \* per worker: the provider's refund id
  attempts       \* how many refunds were planned so far

row     == <<status, refundAmount, tradeNo>>
logs    == <<pendingLog, rollbackLog, successLog>>
purse   == <<balance, recharged, spent, taken>>
plan    == <<was, amt, take, rid>>
vars    == <<row, logs, purse, gateway, pc, job, plan, attempts, faults>>

TypeOK ==
  /\ status \in [Orders -> Status]
  /\ refundAmount \in [Orders -> 0..Amount]
  /\ tradeNo \in [Orders -> BOOLEAN]
  /\ pendingLog \in [Orders -> SUBSET PendingLogs]
  /\ rollbackLog \in [Orders -> BOOLEAN]
  /\ successLog \in [Orders -> BOOLEAN]
  /\ balance \in Int /\ recharged \in Nat /\ spent \in Nat
  /\ taken \in [Orders -> Int]
  /\ gateway \in [Orders -> [RefundIds -> {"none", "pending", "done", "failed"}]]
  /\ pc \in [Workers -> Step]
  /\ job \in [Workers -> Orders]
  /\ was \in [Workers -> Status]
  /\ amt \in [Workers -> 0..Amount]
  /\ take \in [Workers -> 0..Amount]
  /\ rid \in [Workers -> RefundIds]
  /\ attempts \in Nat /\ faults \in Nat

Init ==
  /\ status = [o \in Orders |-> "COMPLETED"]
  /\ refundAmount = [o \in Orders |-> 0]
  /\ tradeNo \in [Orders -> BOOLEAN]
  /\ pendingLog = [o \in Orders |-> {}]
  /\ rollbackLog = [o \in Orders |-> FALSE]
  /\ successLog = [o \in Orders |-> FALSE]
  /\ balance = Amount * Cardinality(Orders)
  /\ recharged = Amount * Cardinality(Orders)
  /\ spent = 0
  /\ taken = [o \in Orders |-> 0]
  /\ gateway = [o \in Orders |-> [k \in RefundIds |-> "none"]]
  /\ pc = [w \in Workers |-> "idle"]
  /\ job = [w \in Workers |-> CHOOSE o \in Orders : TRUE]
  /\ was = [w \in Workers |-> "COMPLETED"]
  /\ amt = [w \in Workers |-> 0]
  /\ take = [w \in Workers |-> 0]
  /\ rid = [w \in Workers |-> <<1, 1>>]
  /\ attempts = 0 /\ faults = 0

-----------------------------------------------------------------------------
(* What the steps are made of.  An operator introduced as a slip is no part of *)
(* the program: it is the definition after it with a mistake a change to the   *)
(* code could bring in, kept to show which property would notice.              *)

Goto(w, at) == pc' = [pc EXCEPT ![w] = at] /\ UNCHANGED job

\* The operation ends and the worker forgets its plan.
Stop(w) ==
  /\ Goto(w, "idle")
  /\ was' = [was EXCEPT ![w] = "COMPLETED"]
  /\ amt' = [amt EXCEPT ![w] = 0]
  /\ take' = [take EXCEPT ![w] = 0]
  /\ rid' = [rid EXCEPT ![w] = <<1, 1>>]

SetStatus(o, s) == status' = [status EXCEPT ![o] = s]
SetAmount(o, a) == refundAmount' = [refundAmount EXCEPT ![o] = a]

Least(a, b) == IF a <= b THEN a ELSE b
Most(a, b)  == IF a <= b THEN b ELSE a

\* DeductAvailableBalance: at most what is there, and never into the negative.
Available(a) == Least(a, Most(balance, 0))
Deduct(o, a) ==
  /\ balance' = balance - a
  /\ taken' = [taken EXCEPT ![o] = @ + a]
  /\ UNCHANGED <<recharged, spent>>

\* UpdateBalance with a positive amount also counts it as recharged.
GiveBack(o, a) ==
  /\ balance' = balance + a
  /\ recharged' = recharged + a
  /\ taken' = [taken EXCEPT ![o] = @ - a]
  /\ UNCHANGED spent

\* Slip: a rollback that gives back the refund instead of what was taken.
UndoPlanned(w) == GiveBack(job[w], amt[w])

\* Slip: a rollback that does nothing.
UndoNothing(w) == UNCHANGED purse

\* RollbackRefund, when it works.
Undo(w) == GiveBack(job[w], take[w])

RefundedStatus(a) == IF a < Amount THEN "PARTIALLY_REFUNDED" ELSE "REFUNDED"

-----------------------------------------------------------------------------
(* The user's side and the provider's. *)

\* A request may cost more than the balance; at zero none is let in.
Spend(cost) ==
  /\ balance > 0 /\ spent + cost <= MaxSpend
  /\ balance' = balance - cost
  /\ spent' = spent + cost
  /\ UNCHANGED <<row, logs, recharged, taken, gateway, pc, job, plan, faults, attempts>>

GatewaySettles(o, k) ==
  /\ gateway[o][k] = "pending"
  /\ \E s \in {"done", "failed"} : gateway' = [gateway EXCEPT ![o][k] = s]
  /\ UNCHANGED <<row, logs, purse, pc, job, plan, faults, attempts>>

\* RequestRefund: the checks, then the conditional update.
RequestRefund(w, o) ==
  /\ pc[w] = "idle" /\ status[o] = "COMPLETED"
  /\ balance >= Amount
  /\ pc' = [pc EXCEPT ![w] = "request"]
  /\ job' = [job EXCEPT ![w] = o]
  /\ UNCHANGED <<row, logs, purse, gateway, plan, faults, attempts>>

MarkRequested(w) ==
  /\ pc[w] = "request"
  /\ IF status[job[w]] = "COMPLETED"
       THEN SetStatus(job[w], "REFUND_REQUESTED") /\ SetAmount(job[w], Amount)
       ELSE UNCHANGED <<status, refundAmount>>
  /\ Stop(w)
  /\ UNCHANGED <<tradeNo, logs, purse, gateway, faults, attempts>>

Crash(w) ==
  /\ pc[w] # "idle" /\ Fault
  /\ Stop(w)
  /\ UNCHANGED <<row, logs, purse, gateway, attempts>>

-----------------------------------------------------------------------------
(* PrepareRefund and ExecuteRefund. *)

\* The plan is made from what is read now; nothing is locked yet.
PrepareRefund(w, o, a, force, takeBack) ==
  /\ pc[w] = "idle" /\ status[o] \in Refundable
  /\ takeBack => balance >= a \/ force
  /\ pc' = [pc EXCEPT ![w] = "lock"]
  /\ job' = [job EXCEPT ![w] = o]
  /\ was' = [was EXCEPT ![w] = status[o]]
  /\ amt' = [amt EXCEPT ![w] = a]
  /\ take' = [take EXCEPT ![w] = IF takeBack THEN Available(a) ELSE 0]
  /\ attempts < MaxRefunds /\ attempts' = attempts + 1
  /\ UNCHANGED <<row, logs, purse, gateway, rid, faults>>

LockRefund(w) ==
  /\ pc[w] = "lock"
  /\ IF status[job[w]] \in Refundable
       THEN /\ SetStatus(job[w], "REFUNDING")
            /\ Goto(w, IF take[w] > 0 THEN "deduct" ELSE "gateway")
            /\ UNCHANGED plan
       ELSE Stop(w) /\ UNCHANGED status
  /\ UNCHANGED <<refundAmount, tradeNo, logs, purse, gateway, faults, attempts>>

\* Skipped when an earlier attempt took the money and could not give it back.
DeductBalance(w) ==
  /\ pc[w] = "deduct"
  /\ \/ /\ IF rollbackLog[job[w]]
             THEN /\ take' = [take EXCEPT ![w] = 0]
                  /\ UNCHANGED purse
             ELSE /\ take' = [take EXCEPT ![w] = Available(@)]
                  /\ Deduct(job[w], Available(take[w]))
        /\ Goto(w, "gateway")
        /\ UNCHANGED faults
     \/ /\ ~rollbackLog[job[w]] /\ Fault
        /\ Goto(w, "restore")
        /\ UNCHANGED <<take, purse>>
  /\ UNCHANGED <<row, logs, gateway, was, amt, rid, attempts>>

\* The provider's bookkeeping: never more than was paid.
Held(o) == MapThenSumSet(LAMBDA k : k[1],
                         {k \in RefundIds : gateway[o][k] \in {"pending", "done"}})

\* Slip: an undecided refund is taken for a success.
PendingIsDone(s) == IF s = "failed" THEN "undoFail" ELSE "setOk"

\* finishRefund: what the provider's answer leads to.
AfterAnswer(s) == CASE s = "done"    -> "setOk"
                    [] s = "pending" -> "undoPending"
                    [] OTHER         -> "undoFail"

\* gwRefund.  A new refund is settled or pending when the answer comes, or
\* refused; its answer may be lost, which the code takes for a refusal.  A
\* repeated one is answered with what became of it, or still as pending (Stripe
\* replays its first answer and calls whatever has not succeeded pending).
GatewayRefund(w) ==
  LET o == job[w] IN
  /\ pc[w] = "gateway"
  /\ \/ /\ ~tradeNo[o]
        /\ Goto(w, "setOk")
        /\ UNCHANGED <<gateway, rid, faults>>
     \/ \E k \in RefundIds :
          /\ tradeNo[o] /\ k[1] = amt[w] /\ gateway[o][k] = "none"
          /\ \A n \in 1..(k[2] - 1) : gateway[o][<<k[1], n>>] # "none"
          /\ Held(o) + amt[w] <= Amount
          /\ rid' = [rid EXCEPT ![w] = k]
          /\ \E s \in {"pending", "done"} :
               /\ gateway' = [gateway EXCEPT ![o][k] = s]
               /\ \/ Goto(w, AfterAnswer(s)) /\ UNCHANGED faults
                  \/ Goto(w, "undoFail") /\ Fault
     \/ /\ tradeNo[o]
        /\ \/ /\ Held(o) + amt[w] > Amount
              /\ Idempotent => gateway[o][<<amt[w], 1>>] = "none"
              /\ UNCHANGED faults
           \/ Fault
        /\ Goto(w, "undoFail")
        /\ UNCHANGED <<gateway, rid>>
     \/ LET k == <<amt[w], 1>> IN
        /\ tradeNo[o] /\ Idempotent /\ gateway[o][k] # "none"
        /\ rid' = [rid EXCEPT ![w] = k]
        /\ \/ Goto(w, AfterAnswer(gateway[o][k]))
           \/ Goto(w, "undoPending")
        /\ UNCHANGED <<gateway, faults>>
  /\ UNCHANGED <<row, logs, purse, was, amt, take, attempts>>

\* handleGwFail: RollbackRefund, then restoreStatus or REFUND_FAILED.
UndoAfterFailure(w) ==
  /\ pc[w] = "undoFail"
  /\ \/ /\ take[w] > 0
        /\ Undo(w)
        /\ Goto(w, "restore")
        /\ UNCHANGED <<rollbackLog, faults>>
     \/ /\ take[w] > 0 /\ Fault
        /\ rollbackLog' = [rollbackLog EXCEPT ![job[w]] = TRUE]
        /\ Goto(w, "setFailed")
        /\ UNCHANGED purse
     \/ /\ take[w] = 0
        /\ Goto(w, "restore")
        /\ UNCHANGED <<purse, rollbackLog, faults>>
  /\ UNCHANGED <<row, pendingLog, successLog, gateway, plan, attempts>>

\* Slip: the status of the row as it is now.
KeptStatus(w) == status[job[w]]

RestoredStatus(w) == IF was[w] = "REFUND_REQUESTED" THEN "REFUND_REQUESTED" ELSE "COMPLETED"

RestoreStatus(w) ==
  /\ pc[w] = "restore"
  /\ SetStatus(job[w], RestoredStatus(w))
  /\ Stop(w)
  /\ UNCHANGED <<refundAmount, tradeNo, logs, purse, gateway, faults, attempts>>

MarkRefundFailed(w) ==
  /\ pc[w] = "setFailed"
  /\ SetStatus(job[w], "REFUND_FAILED")
  /\ Stop(w)
  /\ UNCHANGED <<refundAmount, tradeNo, logs, purse, gateway, faults, attempts>>

MarkRefundOk(w) ==
  /\ pc[w] = "setOk"
  /\ \/ /\ SetStatus(job[w], RefundedStatus(amt[w]))
        /\ SetAmount(job[w], amt[w])
        /\ successLog' = [successLog EXCEPT ![job[w]] = TRUE]
        /\ UNCHANGED faults
     \/ Fault /\ UNCHANGED <<status, refundAmount, successLog>>
  /\ Stop(w)
  /\ UNCHANGED <<tradeNo, pendingLog, rollbackLog, purse, gateway, attempts>>

\* markRefundPending: roll back, update the row, write the audit row that
\* remembers the refund id and whether the rollback worked.
UndoWhilePending(w) ==
  /\ pc[w] = "undoPending"
  /\ \/ /\ Undo(w)
        /\ take' = [take EXCEPT ![w] = 0]
        /\ UNCHANGED <<rollbackLog, faults>>
     \/ /\ take[w] > 0 /\ Fault
        /\ rollbackLog' = [rollbackLog EXCEPT ![job[w]] = TRUE]
        /\ UNCHANGED <<purse, take>>
  /\ Goto(w, "setPending")
  /\ UNCHANGED <<row, pendingLog, successLog, gateway, was, amt, rid, attempts>>

MarkRefundPending(w) ==
  /\ pc[w] = "setPending"
  /\ \/ /\ SetStatus(job[w], "REFUND_PENDING")
        /\ SetAmount(job[w], amt[w])
        /\ Goto(w, "logPending")
        /\ UNCHANGED <<plan, faults>>
     \/ /\ Fault
        /\ Stop(w)
        /\ UNCHANGED <<status, refundAmount>>
  /\ UNCHANGED <<tradeNo, logs, purse, gateway, attempts>>

LogRefundPending(w) ==
  /\ pc[w] = "logPending"
  /\ pendingLog' = [pendingLog EXCEPT ![job[w]] =
                       IF @ = {} THEN {[id |-> rid[w], undone |-> take[w] = 0]} ELSE @]
  /\ Stop(w)
  /\ UNCHANGED <<row, rollbackLog, successLog, purse, gateway, faults, attempts>>

-----------------------------------------------------------------------------
(* QueryAndFinalizeRefund. *)

\* latestRefundPendingDetail, or its default when there is no such row.
PendingDetail(o) ==
  IF pendingLog[o] = {}
    THEN [id |-> <<refundAmount[o], 1>>, undone |-> TRUE]
    ELSE CHOOSE d \in pendingLog[o] : TRUE

QueryRefund(w, o) ==
  /\ pc[w] = "idle" /\ status[o] = "REFUND_PENDING" /\ Idempotent
  /\ pc' = [pc EXCEPT ![w] = "query"]
  /\ job' = [job EXCEPT ![w] = o]
  /\ was' = [was EXCEPT ![w] = status[o]]
  /\ amt' = [amt EXCEPT ![w] = refundAmount[o]]
  /\ rid' = [rid EXCEPT ![w] = PendingDetail(o).id]
  /\ take' = [take EXCEPT ![w] = IF PendingDetail(o).undone THEN refundAmount[o] ELSE 0]
  /\ UNCHANGED <<row, logs, purse, gateway, faults, attempts>>

AskGateway(w) ==
  /\ pc[w] = "query"
  /\ LET s == gateway[job[w]][rid[w]] IN
       \/ s = "done" /\ Goto(w, "finalOk") /\ UNCHANGED plan
       \/ s = "failed" /\ Goto(w, "finalFail") /\ UNCHANGED plan
       \/ s \in {"pending", "none"} /\ Stop(w)
  /\ UNCHANGED <<row, logs, purse, gateway, faults, attempts>>

\* One transaction; its audit row must be new or everything is rolled back.
FinalizeSuccess(w) ==
  LET o == job[w] IN
  /\ pc[w] = "finalOk"
  /\ IF status[o] = "REFUND_PENDING" /\ ~successLog[o]
       THEN /\ Deduct(o, Available(take[w]))
            /\ SetStatus(o, RefundedStatus(amt[w]))
            /\ SetAmount(o, amt[w])
            /\ successLog' = [successLog EXCEPT ![o] = TRUE]
       ELSE UNCHANGED <<purse, status, refundAmount, successLog>>
  /\ Stop(w)
  /\ UNCHANGED <<tradeNo, pendingLog, rollbackLog, gateway, faults, attempts>>

\* UpdateOneID(o.ID).SetStatus(REFUND_FAILED): no condition on the status.
FinalizeFailed(w) ==
  /\ pc[w] = "finalFail"
  /\ SetStatus(job[w], "REFUND_FAILED")
  /\ Stop(w)
  /\ UNCHANGED <<refundAmount, tradeNo, logs, purse, gateway, faults, attempts>>

-----------------------------------------------------------------------------

Execute(w) ==
  \/ LockRefund(w) \/ DeductBalance(w) \/ GatewayRefund(w)
  \/ UndoAfterFailure(w) \/ RestoreStatus(w) \/ MarkRefundFailed(w)
  \/ MarkRefundOk(w) \/ UndoWhilePending(w) \/ MarkRefundPending(w)
  \/ LogRefundPending(w)

Finalize(w) == AskGateway(w) \/ FinalizeSuccess(w) \/ FinalizeFailed(w)

Proceed(w) == MarkRequested(w) \/ Execute(w) \/ Finalize(w)

Next ==
  \/ \E w \in Workers, o \in Orders :
        \/ RequestRefund(w, o) \/ QueryRefund(w, o)
        \/ \E a \in 1..Amount, force, takeBack \in BOOLEAN :
              PrepareRefund(w, o, a, force, takeBack)
  \/ \E w \in Workers : Proceed(w) \/ Crash(w)
  \/ \E o \in Orders, k \in RefundIds : GatewaySettles(o, k)
  \/ \E cost \in 1..Amount : Spend(cost)

Spec == Init /\ [][Next]_vars

\* A started operation goes on.
FairSpec == Spec /\ \A w \in Workers : WF_vars(Proceed(w))

-----------------------------------------------------------------------------
(* What must hold. *)

\* A rollback gives back what its own attempt took, so no order's refunds ever
\* pay the user out of nothing.
NeverGivesBackMore == \A o \in Orders : taken[o] >= 0

\* A refunded order's money was really returned by the provider, unless there
\* never was a trade number to refund.
RefundedIsPaidBack ==
  \A o \in Orders : status[o] \in Final /\ tradeNo[o] =>
     \E k \in RefundIds : gateway[o][k] = "done"

\* Without faults, and without a finalization racing another request: no refund
\* is left half done.  While nobody refunds an order its refunds have taken
\* nothing from the balance, unless it is refunded.
RestingOrderKeepsBalance ==
  \A o \in Orders :
     (status[o] \notin Final /\ \A w \in Workers : pc[w] = "idle") => taken[o] = 0

\* A refund that is retried, because the provider left it pending or refused
\* it, does not take the balance a second time: no order costs the user more
\* than it credited.
NeverTakesTwice == \A o \in Orders : taken[o] <= Amount

\* Without faults, and without a finalization racing another request, a
\* refunded order stays refunded.
RefundedIsFinal ==
  [][\A o \in Orders : status[o] \in Final => status'[o] = status[o]]_vars

\* Every request that locked an order unlocks it, as long as nothing fails.
RefundingEnds ==
  \A o \in Orders : (status[o] = "REFUNDING") ~> (status[o] # "REFUNDING")

-----------------------------------------------------------------------------
(* The inductive invariants behind them. *)

\* No refund is planned, and no row left pending, without an amount.
AmountInv ==
  /\ \A w \in Workers : pc[w] \notin {"idle", "request"} => amt[w] > 0
  /\ \A o \in Orders : status[o] = "REFUND_PENDING" => refundAmount[o] > 0

\* What workers hold of an order and may still give back, counted unit by unit,
\* has been taken.
Holding == {"gateway", "undoFail", "undoPending"}
Units(o) == {u \in Workers \X (1..Amount) :
               job[u[1]] = o /\ pc[u[1]] \in Holding /\ u[2] <= take[u[1]]}
TakenInv == \A o \in Orders : Cardinality(Units(o)) <= taken[o]

\* A worker about to call the order refunded has seen the provider return the
\* money, which it never undoes.
PaidInv ==
  /\ \A w \in Workers :
       /\ pc[w] = "setOk" /\ tradeNo[job[w]] => gateway[job[w]][rid[w]] = "done"
       /\ pc[w] = "finalOk" => gateway[job[w]][rid[w]] = "done"
  /\ RefundedIsPaidBack

MoneyInv == TypeOK /\ AmountInv /\ TakenInv /\ PaidInv

\* Without faults and finalizations the status REFUNDING is a lock.
Quiet == MaxFaults = 0 /\ ~Idempotent
Locked == {"deduct", "gateway", "undoFail", "restore", "setOk", "undoPending", "setPending"}
LockInv ==
  \A w \in Workers :
    /\ pc[w] \notin {"setFailed", "query", "finalOk", "finalFail"}
    /\ pc[w] \in Locked =>
         /\ status[job[w]] = "REFUNDING"
         /\ \A v \in Workers : pc[v] \in Locked /\ job[v] = job[w] => v = w

\* While the order is locked, its holder knows what has been taken; otherwise
\* nothing has, unless it is refunded.
Free(o) == \A w \in Workers : job[w] = o => pc[w] \notin Locked
ShareInv ==
  /\ \A o \in Orders : taken[o] <= Amount /\ (Free(o) /\ status[o] \notin Final => taken[o] = 0)
  /\ \A w \in Workers :
       /\ pc[w] \in Holding \cup {"setOk"} => taken[job[w]] = take[w]
       /\ pc[w] \in {"deduct", "restore", "setPending"} => taken[job[w]] = 0

QuietInv == TypeOK /\ AmountInv /\ faults = 0 /\ LockInv /\ ShareInv
=============================================================================
