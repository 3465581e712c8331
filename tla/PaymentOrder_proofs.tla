------------------------- MODULE PaymentOrder_proofs -----------------------
(***************************************************************************)
(* Proofs of PaymentOrder's safety properties for any set of orders and    *)
(* workers, any limits and any number of faults.                           *)
(*                                                                         *)
(* OrderInv (module PaymentOrderInvariant) holds initially and is kept by  *)
(* every step; each of its parts has a lemma with one step per action.     *)
(***************************************************************************)
EXTENDS PaymentOrderInvariant, TLAPS

\* The initial values have their types.
LEMMA InitTypeOK == Init => TypeOK
  BY OrdersAssumption DEF Init, TypeOK, Status, Upstream, Step, Via

\* What the building blocks of the actions do to the types.
WorkerTypeOK ==
  /\ pc \in [Workers -> Step]
  /\ job \in [Workers -> Orders]
  /\ via \in [Workers -> Via]
  /\ seen \in [Workers -> BOOLEAN]

\* A worker that goes on to a step of the program stays well typed.
LEMMA GotoType ==
  ASSUME TypeOK, NEW w \in Workers, NEW at \in Step, Goto(w, at)
  PROVE  WorkerTypeOK'
  BY DEF TypeOK, WorkerTypeOK, Goto

\* So does one that ends its operation,
LEMMA StopType ==
  ASSUME TypeOK, NEW w \in Workers, Stop(w)
  PROVE  WorkerTypeOK'
  BY DEF TypeOK, WorkerTypeOK, Stop, Step, Via

\* and one that answers a request; only acked changes outside.
LEMMA ReplyType ==
  ASSUME TypeOK, NEW w \in Workers, NEW ok, Reply(w, ok)
  PROVE  /\ WorkerTypeOK'
         /\ acked' \in [Orders -> BOOLEAN]
         /\ UNCHANGED <<timedOut, upstream, linked, swallowed>>
  BY StopType DEF TypeOK, Reply

\* An error answered with success changes nothing else.
LEMMA SwallowType ==
  ASSUME TypeOK, NEW o \in Orders, Swallow(o)
  PROVE  /\ acked' \in [Orders -> BOOLEAN] /\ swallowed' \in [Orders -> BOOLEAN]
         /\ UNCHANGED <<timedOut, upstream, linked>>
  BY DEF TypeOK, Swallow

\* An UPDATE of the row with a status of the program keeps its types.
LEMMA WriteType ==
  ASSUME TypeOK, NEW o \in Orders, NEW s \in Status, Write(o, s)
  PROVE  /\ status' \in [Orders -> Status]
         /\ stale' \in [Orders -> BOOLEAN]
         /\ fresh' \in [Orders -> SUBSET Workers]
  BY DEF TypeOK, Write

\* Every step keeps the types.
LEMMA NextTypeOK == ASSUME TypeOK, [Next]_vars PROVE TypeOK'
<1> USE DEF row, outside, goods, worker
<1>1. ASSUME NEW w \in Workers, NEW o \in Orders, Arrive(w, o) PROVE TypeOK'
  <2> USE DEF TypeOK, Begin, Step, Via
  <2>1. CASE CheckLimits(w, o) BY <2>1 DEF CheckLimits
  <2>2. CASE Cancel(w, o) BY <2>2 DEF Cancel
  <2>3. CASE Expire(w, o) BY <2>3 DEF Expire
  <2>4. CASE Verify(w, o) BY <2>4 DEF Verify
  <2>5. CASE Notify(w, o) BY <2>5 DEF Notify
  <2>6. CASE RetryFulfillment(w, o) BY <2>6 DEF RetryFulfillment
  <2>7. QED BY <1>1, <2>1, <2>2, <2>3, <2>4, <2>5, <2>6 DEF Arrive
<1>2. ASSUME NEW w \in Workers, Create(w) PROVE TypeOK'
  <2>1. CASE InsertOrder(w)
    <3>1. WorkerTypeOK'
      BY <2>1, GotoType DEF InsertOrder, Step
    <3>2. /\ status' \in [Orders -> Status]
          /\ stale' \in [Orders -> BOOLEAN]
          /\ fresh' \in [Orders -> SUBSET Workers]
      BY <2>1, WriteType DEF InsertOrder, TypeOK, Status
    <3>3. QED BY <2>1, <3>1, <3>2 DEF InsertOrder, TypeOK, WorkerTypeOK
  <2>2. CASE CreatePayment(w)
    <3>1. WorkerTypeOK'
      BY <2>2, GotoType DEF CreatePayment, Step
    <3>2. upstream' \in [Orders -> Upstream]
      BY <2>2 DEF CreatePayment, TypeOK, Upstream
    <3>3. QED BY <2>2, <3>1, <3>2 DEF CreatePayment, TypeOK, WorkerTypeOK
  <2>3. CASE RecordPayment(w)
    <3>1. WorkerTypeOK'
      BY <2>3, GotoType, StopType DEF RecordPayment, Step
    <3>2. /\ status' \in [Orders -> Status]
          /\ stale' \in [Orders -> BOOLEAN]
          /\ fresh' \in [Orders -> SUBSET Workers]
      <4>1. job[w] \in Orders /\ status[job[w]] \in Status
        BY DEF TypeOK
      <4>2. Write(job[w], status[job[w]]) \/ UNCHANGED row
        BY <2>3 DEF RecordPayment
      <4>3. CASE Write(job[w], status[job[w]])
        BY <4>1, <4>3, WriteType
      <4>4. CASE UNCHANGED row
        BY <4>4 DEF row, TypeOK
      <4>5. QED BY <4>2, <4>3, <4>4
    <3>3. tradeNo' \in [Orders -> BOOLEAN] /\ linked' \in [Orders -> BOOLEAN]
      <4>1. tradeNo \in [Orders -> BOOLEAN] /\ linked \in [Orders -> BOOLEAN]
        BY DEF TypeOK
      <4>2. /\ tradeNo' \in {tradeNo, [tradeNo EXCEPT ![job[w]] = TRUE]}
            /\ linked' \in {linked, [linked EXCEPT ![job[w]] = TRUE]}
        BY <2>3 DEF RecordPayment
      <4>3. QED BY <4>1, <4>2
    <3>4. faults' \in Nat
      BY <2>3 DEF RecordPayment, TypeOK, Fault
    <3>5. QED BY <2>3, <3>1, <3>2, <3>3, <3>4 DEF RecordPayment, TypeOK, WorkerTypeOK
  <2>4. CASE AbortOrder(w)
    <3>1. WorkerTypeOK'
      BY <2>4, StopType DEF AbortOrder, Step
    <3>2. /\ status' \in [Orders -> Status]
          /\ stale' \in [Orders -> BOOLEAN]
          /\ fresh' \in [Orders -> SUBSET Workers]
      BY <2>4, WriteType DEF AbortOrder, TypeOK, Status
    <3>3. QED BY <2>4, <3>1, <3>2 DEF AbortOrder, TypeOK, WorkerTypeOK
  <2>5. QED
    BY <1>2, <2>1, <2>2, <2>3, <2>4 DEF Create
<1>3. ASSUME NEW w \in Workers, Check(w) PROVE TypeOK'
  <2>1. CASE QueryUpstream(w)
    <3>1. WorkerTypeOK'
      BY <2>1, GotoType, StopType DEF QueryUpstream, Step
    <3>2. faults' \in Nat
      BY <2>1 DEF QueryUpstream, TypeOK, Fault
    <3>3. QED BY <2>1, <3>1, <3>2 DEF QueryUpstream, TypeOK, WorkerTypeOK
  <2>2. CASE VoidUpstream(w)
    <3>1. WorkerTypeOK'
      BY <2>2, GotoType DEF VoidUpstream, Step
    <3>2. upstream' \in [Orders -> Upstream]
      BY <2>2 DEF VoidUpstream, TypeOK, Upstream
    <3>3. QED BY <2>2, <3>1, <3>2 DEF VoidUpstream, TypeOK, WorkerTypeOK
  <2>3. CASE PersistTradeNo(w)
    <3>1. WorkerTypeOK'
      BY <2>3 DEF PersistTradeNo, Step, TypeOK, WorkerTypeOK
    <3>2. /\ status' \in [Orders -> Status]
          /\ stale' \in [Orders -> BOOLEAN]
          /\ fresh' \in [Orders -> SUBSET Workers]
      BY <2>3, WriteType DEF PersistTradeNo, TypeOK, Status
    <3>3. tradeNo' \in [Orders -> BOOLEAN]
      BY <2>3 DEF PersistTradeNo, TypeOK
    <3>4. QED BY <2>3, <3>1, <3>2, <3>3 DEF PersistTradeNo, TypeOK, WorkerTypeOK
  <2>4. CASE CloseOrder(w)
    <3>1. WorkerTypeOK'
      BY <2>4, StopType DEF CloseOrder, Step
    <3>2. /\ status' \in [Orders -> Status]
          /\ stale' \in [Orders -> BOOLEAN]
          /\ fresh' \in [Orders -> SUBSET Workers]
      BY <2>4, WriteType DEF CloseOrder, TypeOK, Status, Target
    <3>3. QED BY <2>4, <3>1, <3>2 DEF CloseOrder, TypeOK, WorkerTypeOK
  <2>5. QED
    BY <1>3, <2>1, <2>2, <2>3, <2>4 DEF Check
<1>4. ASSUME NEW w \in Workers, Confirm(w) PROVE TypeOK'
  <2>1. CASE RejectAmount(w)
    <3>1. WorkerTypeOK'
      BY <2>1, ReplyType DEF RejectAmount, Step
    <3>2. acked' \in [Orders -> BOOLEAN] /\ UNCHANGED <<timedOut, upstream, linked, swallowed>>
      BY <2>1, ReplyType DEF RejectAmount, TypeOK
    <3>3. QED BY <2>1, <3>1, <3>2 DEF RejectAmount, TypeOK, WorkerTypeOK
  <2>2. CASE ToPaid(w)
    <3>1. WorkerTypeOK'
      BY <2>2, GotoType DEF ToPaid, Step
    <3>2. /\ status' \in [Orders -> Status]
          /\ stale' \in [Orders -> BOOLEAN]
          /\ fresh' \in [Orders -> SUBSET Workers]
      BY <2>2, WriteType DEF ToPaid, TypeOK, Status
    <3>3. paidAt' \in [Orders -> BOOLEAN] /\ tradeNo' \in [Orders -> BOOLEAN]
      BY <2>2 DEF ToPaid, TypeOK
    <3>4. QED BY <2>2, <3>1, <3>2, <3>3 DEF ToPaid, TypeOK, WorkerTypeOK
  <2>3. CASE AlreadyProcessed(w)
    <3>1. WorkerTypeOK'
      BY <2>3, GotoType, ReplyType DEF AlreadyProcessed, Step
    <3>2. acked' \in [Orders -> BOOLEAN] /\ UNCHANGED <<timedOut, upstream, linked, swallowed>>
      BY <2>3, ReplyType DEF AlreadyProcessed, TypeOK
    <3>3. QED BY <2>3, <3>1, <3>2 DEF AlreadyProcessed, TypeOK, WorkerTypeOK
  <2>4. CASE SwallowReadError(w)
    <3>1. WorkerTypeOK'
      BY <2>4, StopType DEF SwallowReadError
    <3>2. /\ acked' \in [Orders -> BOOLEAN] /\ swallowed' \in [Orders -> BOOLEAN]
          /\ UNCHANGED <<timedOut, upstream, linked>>
      <4>1. job[w] \in Orders
        BY DEF TypeOK
      <4>2. CASE Swallow(job[w]) BY <4>1, <4>2, SwallowType
      <4>3. CASE UNCHANGED outside BY <4>3 DEF TypeOK
      <4>4. QED BY <2>4, <4>2, <4>3 DEF SwallowReadError
    <3>3. faults' \in Nat
      BY <2>4 DEF SwallowReadError, TypeOK, Fault
    <3>4. QED BY <2>4, <3>1, <3>2, <3>3 DEF SwallowReadError, TypeOK, WorkerTypeOK
  <2>5. QED
    BY <1>4, <2>1, <2>2, <2>3, <2>4 DEF Confirm
<1>5. ASSUME NEW w \in Workers, Fulfil(w) PROVE TypeOK'
  <2>1. CASE AcquireLease(w)
    <3>1. WorkerTypeOK'
      BY <2>1, GotoType, ReplyType DEF AcquireLease, Step
    <3>2. /\ status' \in [Orders -> Status]
          /\ stale' \in [Orders -> BOOLEAN]
          /\ fresh' \in [Orders -> SUBSET Workers]
      BY <2>1, WriteType DEF AcquireLease, TypeOK, Status
    <3>3. acked' \in [Orders -> BOOLEAN] /\ UNCHANGED <<timedOut, upstream, linked, swallowed>>
      BY <2>1, ReplyType DEF AcquireLease, TypeOK
    <3>4. QED BY <2>1, <3>1, <3>2, <3>3 DEF AcquireLease, TypeOK, WorkerTypeOK
  <2>2. CASE ReloadLease(w)
    <3>1. WorkerTypeOK'
      BY <2>2, GotoType, ReplyType DEF ReloadLease, Step
    <3>2. acked' \in [Orders -> BOOLEAN] /\ UNCHANGED <<timedOut, upstream, linked, swallowed>>
      BY <2>2, ReplyType DEF ReloadLease, TypeOK
    <3>3. fresh' \in [Orders -> SUBSET Workers]
      <4>1. fresh[job[w]] \cup {w} \in SUBSET Workers BY DEF TypeOK
      <4>2. fresh' \in {fresh, [fresh EXCEPT ![job[w]] = @ \cup {w}]}
        BY <2>2, Zenon DEF ReloadLease
      <4>3. QED BY <4>1, <4>2 DEF TypeOK
    <3>4. QED BY <2>2, <3>1, <3>2, <3>3 DEF ReloadLease, TypeOK, WorkerTypeOK
  <2>3. CASE LookupCode(w)
    <3>1. WorkerTypeOK'
      BY <2>3, GotoType DEF LookupCode, Step
    <3>2. faults' \in Nat
      BY <2>3 DEF LookupCode, TypeOK, Fault
    <3>3. QED BY <2>3, <3>1, <3>2 DEF LookupCode, TypeOK, WorkerTypeOK
  <2>4. CASE CreateCode(w)
    <3>1. WorkerTypeOK'
      BY <2>4, GotoType DEF CreateCode, Step
    <3>2. /\ code' \in [Orders -> {"absent", "unused", "used"}]
      BY <2>4 DEF CreateCode, TypeOK
    <3>3. QED BY <2>4, <3>1, <3>2 DEF CreateCode, TypeOK, WorkerTypeOK
  <2>5. CASE RedeemCode(w)
    <3>1. WorkerTypeOK'
      BY <2>5, GotoType DEF RedeemCode, Step
    <3>2. /\ code' \in [Orders -> {"absent", "unused", "used"}]
          /\ grants' \in [Orders -> Nat]
      BY <2>5 DEF RedeemCode, TypeOK
    <3>3. faults' \in Nat
      BY <2>5 DEF RedeemCode, TypeOK, Fault
    <3>4. QED BY <2>5, <3>1, <3>2, <3>3 DEF RedeemCode, TypeOK, WorkerTypeOK
  <2>6. CASE AssignSubscription(w)
    <3>1. WorkerTypeOK'
      BY <2>6, GotoType DEF AssignSubscription, Step
    <3>2. /\ assigned' \in {assigned, [assigned EXCEPT ![job[w]] = TRUE]}
          /\ grants' \in {grants, [grants EXCEPT ![job[w]] = @ + 1]}
      BY <2>6, Zenon DEF AssignSubscription
    <3>3. faults' \in Nat
      BY <2>6 DEF AssignSubscription, TypeOK, Fault
    <3>4. UNCHANGED <<row, outside, code, claimed, rebates>>
      BY <2>6 DEF AssignSubscription
    <3>5. assigned' \in [Orders -> BOOLEAN] BY <3>2 DEF TypeOK
    <3>6. grants' \in [Orders -> Nat] BY <3>2 DEF TypeOK
    <3>7. QED BY <3>1, <3>3, <3>4, <3>5, <3>6 DEF TypeOK, WorkerTypeOK
  <2>7. CASE DeliveryFails(w)
    <3>1. WorkerTypeOK'
      BY <2>7, GotoType DEF DeliveryFails, Step
    <3>2. faults' \in Nat
      BY <2>7 DEF DeliveryFails, TypeOK, Fault
    <3>3. QED BY <2>7, <3>1, <3>2 DEF DeliveryFails, TypeOK, WorkerTypeOK
  <2>8. CASE ApplyRebate(w)
    <3>1. WorkerTypeOK'
      BY <2>8, GotoType DEF ApplyRebate, Step
    <3>2. /\ claimed' \in {claimed, [claimed EXCEPT ![job[w]] = TRUE]}
          /\ rebates' \in {rebates, [rebates EXCEPT ![job[w]] = @ + 1]}
      BY <2>8, Zenon DEF ApplyRebate
    <3>3. UNCHANGED <<row, outside, code, assigned, grants, faults>>
      BY <2>8 DEF ApplyRebate
    <3>4. claimed' \in [Orders -> BOOLEAN] BY <3>2 DEF TypeOK
    <3>5. rebates' \in [Orders -> Nat] BY <3>2 DEF TypeOK
    <3>6. QED BY <3>1, <3>3, <3>4, <3>5 DEF TypeOK, WorkerTypeOK
  <2>9. CASE MarkCompleted(w)
    <3>1. WorkerTypeOK'
      BY <2>9, GotoType, ReplyType DEF MarkCompleted, Step
    <3>2. /\ status' \in [Orders -> Status]
          /\ stale' \in [Orders -> BOOLEAN]
          /\ fresh' \in [Orders -> SUBSET Workers]
      BY <2>9, WriteType DEF MarkCompleted, TypeOK, Status
    <3>3. acked' \in [Orders -> BOOLEAN] /\ UNCHANGED <<timedOut, upstream, linked, swallowed>>
      BY <2>9, ReplyType DEF MarkCompleted, TypeOK
    <3>4. QED BY <2>9, <3>1, <3>2, <3>3 DEF MarkCompleted, TypeOK, WorkerTypeOK
  <2>10. CASE MarkFailed(w)
    <3>1. WorkerTypeOK'
      BY <2>10, ReplyType DEF MarkFailed, Step
    <3>2. /\ status' \in [Orders -> Status]
          /\ stale' \in [Orders -> BOOLEAN]
          /\ fresh' \in [Orders -> SUBSET Workers]
      BY <2>10, WriteType DEF MarkFailed, TypeOK, Status
    <3>3. acked' \in [Orders -> BOOLEAN] /\ UNCHANGED <<timedOut, upstream, linked, swallowed>>
      BY <2>10, ReplyType DEF MarkFailed, TypeOK
    <3>4. QED BY <2>10, <3>1, <3>2, <3>3 DEF MarkFailed, TypeOK, WorkerTypeOK
  <2>11. QED
    BY <1>5, <2>1, <2>2, <2>3, <2>4, <2>5, <2>6, <2>7, <2>8, <2>9, <2>10 DEF Fulfil
<1>6. ASSUME NEW w \in Workers, Crash(w) PROVE TypeOK'
  BY <1>6 DEF Crash, Stop, Fault, Step, Via, TypeOK
<1>7. ASSUME NEW o \in Orders, Environment(o) \/ SwallowProviderError(o) PROVE TypeOK'
  <2>1. CASE Pay(o) BY <2>1 DEF Pay, Upstream, TypeOK
  <2>2. CASE OrderTimesOut(o) BY <2>2 DEF OrderTimesOut, TypeOK
  <2>3. CASE RowAges(o) BY <2>3 DEF RowAges, Age, TypeOK
  <2>4. CASE WorkerStalls(o) BY <2>4 DEF WorkerStalls, Age, Fault, TypeOK
  <2>5. CASE SwallowProviderError(o)
    BY <2>5, SwallowType DEF SwallowProviderError, Fault, TypeOK
  <2>6. QED BY <1>7, <2>1, <2>2, <2>3, <2>4, <2>5 DEF Environment
<1>8. CASE UNCHANGED vars BY <1>8 DEF vars, TypeOK
<1>9. QED BY <1>1, <1>2, <1>3, <1>4, <1>5, <1>6, <1>7, <1>8 DEF Next, Proceed

-----------------------------------------------------------------------------
(* Each part of OrderInv is kept by every step. *)

\* Deliveries stay counted by their records: only the code, the audit rows and
\* the counters matter, and each delivering action sets record and counter.
LEMMA GoodsStep == ASSUME OrderInv, [Next]_vars PROVE GoodsInv'
<1> USE DEF OrderInv, TypeOK, row, outside, goods, worker, GoodsInv, WorkerInv, Delivered
<1>1. ASSUME NEW w \in Workers, NEW o \in Orders, Arrive(w, o) PROVE GoodsInv'
  <2> USE DEF Begin
  <2>1. CASE CheckLimits(w, o) BY <2>1 DEF CheckLimits
  <2>2. CASE Cancel(w, o) BY <2>2 DEF Cancel
  <2>3. CASE Expire(w, o) BY <2>3 DEF Expire
  <2>4. CASE Verify(w, o) BY <2>4 DEF Verify
  <2>5. CASE Notify(w, o) BY <2>5 DEF Notify
  <2>6. CASE RetryFulfillment(w, o) BY <2>6 DEF RetryFulfillment
  <2>7. QED BY <1>1, <2>1, <2>2, <2>3, <2>4, <2>5, <2>6 DEF Arrive
<1>2. ASSUME NEW w \in Workers, Create(w) PROVE GoodsInv'
  <2> USE DEF Goto, Stop, Reply, Write, Fault
  <2>1. CASE InsertOrder(w) BY <2>1 DEF InsertOrder
  <2>2. CASE CreatePayment(w) BY <2>2 DEF CreatePayment
  <2>3. CASE RecordPayment(w) BY <2>3 DEF RecordPayment
  <2>4. CASE AbortOrder(w) BY <2>4 DEF AbortOrder
  <2>5. QED BY <1>2, <2>1, <2>2, <2>3, <2>4 DEF Create
<1>3. ASSUME NEW w \in Workers, Check(w) PROVE GoodsInv'
  <2> USE DEF Goto, Stop, Reply, Write, Fault
  <2>1. CASE QueryUpstream(w) BY <2>1 DEF QueryUpstream
  <2>2. CASE VoidUpstream(w) BY <2>2 DEF VoidUpstream
  <2>3. CASE PersistTradeNo(w) BY <2>3 DEF PersistTradeNo
  <2>4. CASE CloseOrder(w) BY <2>4 DEF CloseOrder, Target
  <2>5. QED BY <1>3, <2>1, <2>2, <2>3, <2>4 DEF Check
<1>4. ASSUME NEW w \in Workers, Confirm(w) PROVE GoodsInv'
  <2> USE DEF Goto, Stop, Reply, Write, Fault
  <2>1. CASE RejectAmount(w) BY <2>1 DEF RejectAmount
  <2>2. CASE ToPaid(w) BY <2>2 DEF ToPaid, Payable, PaidInFull
  <2>3. CASE AlreadyProcessed(w) BY <2>3 DEF AlreadyProcessed
  <2>4. CASE SwallowReadError(w) BY <2>4 DEF SwallowReadError, Swallow
  <2>5. QED BY <1>4, <2>1, <2>2, <2>3, <2>4 DEF Confirm
<1>5. ASSUME NEW w \in Workers, Fulfil(w) PROVE GoodsInv'
  <2> USE DEF Goto, Stop, Reply, Write, Fault
  <2>1. CASE AcquireLease(w) BY <2>1 DEF AcquireLease, LeaseIsFree
  <2>2. CASE ReloadLease(w) BY <2>2 DEF ReloadLease
  <2>3. CASE LookupCode(w) BY <2>3 DEF LookupCode
  <2>4. CASE CreateCode(w) BY <2>4 DEF CreateCode
  <2>5. CASE RedeemCode(w) BY <2>5 DEF RedeemCode
  <2>6. CASE AssignSubscription(w) BY <2>6 DEF AssignSubscription
  <2>7. CASE DeliveryFails(w) BY <2>7 DEF DeliveryFails
  <2>8. CASE ApplyRebate(w) BY <2>8 DEF ApplyRebate
  <2>9. CASE MarkCompleted(w) BY <2>9 DEF MarkCompleted, HoldsLease
  <2>10. CASE MarkFailed(w) BY <2>10 DEF MarkFailed, HoldsLease
  <2>11. QED BY <1>5, <2>1, <2>2, <2>3, <2>4, <2>5, <2>6, <2>7, <2>8, <2>9, <2>10 DEF Fulfil
<1>6. ASSUME NEW w \in Workers, Crash(w) PROVE GoodsInv' BY <1>6 DEF Crash, Stop, Fault
<1>7. ASSUME NEW o \in Orders, Environment(o) \/ SwallowProviderError(o) PROVE GoodsInv'
  <2>1. CASE Pay(o) BY <2>1 DEF Pay, Age, Fault
  <2>2. CASE OrderTimesOut(o) BY <2>2 DEF OrderTimesOut, Age, Fault
  <2>3. CASE RowAges(o) BY <2>3 DEF RowAges, Age, Fault
  <2>4. CASE WorkerStalls(o) BY <2>4 DEF WorkerStalls, Age, Fault
  <2>5. CASE SwallowProviderError(o) BY <2>5 DEF SwallowProviderError, Swallow, Fault
  <2>6. QED BY <1>7, <2>1, <2>2, <2>3, <2>4, <2>5 DEF Environment
<1>8. CASE UNCHANGED vars BY <1>8 DEF vars
<1>9. QED BY <1>1, <1>2, <1>3, <1>4, <1>5, <1>6, <1>7, <1>8 DEF Next, Proceed

\* A row stays paid for exactly in the statuses of fulfilment; the creation
\* steps cannot hit a paid row because of CreateInv.
LEMMA PaidStep == ASSUME OrderInv, [Next]_vars PROVE PaidInv'
<1> USE DEF OrderInv, TypeOK, row, outside, goods, worker, PaidInv, WorkerInv, CreateInv, Creating, Delivered, UpstreamPaid, LeaseSteps
<1>1. ASSUME NEW w \in Workers, NEW o \in Orders, Arrive(w, o) PROVE PaidInv'
  <2> USE DEF Begin
  <2>1. CASE CheckLimits(w, o) BY <2>1 DEF CheckLimits
  <2>2. CASE Cancel(w, o) BY <2>2 DEF Cancel
  <2>3. CASE Expire(w, o) BY <2>3 DEF Expire
  <2>4. CASE Verify(w, o) BY <2>4 DEF Verify
  <2>5. CASE Notify(w, o) BY <2>5 DEF Notify
  <2>6. CASE RetryFulfillment(w, o) BY <2>6 DEF RetryFulfillment
  <2>7. QED BY <1>1, <2>1, <2>2, <2>3, <2>4, <2>5, <2>6 DEF Arrive
<1>2. ASSUME NEW w \in Workers, Create(w) PROVE PaidInv'
  <2> USE DEF Goto, Stop, Reply, Write, Fault
  <2>1. CASE InsertOrder(w) BY <2>1 DEF InsertOrder
  <2>2. CASE CreatePayment(w) BY <2>2 DEF CreatePayment
  <2>3. CASE RecordPayment(w)
    <3>1. pc[w] = "record" /\ status[job[w]] \in {"PENDING", "CANCELLED", "EXPIRED"}
      BY <2>3 DEF RecordPayment
    <3>2. UNCHANGED <<status, paidAt, upstream, goods>>
      BY <2>3 DEF RecordPayment
    <3>3. linked' \in {linked, [linked EXCEPT ![job[w]] = TRUE]}
      BY <2>3, Zenon DEF RecordPayment
    <3>4. QED BY <3>1, <3>2, <3>3
  <2>4. CASE AbortOrder(w) BY <2>4 DEF AbortOrder
  <2>5. QED BY <1>2, <2>1, <2>2, <2>3, <2>4 DEF Create
<1>3. ASSUME NEW w \in Workers, Check(w) PROVE PaidInv'
  <2> USE DEF Goto, Stop, Reply, Write, Fault
  <2>1. CASE QueryUpstream(w) BY <2>1 DEF QueryUpstream
  <2>2. CASE VoidUpstream(w) BY <2>2 DEF VoidUpstream
  <2>3. CASE PersistTradeNo(w) BY <2>3 DEF PersistTradeNo
  <2>4. CASE CloseOrder(w) BY <2>4 DEF CloseOrder, Target
  <2>5. QED BY <1>3, <2>1, <2>2, <2>3, <2>4 DEF Check
<1>4. ASSUME NEW w \in Workers, Confirm(w) PROVE PaidInv'
  <2> USE DEF Goto, Stop, Reply, Write, Fault
  <2>1. CASE RejectAmount(w) BY <2>1 DEF RejectAmount
  <2>2. CASE ToPaid(w) BY <2>2 DEF ToPaid, Payable, PaidInFull
  <2>3. CASE AlreadyProcessed(w) BY <2>3 DEF AlreadyProcessed
  <2>4. CASE SwallowReadError(w) BY <2>4 DEF SwallowReadError, Swallow
  <2>5. QED BY <1>4, <2>1, <2>2, <2>3, <2>4 DEF Confirm
<1>5. ASSUME NEW w \in Workers, Fulfil(w) PROVE PaidInv'
  <2> USE DEF Goto, Stop, Reply, Write, Fault
  <2>1. CASE AcquireLease(w) BY <2>1 DEF AcquireLease, LeaseIsFree
  <2>2. CASE ReloadLease(w) BY <2>2 DEF ReloadLease
  <2>3. CASE LookupCode(w) BY <2>3 DEF LookupCode
  <2>4. CASE CreateCode(w) BY <2>4 DEF CreateCode
  <2>5. CASE RedeemCode(w) BY <2>5 DEF RedeemCode
  <2>6. CASE AssignSubscription(w) BY <2>6 DEF AssignSubscription
  <2>7. CASE DeliveryFails(w) BY <2>7 DEF DeliveryFails
  <2>8. CASE ApplyRebate(w)
    <3>1. claimed' \in {claimed, [claimed EXCEPT ![job[w]] = TRUE]}
      BY <2>8, Zenon DEF ApplyRebate
    <3>2. UNCHANGED <<status, paidAt, upstream, linked, code, assigned>>
      BY <2>8 DEF ApplyRebate
    <3>3. \A o \in Orders : claimed[o] => claimed'[o]
      BY <3>1
    <3>4. QED BY <3>2, <3>3
  <2>9. CASE MarkCompleted(w) BY <2>9 DEF MarkCompleted, HoldsLease
  <2>10. CASE MarkFailed(w) BY <2>10 DEF MarkFailed, HoldsLease
  <2>11. QED BY <1>5, <2>1, <2>2, <2>3, <2>4, <2>5, <2>6, <2>7, <2>8, <2>9, <2>10 DEF Fulfil
<1>6. ASSUME NEW w \in Workers, Crash(w) PROVE PaidInv' BY <1>6 DEF Crash, Stop, Fault
<1>7. ASSUME NEW o \in Orders, Environment(o) \/ SwallowProviderError(o) PROVE PaidInv'
  <2>1. CASE Pay(o) BY <2>1 DEF Pay, Age, Fault
  <2>2. CASE OrderTimesOut(o) BY <2>2 DEF OrderTimesOut, Age, Fault
  <2>3. CASE RowAges(o) BY <2>3 DEF RowAges, Age, Fault
  <2>4. CASE WorkerStalls(o) BY <2>4 DEF WorkerStalls, Age, Fault
  <2>5. CASE SwallowProviderError(o) BY <2>5 DEF SwallowProviderError, Swallow, Fault
  <2>6. QED BY <1>7, <2>1, <2>2, <2>3, <2>4, <2>5 DEF Environment
<1>8. CASE UNCHANGED vars BY <1>8 DEF vars
<1>9. QED BY <1>1, <1>2, <1>3, <1>4, <1>5, <1>6, <1>7, <1>8 DEF Next, Proceed

\* An order keeps at most one creator, and nobody can pay before it answers.
LEMMA CreateStep == ASSUME OrderInv, [Next]_vars PROVE CreateInv'
<1> USE DEF OrderInv, TypeOK, row, outside, goods, worker, PaidInv, WorkerInv, CreateInv, Creating, LeaseSteps, UpstreamPaid
<1>1. ASSUME NEW w \in Workers, NEW o \in Orders, Arrive(w, o) PROVE CreateInv'
  <2> USE DEF Begin
  <2>1. CASE CheckLimits(w, o)
    <3>1. /\ ~Begun(o) /\ Begin(w, o, "create", "insert")
          /\ UNCHANGED <<row, outside, goods, faults>>
      BY <2>1 DEF CheckLimits
    <3>2. QED BY <3>1 DEF Begun
  <2>2. CASE Cancel(w, o) BY <2>2 DEF Cancel
  <2>3. CASE Expire(w, o) BY <2>3 DEF Expire
  <2>4. CASE Verify(w, o) BY <2>4 DEF Verify
  <2>5. CASE Notify(w, o) BY <2>5 DEF Notify
  <2>6. CASE RetryFulfillment(w, o) BY <2>6 DEF RetryFulfillment
  <2>7. QED BY <1>1, <2>1, <2>2, <2>3, <2>4, <2>5, <2>6 DEF Arrive
<1>2. ASSUME NEW w \in Workers, Create(w) PROVE CreateInv'
  <2> USE DEF Goto, Stop, Reply, Write, Fault
  <2>1. CASE InsertOrder(w) BY <2>1 DEF InsertOrder
  <2>2. CASE CreatePayment(w) BY <2>2 DEF CreatePayment
  <2>3. CASE RecordPayment(w) BY <2>3 DEF RecordPayment
  <2>4. CASE AbortOrder(w) BY <2>4 DEF AbortOrder
  <2>5. QED BY <1>2, <2>1, <2>2, <2>3, <2>4 DEF Create
<1>3. ASSUME NEW w \in Workers, Check(w) PROVE CreateInv'
  <2> USE DEF Goto, Stop, Reply, Write, Fault
  <2>1. CASE QueryUpstream(w) BY <2>1 DEF QueryUpstream
  <2>2. CASE VoidUpstream(w) BY <2>2 DEF VoidUpstream
  <2>3. CASE PersistTradeNo(w) BY <2>3 DEF PersistTradeNo
  <2>4. CASE CloseOrder(w) BY <2>4 DEF CloseOrder, Target
  <2>5. QED BY <1>3, <2>1, <2>2, <2>3, <2>4 DEF Check
<1>4. ASSUME NEW w \in Workers, Confirm(w) PROVE CreateInv'
  <2> USE DEF Goto, Stop, Reply, Write, Fault
  <2>1. CASE RejectAmount(w) BY <2>1 DEF RejectAmount
  <2>2. CASE ToPaid(w) BY <2>2 DEF ToPaid, Payable, PaidInFull
  <2>3. CASE AlreadyProcessed(w) BY <2>3 DEF AlreadyProcessed
  <2>4. CASE SwallowReadError(w) BY <2>4 DEF SwallowReadError, Swallow
  <2>5. QED BY <1>4, <2>1, <2>2, <2>3, <2>4 DEF Confirm
<1>5. ASSUME NEW w \in Workers, Fulfil(w) PROVE CreateInv'
  <2> USE DEF Goto, Stop, Reply, Write, Fault
  <2>1. CASE AcquireLease(w) BY <2>1 DEF AcquireLease, LeaseIsFree
  <2>2. CASE ReloadLease(w)
    <3>1. status' = status /\ linked' = linked /\ job' = job BY <2>2 DEF ReloadLease
    <3>2. /\ pc'[w] \in {"assign", "lookup", "idle"}
          /\ \A v \in Workers \ {w} : pc'[v] = pc[v]
      BY <2>2 DEF ReloadLease
    <3>3. \A v \in Workers : pc'[v] \in Creating => v # w /\ pc'[v] = pc[v]
      BY <3>2
    <3>4. QED BY <3>1, <3>3
  <2>3. CASE LookupCode(w) BY <2>3 DEF LookupCode
  <2>4. CASE CreateCode(w) BY <2>4 DEF CreateCode
  <2>5. CASE RedeemCode(w) BY <2>5 DEF RedeemCode
  <2>6. CASE AssignSubscription(w) BY <2>6 DEF AssignSubscription
  <2>7. CASE DeliveryFails(w) BY <2>7 DEF DeliveryFails
  <2>8. CASE ApplyRebate(w) BY <2>8 DEF ApplyRebate
  <2>9. CASE MarkCompleted(w) BY <2>9 DEF MarkCompleted, HoldsLease
  <2>10. CASE MarkFailed(w) BY <2>10 DEF MarkFailed, HoldsLease
  <2>11. QED BY <1>5, <2>1, <2>2, <2>3, <2>4, <2>5, <2>6, <2>7, <2>8, <2>9, <2>10 DEF Fulfil
<1>6. ASSUME NEW w \in Workers, Crash(w) PROVE CreateInv' BY <1>6 DEF Crash, Stop, Fault
<1>7. ASSUME NEW o \in Orders, Environment(o) \/ SwallowProviderError(o) PROVE CreateInv'
  <2>1. CASE Pay(o) BY <2>1 DEF Pay, Age, Fault
  <2>2. CASE OrderTimesOut(o) BY <2>2 DEF OrderTimesOut, Age, Fault
  <2>3. CASE RowAges(o) BY <2>3 DEF RowAges, Age, Fault
  <2>4. CASE WorkerStalls(o) BY <2>4 DEF WorkerStalls, Age, Fault
  <2>5. CASE SwallowProviderError(o) BY <2>5 DEF SwallowProviderError, Swallow, Fault
  <2>6. QED BY <1>7, <2>1, <2>2, <2>3, <2>4, <2>5 DEF Environment
<1>8. CASE UNCHANGED vars BY <1>8 DEF vars
<1>9. QED BY <1>1, <1>2, <1>3, <1>4, <1>5, <1>6, <1>7, <1>8 DEF Next, Proceed

\* A step that leaves the row alone, and its worker in the fulfilment if it was
\* there, leaves the leases current.
LEMMA LeaseKept ==
  ASSUME OrderInv, NEW w \in Workers, UNCHANGED <<fresh, status, job>>,
         \A v \in Workers \ {w} : pc'[v] = pc[v], pc[w] \in LeaseSteps => pc'[w] \in LeaseSteps
  PROVE  LeaseIsCurrent'
<1>1. \A o \in Orders : fresh[o] \subseteq Workers
  BY DEF OrderInv, TypeOK
<1>2. LeaseIsCurrent
  BY DEF OrderInv
<1> QED
  BY <1>1, <1>2 DEF LeaseIsCurrent

\* Every write of the row empties fresh, and a worker enters it only in
\* ReloadLease, with the row RECHARGING.
LEMMA LeaseStep == ASSUME OrderInv, [Next]_vars PROVE LeaseIsCurrent'
<1> USE DEF OrderInv, TypeOK, row, outside, goods, worker, LeaseIsCurrent, WorkerInv, LeaseSteps
<1>1. ASSUME NEW w \in Workers, NEW o \in Orders, Arrive(w, o) PROVE LeaseIsCurrent'
  <2> USE DEF Begin
  <2>1. CASE CheckLimits(w, o) BY <2>1 DEF CheckLimits
  <2>2. CASE Cancel(w, o) BY <2>2 DEF Cancel
  <2>3. CASE Expire(w, o) BY <2>3 DEF Expire
  <2>4. CASE Verify(w, o) BY <2>4 DEF Verify
  <2>5. CASE Notify(w, o) BY <2>5 DEF Notify
  <2>6. CASE RetryFulfillment(w, o) BY <2>6 DEF RetryFulfillment
  <2>7. QED BY <1>1, <2>1, <2>2, <2>3, <2>4, <2>5, <2>6 DEF Arrive
<1>2. ASSUME NEW w \in Workers, Create(w) PROVE LeaseIsCurrent'
  <2> USE DEF Goto, Stop, Reply, Write, Fault
  <2>1. CASE InsertOrder(w) BY <2>1 DEF InsertOrder
  <2>2. CASE CreatePayment(w)
    <3> SUFFICES ASSUME NEW p \in Orders, NEW v \in fresh'[p]
                 PROVE  status'[p] = "RECHARGING" /\ job'[v] = p /\ pc'[v] \in LeaseSteps
      OBVIOUS
    <3>1. v \in fresh[p] /\ status' = status /\ job' = job BY <2>2 DEF CreatePayment
    <3>2. v \in Workers /\ status[p] = "RECHARGING" /\ job[v] = p /\ pc[v] \in LeaseSteps
      BY <3>1
    <3>3. v # w BY <2>2, <3>2 DEF CreatePayment
    <3>4. pc'[v] = pc[v] BY <2>2, <3>2, <3>3 DEF CreatePayment
    <3>5. QED BY <3>1, <3>2, <3>4
  <2>3. CASE RecordPayment(w)
    <3> SUFFICES ASSUME NEW p \in Orders, NEW v \in fresh'[p]
                 PROVE  status'[p] = "RECHARGING" /\ job'[v] = p /\ pc'[v] \in LeaseSteps
      OBVIOUS
    <3>1. v \in fresh[p]
      <4>1. fresh' \in {fresh, [fresh EXCEPT ![job[w]] = {}]}
        BY <2>3, Zenon DEF RecordPayment
      <4>2. QED BY <4>1
    <3>2. v \in Workers /\ status[p] = "RECHARGING" /\ job[v] = p /\ pc[v] \in LeaseSteps
      BY <3>1
    <3>3. QED BY <2>3, <3>1, <3>2 DEF RecordPayment
  <2>4. CASE AbortOrder(w) BY <2>4 DEF AbortOrder
  <2>5. QED BY <1>2, <2>1, <2>2, <2>3, <2>4 DEF Create
<1>3. ASSUME NEW w \in Workers, Check(w) PROVE LeaseIsCurrent'
  <2> USE DEF Goto, Stop, Reply, Write, Fault
  <2>1. CASE QueryUpstream(w)
    <3>1. UNCHANGED <<fresh, status, job>> BY <2>1 DEF QueryUpstream
    <3>2. \A v \in Workers \ {w} : pc'[v] = pc[v] BY <2>1 DEF QueryUpstream
    <3>3. pc[w] \notin LeaseSteps BY <2>1 DEF QueryUpstream
    <3>4. QED BY <3>1, <3>2, <3>3, LeaseKept
  <2>2. CASE VoidUpstream(w)
    <3>1. UNCHANGED <<fresh, status, job>> BY <2>2 DEF VoidUpstream
    <3>2. \A v \in Workers \ {w} : pc'[v] = pc[v] BY <2>2 DEF VoidUpstream
    <3>3. pc[w] \notin LeaseSteps BY <2>2 DEF VoidUpstream
    <3>4. QED BY <3>1, <3>2, <3>3, LeaseKept
  <2>3. CASE PersistTradeNo(w) BY <2>3 DEF PersistTradeNo
  <2>4. CASE CloseOrder(w)
    <3> SUFFICES ASSUME NEW p \in Orders, NEW v \in fresh'[p]
                 PROVE  status'[p] = "RECHARGING" /\ job'[v] = p /\ pc'[v] \in LeaseSteps
      OBVIOUS
    <3>1. v \in fresh[p]
      <4>1. fresh' \in {fresh, [fresh EXCEPT ![job[w]] = {}]}
        BY <2>4, Zenon DEF CloseOrder
      <4>2. QED BY <4>1
    <3>2. v \in Workers /\ status[p] = "RECHARGING" /\ job[v] = p /\ pc[v] \in LeaseSteps
      BY <3>1
    <3>3. QED BY <2>4, <3>1, <3>2 DEF CloseOrder, Target
  <2>5. QED BY <1>3, <2>1, <2>2, <2>3, <2>4 DEF Check
<1>4. ASSUME NEW w \in Workers, Confirm(w) PROVE LeaseIsCurrent'
  <2> USE DEF Goto, Stop, Reply, Write, Fault
  <2>1. CASE RejectAmount(w) BY <2>1 DEF RejectAmount
  <2>2. CASE ToPaid(w)
    <3> SUFFICES ASSUME NEW p \in Orders, NEW v \in fresh'[p]
                 PROVE  status'[p] = "RECHARGING" /\ job'[v] = p /\ pc'[v] \in LeaseSteps
      OBVIOUS
    <3>1. v \in fresh[p]
      <4>1. fresh' \in {fresh, [fresh EXCEPT ![job[w]] = {}]}
        BY <2>2, Zenon DEF ToPaid
      <4>2. QED BY <4>1
    <3>2. v \in Workers /\ status[p] = "RECHARGING" /\ job[v] = p /\ pc[v] \in LeaseSteps
      BY <3>1
    <3>3. QED BY <2>2, <3>1, <3>2 DEF ToPaid, Payable, PaidInFull
  <2>3. CASE AlreadyProcessed(w) BY <2>3 DEF AlreadyProcessed
  <2>4. CASE SwallowReadError(w) BY <2>4 DEF SwallowReadError, Swallow
  <2>5. QED BY <1>4, <2>1, <2>2, <2>3, <2>4 DEF Confirm
<1>5. ASSUME NEW w \in Workers, Fulfil(w) PROVE LeaseIsCurrent'
  <2> USE DEF Goto, Stop, Reply, Write, Fault
  <2>1. CASE AcquireLease(w)
    <3> SUFFICES ASSUME NEW p \in Orders, NEW v \in fresh'[p]
                 PROVE  status'[p] = "RECHARGING" /\ job'[v] = p /\ pc'[v] \in LeaseSteps
      OBVIOUS
    <3>1. v \in fresh[p]
      <4>1. fresh' \in {fresh, [fresh EXCEPT ![job[w]] = {}]}
        BY <2>1, Zenon DEF AcquireLease
      <4>2. QED BY <4>1
    <3>2. v \in Workers /\ status[p] = "RECHARGING" /\ job[v] = p /\ pc[v] \in LeaseSteps
      BY <3>1
    <3>3. QED BY <2>1, <3>1, <3>2 DEF AcquireLease, LeaseIsFree
  <2>2. CASE ReloadLease(w)
    <3> DEFINE o == job[w]
    <3>1. o \in Orders /\ status' = status /\ job' = job
      BY <2>2 DEF ReloadLease
    <3>2. \A v \in Workers \ {w} : pc'[v] = pc[v] BY <2>2 DEF ReloadLease
    <3>3. CASE status[o] = "RECHARGING"
      <4>1. \A p \in Orders : fresh'[p] \subseteq fresh[p] \cup (IF p = o THEN {w} ELSE {})
        BY <2>2, <3>3 DEF ReloadLease
      <4>2. pc'[w] \in LeaseSteps BY <2>2, <3>3 DEF ReloadLease
      <4>3. SUFFICES ASSUME NEW p \in Orders, NEW v \in fresh'[p]
                     PROVE  status'[p] = "RECHARGING" /\ job'[v] = p /\ pc'[v] \in LeaseSteps
        OBVIOUS
      <4>4. CASE v = w /\ p = o BY <3>1, <3>3, <4>2, <4>4
      <4>5. CASE v \in fresh[p]
        <5>1. v \in Workers /\ status[p] = "RECHARGING" /\ job[v] = p /\ pc[v] \in LeaseSteps
          BY <4>5
        <5>2. QED BY <3>1, <3>2, <4>2, <5>1
      <4>6. QED BY <4>1, <4>3, <4>4, <4>5
    <3>4. CASE status[o] # "RECHARGING"
      <4>1. fresh' = fresh BY <2>2, <3>4 DEF ReloadLease
      <4>2. SUFFICES ASSUME NEW p \in Orders, NEW v \in fresh'[p]
                     PROVE  status'[p] = "RECHARGING" /\ job'[v] = p /\ pc'[v] \in LeaseSteps
        OBVIOUS
      <4>3. v \in Workers /\ status[p] = "RECHARGING" /\ job[v] = p /\ pc[v] \in LeaseSteps
        BY <4>1
      <4>4. v # w BY <3>4, <4>3
      <4>5. QED BY <3>1, <3>2, <4>3, <4>4
    <3>5. QED BY <3>3, <3>4
  <2>3. CASE LookupCode(w)
    <3>1. UNCHANGED <<fresh, status, job>> BY <2>3 DEF LookupCode
    <3>2. /\ pc'[w] \in {"rebate", "redeem", "make"}
          /\ \A v \in Workers \ {w} : pc'[v] = pc[v]
      BY <2>3 DEF LookupCode
    <3>3. pc[w] \in LeaseSteps => pc'[w] \in LeaseSteps
      BY <3>2
    <3> HIDE DEF OrderInv, TypeOK, LeaseIsCurrent, WorkerInv, LeaseSteps
    <3>4. QED BY <3>1, <3>2, <3>3, LeaseKept
  <2>4. CASE CreateCode(w)
    <3>1. UNCHANGED <<fresh, status, job>> BY <2>4 DEF CreateCode
    <3>2. /\ pc'[w] \in {"redeem", "fail"}
          /\ \A v \in Workers \ {w} : pc'[v] = pc[v]
      BY <2>4 DEF CreateCode
    <3>3. pc[w] \in LeaseSteps => pc'[w] \in LeaseSteps
      BY <3>2
    <3> HIDE DEF OrderInv, TypeOK, LeaseIsCurrent, WorkerInv, LeaseSteps
    <3>4. QED BY <3>1, <3>2, <3>3, LeaseKept
  <2>5. CASE RedeemCode(w)
    <3>1. UNCHANGED <<fresh, status, job>> BY <2>5 DEF RedeemCode
    <3>2. /\ pc'[w] \in {"rebate", "fail"}
          /\ \A v \in Workers \ {w} : pc'[v] = pc[v]
      BY <2>5 DEF RedeemCode
    <3>3. pc[w] \in LeaseSteps => pc'[w] \in LeaseSteps
      BY <3>2
    <3> HIDE DEF OrderInv, TypeOK, LeaseIsCurrent, WorkerInv, LeaseSteps
    <3>4. QED BY <3>1, <3>2, <3>3, LeaseKept
  <2>6. CASE AssignSubscription(w)
    <3>1. UNCHANGED <<fresh, status, job>> BY <2>6 DEF AssignSubscription
    <3>2. /\ pc'[w] \in {"rebate", "fail"}
          /\ \A v \in Workers \ {w} : pc'[v] = pc[v]
      BY <2>6 DEF AssignSubscription
    <3>3. pc[w] \in LeaseSteps => pc'[w] \in LeaseSteps
      BY <3>2
    <3> HIDE DEF OrderInv, TypeOK, LeaseIsCurrent, WorkerInv, LeaseSteps
    <3>4. QED BY <3>1, <3>2, <3>3, LeaseKept
  <2>7. CASE DeliveryFails(w)
    <3>1. UNCHANGED <<fresh, status, job>> BY <2>7 DEF DeliveryFails
    <3>2. /\ pc'[w] \in {"fail"}
          /\ \A v \in Workers \ {w} : pc'[v] = pc[v]
      BY <2>7 DEF DeliveryFails
    <3>3. pc[w] \in LeaseSteps => pc'[w] \in LeaseSteps
      BY <3>2
    <3> HIDE DEF OrderInv, TypeOK, LeaseIsCurrent, WorkerInv, LeaseSteps
    <3>4. QED BY <3>1, <3>2, <3>3, LeaseKept
  <2>8. CASE ApplyRebate(w)
    <3>1. UNCHANGED <<fresh, status, job>> BY <2>8 DEF ApplyRebate
    <3>2. /\ pc'[w] \in {"complete"}
          /\ \A v \in Workers \ {w} : pc'[v] = pc[v]
      BY <2>8 DEF ApplyRebate
    <3>3. pc[w] \in LeaseSteps => pc'[w] \in LeaseSteps
      BY <3>2
    <3> HIDE DEF OrderInv, TypeOK, LeaseIsCurrent, WorkerInv, LeaseSteps
    <3>4. QED BY <3>1, <3>2, <3>3, LeaseKept
  <2>9. CASE MarkCompleted(w)
    <3> SUFFICES ASSUME NEW p \in Orders, NEW v \in fresh'[p]
                 PROVE  status'[p] = "RECHARGING" /\ job'[v] = p /\ pc'[v] \in LeaseSteps
      OBVIOUS
    <3>1. v \in fresh[p]
      <4>1. fresh' \in {fresh, [fresh EXCEPT ![job[w]] = {}]}
        BY <2>9, Zenon DEF MarkCompleted
      <4>2. QED BY <4>1
    <3>2. v \in Workers /\ status[p] = "RECHARGING" /\ job[v] = p /\ pc[v] \in LeaseSteps
      BY <3>1
    <3>3. QED BY <2>9, <3>1, <3>2 DEF MarkCompleted, HoldsLease
  <2>10. CASE MarkFailed(w)
    <3> SUFFICES ASSUME NEW p \in Orders, NEW v \in fresh'[p]
                 PROVE  status'[p] = "RECHARGING" /\ job'[v] = p /\ pc'[v] \in LeaseSteps
      OBVIOUS
    <3>1. v \in fresh[p]
      <4>1. fresh' \in {fresh, [fresh EXCEPT ![job[w]] = {}]}
        BY <2>10, Zenon DEF MarkFailed
      <4>2. QED BY <4>1
    <3>2. v \in Workers /\ status[p] = "RECHARGING" /\ job[v] = p /\ pc[v] \in LeaseSteps
      BY <3>1
    <3>3. QED BY <2>10, <3>1, <3>2 DEF MarkFailed, HoldsLease
  <2>11. QED BY <1>5, <2>1, <2>2, <2>3, <2>4, <2>5, <2>6, <2>7, <2>8, <2>9, <2>10 DEF Fulfil
<1>6. ASSUME NEW w \in Workers, Crash(w) PROVE LeaseIsCurrent' BY <1>6 DEF Crash, Stop, Fault
<1>7. ASSUME NEW o \in Orders, Environment(o) \/ SwallowProviderError(o) PROVE LeaseIsCurrent'
  <2>1. CASE Pay(o) BY <2>1 DEF Pay, Age, Fault
  <2>2. CASE OrderTimesOut(o) BY <2>2 DEF OrderTimesOut, Age, Fault
  <2>3. CASE RowAges(o) BY <2>3 DEF RowAges, Age, Fault
  <2>4. CASE WorkerStalls(o) BY <2>4 DEF WorkerStalls, Age, Fault
  <2>5. CASE SwallowProviderError(o) BY <2>5 DEF SwallowProviderError, Swallow, Fault
  <2>6. QED BY <1>7, <2>1, <2>2, <2>3, <2>4, <2>5 DEF Environment
<1>8. CASE UNCHANGED vars BY <1>8 DEF vars
<1>9. QED BY <1>1, <1>2, <1>3, <1>4, <1>5, <1>6, <1>7, <1>8 DEF Next, Proceed

\* What a worker established by its step is never taken away by others:
\* payments, deliveries and claims are stable.
LEMMA WorkerStep == ASSUME OrderInv, [Next]_vars PROVE WorkerInv'
<1> USE DEF OrderInv, TypeOK, row, outside, goods, worker, PaidInv, WorkerInv, CreateInv, Creating, Delivered, UpstreamPaid, LeaseSteps, GoodsInv
<1>1. ASSUME NEW w \in Workers, NEW o \in Orders, Arrive(w, o) PROVE WorkerInv'
  <2> USE DEF Begin
  <2>1. CASE CheckLimits(w, o) BY <2>1 DEF CheckLimits
  <2>2. CASE Cancel(w, o) BY <2>2 DEF Cancel
  <2>3. CASE Expire(w, o) BY <2>3 DEF Expire
  <2>4. CASE Verify(w, o) BY <2>4 DEF Verify
  <2>5. CASE Notify(w, o) BY <2>5 DEF Notify
  <2>6. CASE RetryFulfillment(w, o) BY <2>6 DEF RetryFulfillment
  <2>7. QED BY <1>1, <2>1, <2>2, <2>3, <2>4, <2>5, <2>6 DEF Arrive
<1>2. ASSUME NEW w \in Workers, Create(w) PROVE WorkerInv'
  <2> USE DEF Goto, Stop, Reply, Write, Fault
  <2>1. CASE InsertOrder(w) BY <2>1 DEF InsertOrder
  <2>2. CASE CreatePayment(w) BY <2>2 DEF CreatePayment
  <2>3. CASE RecordPayment(w) BY <2>3 DEF RecordPayment
  <2>4. CASE AbortOrder(w) BY <2>4 DEF AbortOrder
  <2>5. QED BY <1>2, <2>1, <2>2, <2>3, <2>4 DEF Create
<1>3. ASSUME NEW w \in Workers, Check(w) PROVE WorkerInv'
  <2> USE DEF Goto, Stop, Reply, Write, Fault
  <2>1. CASE QueryUpstream(w) BY <2>1 DEF QueryUpstream
  <2>2. CASE VoidUpstream(w) BY <2>2 DEF VoidUpstream
  <2>3. CASE PersistTradeNo(w) BY <2>3 DEF PersistTradeNo
  <2>4. CASE CloseOrder(w) BY <2>4 DEF CloseOrder, Target
  <2>5. QED BY <1>3, <2>1, <2>2, <2>3, <2>4 DEF Check
<1>4. ASSUME NEW w \in Workers, Confirm(w) PROVE WorkerInv'
  <2> USE DEF Goto, Stop, Reply, Write, Fault
  <2>1. CASE RejectAmount(w) BY <2>1 DEF RejectAmount
  <2>2. CASE ToPaid(w) BY <2>2 DEF ToPaid, Payable, PaidInFull
  <2>3. CASE AlreadyProcessed(w) BY <2>3 DEF AlreadyProcessed
  <2>4. CASE SwallowReadError(w) BY <2>4 DEF SwallowReadError, Swallow
  <2>5. QED BY <1>4, <2>1, <2>2, <2>3, <2>4 DEF Confirm
<1>5. ASSUME NEW w \in Workers, Fulfil(w) PROVE WorkerInv'
  <2> USE DEF Goto, Stop, Reply, Write, Fault
  <2>1. CASE AcquireLease(w) BY <2>1 DEF AcquireLease, LeaseIsFree
  <2>2. CASE ReloadLease(w) BY <2>2 DEF ReloadLease
  <2>3. CASE LookupCode(w) BY <2>3 DEF LookupCode
  <2>4. CASE CreateCode(w) BY <2>4 DEF CreateCode
  <2>5. CASE RedeemCode(w) BY <2>5 DEF RedeemCode
  <2>6. CASE AssignSubscription(w) BY <2>6 DEF AssignSubscription
  <2>7. CASE DeliveryFails(w) BY <2>7 DEF DeliveryFails
  <2>8. CASE ApplyRebate(w)
    <3>0. job[w] \in Orders /\ claimed \in [Orders -> BOOLEAN] /\ pc[w] = "rebate"
      BY <2>8 DEF ApplyRebate
    <3>1. /\ claimed' \in {claimed, [claimed EXCEPT ![job[w]] = TRUE]} /\ claimed'[job[w]]
          /\ Delivered(job[w]) /\ paidAt[job[w]]
      <4>1. \/ claimed[job[w]] /\ UNCHANGED claimed
            \/ claimed' = [claimed EXCEPT ![job[w]] = TRUE]
        BY <2>8, Zenon DEF ApplyRebate
      <4>2. Delivered(job[w]) /\ paidAt[job[w]]
        BY <3>0
      <4>3. QED BY <3>0, <4>1, <4>2
    <3>2. UNCHANGED <<status, paidAt, upstream, code, assigned, job>>
      BY <2>8 DEF ApplyRebate
    <3>3. pc'[w] = "complete" /\ \A v \in Workers \ {w} : pc'[v] = pc[v]
      <4>1. pc' = [pc EXCEPT ![w] = "complete"]
        BY <2>8 DEF ApplyRebate
      <4>2. QED BY <4>1
    <3>4. \A o \in Orders : claimed[o] => claimed'[o]
      <4> HIDE DEF OrderInv, PaidInv, WorkerInv, CreateInv, GoodsInv, TypeOK, Delivered
      <4>1. QED BY <3>0, <3>1
    <3>5. QED BY <3>1, <3>2, <3>3, <3>4
  <2>9. CASE MarkCompleted(w) BY <2>9 DEF MarkCompleted, HoldsLease
  <2>10. CASE MarkFailed(w) BY <2>10 DEF MarkFailed, HoldsLease
  <2>11. QED BY <1>5, <2>1, <2>2, <2>3, <2>4, <2>5, <2>6, <2>7, <2>8, <2>9, <2>10 DEF Fulfil
<1>6. ASSUME NEW w \in Workers, Crash(w) PROVE WorkerInv' BY <1>6 DEF Crash, Stop, Fault
<1>7. ASSUME NEW o \in Orders, Environment(o) \/ SwallowProviderError(o) PROVE WorkerInv'
  <2>1. CASE Pay(o) BY <2>1 DEF Pay, Age, Fault
  <2>2. CASE OrderTimesOut(o) BY <2>2 DEF OrderTimesOut, Age, Fault
  <2>3. CASE RowAges(o) BY <2>3 DEF RowAges, Age, Fault
  <2>4. CASE WorkerStalls(o) BY <2>4 DEF WorkerStalls, Age, Fault
  <2>5. CASE SwallowProviderError(o) BY <2>5 DEF SwallowProviderError, Swallow, Fault
  <2>6. QED BY <1>7, <2>1, <2>2, <2>3, <2>4, <2>5 DEF Environment
<1>8. CASE UNCHANGED vars BY <1>8 DEF vars
<1>9. QED BY <1>1, <1>2, <1>3, <1>4, <1>5, <1>6, <1>7, <1>8 DEF Next, Proceed

\* The invariant holds before the first order.
LEMMA InitOrderInv == Init => OrderInv
<1> SUFFICES ASSUME Init PROVE OrderInv OBVIOUS
<1>1. TypeOK BY InitTypeOK
<1>2. GoodsInv BY DEF Init, GoodsInv, Delivered
<1>3. PaidInv BY DEF Init, PaidInv, Delivered, UpstreamPaid
<1>4. CreateInv BY DEF Init, CreateInv, Creating
<1>5. WorkerInv BY DEF Init, WorkerInv, LeaseSteps
<1>6. LeaseIsCurrent BY DEF Init, LeaseIsCurrent
<1>7. QED BY <1>1, <1>2, <1>3, <1>4, <1>5, <1>6 DEF OrderInv

\* The invariant is inductive.
LEMMA NextOrderInv == ASSUME OrderInv, [Next]_vars PROVE OrderInv'
<1>1. TypeOK' BY NextTypeOK DEF OrderInv
<1>2. QED BY <1>1, GoodsStep, PaidStep, CreateStep, WorkerStep, LeaseStep DEF OrderInv

-----------------------------------------------------------------------------
(* The theorems. *)

\* Every reachable state is well typed.
THEOREM TypeCorrect == Spec => []TypeOK
<1>1. Init => TypeOK BY InitTypeOK
<1>2. TypeOK /\ [Next]_vars => TypeOK' BY NextTypeOK
<1>3. QED BY <1>1, <1>2, PTL DEF Spec

\* The inductive invariant holds in every reachable state.
THEOREM Invariance == Spec => []OrderInv
<1>1. Init => OrderInv BY InitOrderInv
<1>2. OrderInv /\ [Next]_vars => OrderInv' BY NextOrderInv
<1>3. QED BY <1>1, <1>2, PTL DEF Spec

\* However many workers run webhooks, checks and retries on an order, and
\* whatever crashes, its purchase and its rebate are given at most once.
THEOREM AtMostOnce == Spec => []DeliveredAtMostOnce
<1>1. OrderInv => DeliveredAtMostOnce
  BY DEF OrderInv, GoodsInv, DeliveredAtMostOnce
<1>2. QED BY <1>1, Invariance, PTL

\* A COMPLETED order was delivered and its rebate was decided, once each.
THEOREM CompletedDelivered == Spec => []CompletedIsDelivered
<1>1. OrderInv => CompletedIsDelivered
  BY DEF OrderInv, GoodsInv, PaidInv, CompletedIsDelivered
<1>2. QED BY <1>1, Invariance, PTL

\* Only an order the provider holds the exact amount for is delivered.
THEOREM OnlyIfPaid == Spec => []DeliveredOnlyIfPaid
<1>1. OrderInv => DeliveredOnlyIfPaid
  BY DEF OrderInv, GoodsInv, PaidInv, DeliveredOnlyIfPaid
<1>2. QED BY <1>1, Invariance, PTL

\* A lease version equals updated_at only for a worker inside the fulfilment.
THEOREM LeaseCurrent == Spec => []LeaseIsCurrent
<1>1. OrderInv => LeaseIsCurrent BY DEF OrderInv
<1>2. QED BY <1>1, Invariance, PTL

-----------------------------------------------------------------------------
(* No step takes a payment back. *)

\* The steps that write the status; all others leave status, paid_at, the
\* provider's books and the deliveries as they are.
Visible(w) ==
  \/ InsertOrder(w) \/ CreatePayment(w) \/ RecordPayment(w) \/ AbortOrder(w)
  \/ VoidUpstream(w) \/ PersistTradeNo(w) \/ CloseOrder(w) \/ ToPaid(w)
  \/ AcquireLease(w) \/ RedeemCode(w) \/ AssignSubscription(w) \/ ApplyRebate(w)
  \/ MarkCompleted(w) \/ MarkFailed(w)

\* All other steps leave the status, the payment and the deliveries alone.
LEMMA OtherStepsAreQuiet ==
  ASSUME [Next]_vars
  PROVE  \/ \E w \in Workers : Visible(w)
         \/ \E o \in Orders : Pay(o)
         \/ UNCHANGED <<status, paidAt, upstream, grants, rebates>>
<1> DEFINE Quiet == UNCHANGED <<status, paidAt, upstream, grants, rebates>>
<1> USE DEF row, outside, goods, worker
<1>1. ASSUME NEW w \in Workers, NEW o \in Orders, Arrive(w, o) PROVE Quiet
  BY <1>1 DEF Arrive, CheckLimits, Cancel, Expire, Verify, Notify, RetryFulfillment
<1>2. ASSUME NEW w \in Workers, Proceed(w), ~Visible(w) PROVE Quiet
  <2>1. CASE QueryUpstream(w) BY <2>1 DEF QueryUpstream
  <2>2. CASE RejectAmount(w) BY <2>2 DEF RejectAmount, Reply
  <2>3. CASE AlreadyProcessed(w) BY <2>3 DEF AlreadyProcessed, Reply
  <2>4. CASE SwallowReadError(w) BY <2>4 DEF SwallowReadError, Swallow
  <2>5. CASE ReloadLease(w) BY <2>5 DEF ReloadLease, Reply
  <2>6. CASE LookupCode(w) BY <2>6 DEF LookupCode
  <2>7. CASE CreateCode(w) BY <2>7 DEF CreateCode
  <2>8. CASE DeliveryFails(w) BY <2>8 DEF DeliveryFails
  <2>9. QED
    BY <1>2, <2>1, <2>2, <2>3, <2>4, <2>5, <2>6, <2>7, <2>8
    DEF Visible, Proceed, Create, Check, Confirm, Fulfil
<1>3. ASSUME NEW w \in Workers, Crash(w) PROVE Quiet BY <1>3 DEF Crash
<1>4. ASSUME NEW o \in Orders, Environment(o) \/ SwallowProviderError(o), ~Pay(o) PROVE Quiet
  BY <1>4 DEF Environment, OrderTimesOut, RowAges, WorkerStalls, Age, SwallowProviderError, Swallow
<1>5. CASE UNCHANGED vars BY <1>5 DEF vars
<1>6. QED BY <1>1, <1>2, <1>3, <1>4, <1>5 DEF Next

\* paid_at is never cleared and COMPLETED never left.
LEMMA PaymentIsKept ==
  ASSUME OrderInv, [Next]_vars, NEW o \in Orders, paidAt[o]
  PROVE  paidAt'[o] /\ (status[o] = "COMPLETED" => status'[o] = "COMPLETED")
<1> USE DEF OrderInv, TypeOK, PaidInv, CreateInv, Creating, row, outside, goods
<1>1. ASSUME NEW w \in Workers, Visible(w)
      PROVE  paidAt'[o] /\ (status[o] = "COMPLETED" => status'[o] = "COMPLETED")
  <2> USE DEF Write
  <2>1. CASE InsertOrder(w) BY <2>1 DEF InsertOrder
  <2>2. CASE CreatePayment(w) BY <2>2 DEF CreatePayment
  <2>3. CASE RecordPayment(w) BY <2>3 DEF RecordPayment
  <2>4. CASE AbortOrder(w) BY <2>4 DEF AbortOrder
  <2>5. CASE VoidUpstream(w) BY <2>5 DEF VoidUpstream
  <2>6. CASE PersistTradeNo(w) BY <2>6 DEF PersistTradeNo
  <2>7. CASE CloseOrder(w) BY <2>7 DEF CloseOrder
  <2>8. CASE ToPaid(w) BY <2>8 DEF ToPaid, Payable
  <2>9. CASE AcquireLease(w) BY <2>9 DEF AcquireLease, LeaseIsFree
  <2>10. CASE RedeemCode(w) BY <2>10 DEF RedeemCode
  <2>11. CASE AssignSubscription(w) BY <2>11 DEF AssignSubscription
  <2>12. CASE ApplyRebate(w) BY <2>12 DEF ApplyRebate
  <2>13. CASE MarkCompleted(w)
    <3>1. status' \in {status, [status EXCEPT ![job[w]] = "COMPLETED"]}
      BY <2>13, Zenon DEF MarkCompleted
    <3>2. UNCHANGED paidAt BY <2>13 DEF MarkCompleted
    <3>3. QED BY <3>1, <3>2
  <2>14. CASE MarkFailed(w) BY <2>14 DEF MarkFailed, HoldsLease
  <2>15. QED
    BY <1>1, <2>1, <2>2, <2>3, <2>4, <2>5, <2>6, <2>7, <2>8, <2>9, <2>10, <2>11,
       <2>12, <2>13, <2>14 DEF Visible
<1>2. ASSUME NEW p \in Orders, Pay(p)
      PROVE  paidAt'[o] /\ (status[o] = "COMPLETED" => status'[o] = "COMPLETED")
  BY <1>2 DEF Pay
<1>3. QED BY <1>1, <1>2, OtherStepsAreQuiet

\* A cancellation or expiry decided on an old answer, or a late failure report
\* of CreateOrder, never undoes a payment, and COMPLETED is final.
THEOREM PaidStays == Spec => PaidStaysPaid
<1> DEFINE Kept(o) ==
      paidAt[o] => /\ paidAt'[o]
                   /\ status'[o] \in {"PAID", "RECHARGING", "FAILED", "COMPLETED"}
                   /\ status[o] = "COMPLETED" => status'[o] = "COMPLETED"
<1>1. ASSUME OrderInv, [Next]_vars PROVE [\A o \in Orders : Kept(o)]_vars
  <2>1. OrderInv' BY <1>1, NextOrderInv
  <2>2. ASSUME NEW o \in Orders PROVE Kept(o)
    BY <1>1, <2>1, PaymentIsKept DEF OrderInv, PaidInv
  <2>3. QED BY <2>2
<1>2. QED BY <1>1, Invariance, PTL DEF Spec, PaidStaysPaid

-----------------------------------------------------------------------------
(* PaymentOrder implements PaymentPromise: every step of a worker, of the    *)
(* user, of the provider or of a fault is, on the mapped state, a step of    *)
(* the abstract specification or leaves it unchanged.                        *)

\* The stage by status; only FAILED depends on paid_at.
LEMMA StageValue ==
  /\ \A paid \in BOOLEAN :
       /\ StageOf("NONE", paid) = "none" /\ StageOf("PENDING", paid) = "open"
       /\ StageOf("CANCELLED", paid) = "closed" /\ StageOf("EXPIRED", paid) = "closed"
       /\ StageOf("PAID", paid) = "paid" /\ StageOf("RECHARGING", paid) = "paid"
       /\ StageOf("COMPLETED", paid) = "settled"
  /\ StageOf("FAILED", TRUE) = "paid" /\ StageOf("FAILED", FALSE) = "closed"
  BY DEF StageOf

\* Writing status c to order o, perhaps with paid_at, moves that order alone.
LEMMA StageMove ==
  ASSUME OrderInv, NEW o \in Orders, NEW c \in Status, NEW b,
         status' = [status EXCEPT ![o] = c],
         paidAt' \in {paidAt, [paidAt EXCEPT ![o] = TRUE]},
         StageOf(c, paidAt'[o]) = b
  PROVE  [p \in Orders |-> StageOf(status'[p], paidAt'[p])]
           = [[p \in Orders |-> StageOf(status[p], paidAt[p])] EXCEPT ![o] = b]
<1>1. status \in [Orders -> Status] /\ paidAt \in [Orders -> BOOLEAN]
  BY DEF OrderInv, TypeOK
<1>2. \A p \in Orders \ {o} : status'[p] = status[p] /\ paidAt'[p] = paidAt[p]
  BY <1>1
<1>3. \A p \in Orders \ {o} : StageOf(status'[p], paidAt'[p]) = StageOf(status[p], paidAt[p])
  BY <1>2, Zenon
<1>4. StageOf(status'[o], paidAt'[o]) = b BY <1>1
<1>5. QED BY <1>3, <1>4

\* Nothing the promise speaks of changes.
LEMMA StutterStep ==
  ASSUME UNCHANGED <<status, paidAt, grants, rebates>>,
         \A o \in Orders : (upstream'[o] = "exact") = (upstream[o] = "exact")
  PROVE  UNCHANGED Promise!promise
  BY DEF Promise!promise

\* The status changes, its stage does not.
LEMMA RestageStep ==
  ASSUME OrderInv, NEW o \in Orders, NEW c \in Status,
         status' = [status EXCEPT ![o] = c],
         UNCHANGED <<paidAt, upstream, grants, rebates>>,
         StageOf(c, paidAt[o]) = StageOf(status[o], paidAt[o])
  PROVE  UNCHANGED Promise!promise
<1>1. status \in [Orders -> Status] BY DEF OrderInv, TypeOK
<1>2. \A p \in Orders : StageOf(status'[p], paidAt'[p]) = StageOf(status[p], paidAt[p])
  BY <1>1
<1>3. [p \in Orders |-> StageOf(status'[p], paidAt'[p])]
        = [p \in Orders |-> StageOf(status[p], paidAt[p])]
  BY <1>2
<1>4. QED BY <1>3 DEF Promise!promise

\* Inserting the row opens the order.
LEMMA InsertStep ==
  ASSUME OrderInv, NEW w \in Workers, NEW o \in Orders, job[w] = o, InsertOrder(w)
  PROVE  Promise!OpenIt(o)
<1>1. status[o] = "NONE" /\ paidAt[o] \in BOOLEAN
  BY DEF InsertOrder, OrderInv, TypeOK, CreateInv
<1>2. UNCHANGED <<paidAt, upstream, grants, rebates>>
  BY DEF InsertOrder, outside, goods
<1>3. status' = [status EXCEPT ![o] = "PENDING"] BY DEF InsertOrder, Write
<1>4. /\ StageOf(status[o], paidAt[o]) = "none"
      /\ StageOf("PENDING", paidAt'[o]) = "open"
  BY <1>1, <1>2, StageValue
<1>5. QED BY <1>2, <1>3, <1>4, StageMove DEF Promise!OpenIt, Status

\* An order in stage "open" or "closed" is closed or stays so.
LEMMA CloseStep ==
  ASSUME OrderInv, NEW o \in Orders, NEW c \in {"CANCELLED", "EXPIRED", "FAILED"},
         status[o] \in {"PENDING", "CANCELLED", "EXPIRED"},
         status' = [status EXCEPT ![o] = c],
         UNCHANGED <<paidAt, upstream, grants, rebates>>
  PROVE  Promise!CloseIt(o) \/ UNCHANGED Promise!promise
<1>1. paidAt[o] = FALSE BY DEF OrderInv, TypeOK, PaidInv
<1>2. StageOf(c, paidAt[o]) = "closed" BY <1>1, StageValue
<1>3. c \in Status BY DEF Status
<1>4. CASE status[o] = "PENDING"
  <2>1. StageOf(status[o], paidAt[o]) = "open" BY <1>1, <1>4, StageValue
  <2>2. QED BY <1>2, <1>3, <2>1, StageMove DEF Promise!CloseIt
<1>5. CASE status[o] # "PENDING"
  <2>1. StageOf(status[o], paidAt[o]) = "closed" BY <1>1, <1>5, StageValue
  <2>2. QED BY <1>2, <1>3, <2>1, RestageStep
<1>6. QED BY <1>4, <1>5

\* The UPDATE of toPaid accepts the order; when it matches no row nothing happens.
LEMMA AcceptStep ==
  ASSUME OrderInv, NEW w \in Workers, NEW o \in Orders, job[w] = o, ToPaid(w)
  PROVE  Promise!Accept(o) \/ UNCHANGED Promise!promise
<1>1. upstream[o] = "exact" /\ UNCHANGED <<upstream, grants, rebates>>
  BY DEF ToPaid, PaidInFull, outside, goods
<1>2. CASE Payable(o)
  <2>1. /\ status' = [status EXCEPT ![o] = "PAID"]
        /\ paidAt' = [paidAt EXCEPT ![o] = TRUE]
    BY <1>2 DEF ToPaid, Write
  <2>2. paidAt[o] = FALSE /\ status[o] \in {"PENDING", "CANCELLED", "EXPIRED"}
    BY <1>2 DEF Payable, OrderInv, TypeOK, PaidInv
  <2>3. paidAt'[o] = TRUE BY <2>1 DEF OrderInv, TypeOK
  <2>4. StageOf(status[o], paidAt[o]) \in {"open", "closed"} BY <2>2, StageValue
  <2>5. StageOf("PAID", paidAt'[o]) = "paid" BY <2>3, StageValue
  <2>6. QED BY <1>1, <2>1, <2>4, <2>5, StageMove DEF Promise!Accept, Status
<1>3. CASE ~Payable(o)
  BY <1>1, <1>3, StutterStep DEF ToPaid
<1>4. QED BY <1>2, <1>3

\* A delivery, by either kind of record.
LEMMA DeliverStep ==
  ASSUME OrderInv, NEW w \in Workers, NEW o \in Orders, job[w] = o,
         RedeemCode(w) \/ AssignSubscription(w)
  PROVE  Promise!Deliver(o) \/ UNCHANGED Promise!promise
<1>1. UNCHANGED <<status, paidAt, upstream, rebates>>
  BY DEF RedeemCode, AssignSubscription, row, outside
<1>2. grants' = grants \/ (~Delivered(o) /\ grants' = [grants EXCEPT ![o] = @ + 1])
  BY DEF RedeemCode, AssignSubscription, OrderInv, WorkerInv, Delivered
<1>3. CASE grants' = grants
  BY <1>1, <1>3, StutterStep
<1>4. CASE ~Delivered(o) /\ grants' = [grants EXCEPT ![o] = @ + 1]
  <2>1. pc[w] \in {"redeem", "assign"} BY DEF RedeemCode, AssignSubscription
  <2>2. paidAt[o] = TRUE
    BY <2>1 DEF OrderInv, TypeOK, WorkerInv, LeaseSteps
  <2>3. status[o] \in {"PAID", "RECHARGING", "FAILED"} /\ grants[o] = 0
    BY <1>4, <2>2 DEF OrderInv, PaidInv, GoodsInv
  <2>4. StageOf(status[o], paidAt[o]) = "paid" BY <2>2, <2>3, StageValue
  <2>5. grants' = [grants EXCEPT ![o] = 1] BY <1>4, <2>3
  <2>6. QED BY <1>1, <2>3, <2>4, <2>5 DEF Promise!Deliver
<1>5. QED BY <1>2, <1>3, <1>4

\* The rebate is credited after the delivery, and once.
LEMMA CreditStep ==
  ASSUME OrderInv, NEW w \in Workers, NEW o \in Orders, job[w] = o, ApplyRebate(w)
  PROVE  Promise!Credit(o) \/ UNCHANGED Promise!promise
<1>1. UNCHANGED <<status, paidAt, upstream, grants>>
  BY DEF ApplyRebate, row, outside
<1>2. CASE claimed[o]
  BY <1>1, <1>2, StutterStep DEF ApplyRebate
<1>3. CASE ~claimed[o]
  <2>1. rebates' = [rebates EXCEPT ![o] = @ + 1] BY <1>3 DEF ApplyRebate
  <2>2. pc[w] = "rebate" BY DEF ApplyRebate
  <2>3. paidAt[o] = TRUE /\ Delivered(o)
    BY <2>2 DEF OrderInv, TypeOK, WorkerInv, LeaseSteps
  <2>4. /\ status[o] \in {"PAID", "RECHARGING", "FAILED"}
        /\ grants[o] = 1 /\ rebates[o] = 0
    BY <1>3, <2>3 DEF OrderInv, PaidInv, GoodsInv
  <2>5. StageOf(status[o], paidAt[o]) = "paid" BY <2>3, <2>4, StageValue
  <2>6. rebates' = [rebates EXCEPT ![o] = 1] BY <2>1, <2>4
  <2>7. QED BY <1>1, <2>4, <2>5, <2>6 DEF Promise!Credit
<1>4. QED BY <1>2, <1>3

\* COMPLETED is written for a delivered order whose rebate is decided.
LEMMA SettleStep ==
  ASSUME OrderInv, NEW w \in Workers, NEW o \in Orders, job[w] = o, MarkCompleted(w)
  PROVE  Promise!Settle(o) \/ UNCHANGED Promise!promise
<1>1. UNCHANGED <<paidAt, upstream, grants, rebates>>
  BY DEF MarkCompleted, Reply, outside, goods
<1>2. CASE HoldsLease(w)
  <2>1. status' = [status EXCEPT ![o] = "COMPLETED"]
    BY <1>2 DEF MarkCompleted, Write
  <2>2. pc[w] = "complete" BY DEF MarkCompleted
  <2>3. paidAt[o] = TRUE /\ Delivered(o) /\ claimed[o]
    BY <2>2 DEF OrderInv, TypeOK, WorkerInv, LeaseSteps
  <2>4. status[o] = "RECHARGING" /\ grants[o] = 1 /\ rebates[o] = 1
    BY <1>2, <2>3 DEF HoldsLease, OrderInv, GoodsInv
  <2>5. /\ StageOf(status[o], paidAt[o]) = "paid"
        /\ StageOf("COMPLETED", paidAt'[o]) = "settled"
    BY <1>1, <2>3, <2>4, StageValue
  <2>6. QED BY <1>1, <2>1, <2>4, <2>5, StageMove DEF Promise!Settle, Status
<1>3. CASE ~HoldsLease(w)
  BY <1>1, <1>3, StutterStep DEF MarkCompleted
<1>4. QED BY <1>2, <1>3

\* The exact payment is what the abstract provider receives.
LEMMA ReceiveStep ==
  ASSUME OrderInv, NEW o \in Orders, Pay(o)
  PROVE  Promise!Receive(o) \/ UNCHANGED Promise!promise
<1>1. UNCHANGED <<status, paidAt, grants, rebates>> BY DEF Pay, row, goods
<1>2. linked[o] /\ upstream[o] = "open" BY DEF Pay
<1>3. PICK amount \in {"exact", "short"} : upstream' = [upstream EXCEPT ![o] = amount]
  BY DEF Pay
<1>4. upstream \in [Orders -> Upstream] BY DEF OrderInv, TypeOK
<1>5. CASE amount = "short"
  BY <1>1, <1>2, <1>3, <1>4, <1>5, StutterStep
<1>6. CASE amount = "exact"
  <2>1. paidAt[o] = FALSE BY <1>2 DEF OrderInv, TypeOK, PaidInv
  <2>2. status[o] \in {"PENDING", "CANCELLED", "EXPIRED"}
    BY <1>2, <2>1 DEF OrderInv, TypeOK, PaidInv, Status
  <2>3. StageOf(status[o], paidAt[o]) \in {"open", "closed"} BY <2>1, <2>2, StageValue
  <2>4. [p \in Orders |-> upstream'[p] = "exact"]
          = [[p \in Orders |-> upstream[p] = "exact"] EXCEPT ![o] = TRUE]
    BY <1>3, <1>4, <1>6
  <2>5. QED BY <1>1, <1>2, <2>3, <2>4 DEF Promise!Receive
<1>7. QED BY <1>5, <1>6

\* Steps on the row or at the provider that the promise does not see.
LEMMA HiddenStep ==
  ASSUME OrderInv, NEW w \in Workers, NEW o \in Orders, job[w] = o,
         \/ CreatePayment(w) \/ RecordPayment(w) \/ VoidUpstream(w)
         \/ PersistTradeNo(w) \/ AcquireLease(w) \/ MarkFailed(w)
  PROVE  UNCHANGED Promise!promise
<1> USE DEF row, outside, goods
<1>1. /\ upstream \in [Orders -> Upstream] /\ status \in [Orders -> Status]
      /\ paidAt \in [Orders -> BOOLEAN]
  BY DEF OrderInv, TypeOK
<1>2. CASE CreatePayment(w)
  <2>1. ~UpstreamPaid(o)
    BY <1>2 DEF CreatePayment, OrderInv, CreateInv, Creating, PaidInv
  <2>2. UNCHANGED <<status, paidAt, grants, rebates>> BY <1>2 DEF CreatePayment
  <2>3. upstream' \in {upstream, [upstream EXCEPT ![o] = "open"]}
    BY <1>2, Zenon DEF CreatePayment
  <2>4. QED BY <1>1, <2>1, <2>2, <2>3, StutterStep DEF UpstreamPaid
<1>3. CASE RecordPayment(w)
  <2>1. UNCHANGED <<status, paidAt, upstream, grants, rebates>>
    BY <1>1, <1>3 DEF RecordPayment, Write
  <2>2. QED BY <2>1, StutterStep
<1>4. CASE VoidUpstream(w)
  BY <1>1, <1>4, StutterStep DEF VoidUpstream
<1>5. CASE PersistTradeNo(w)
  <2>1. UNCHANGED <<status, paidAt, upstream, grants, rebates>>
    BY <1>1, <1>5 DEF PersistTradeNo, Write
  <2>2. QED BY <2>1, StutterStep
<1>6. CASE AcquireLease(w)
  <2>1. UNCHANGED <<paidAt, upstream, grants, rebates>>
    BY <1>6 DEF AcquireLease, Reply
  <2>2. CASE LeaseIsFree(o)
    <3>1. status' = [status EXCEPT ![o] = "RECHARGING"]
      BY <1>6, <2>2 DEF AcquireLease, Write
    <3>2. paidAt[o] = TRUE
      BY <1>1, <1>6 DEF AcquireLease, OrderInv, WorkerInv
    <3>3. status[o] \in {"PAID", "FAILED", "RECHARGING"} BY <2>2 DEF LeaseIsFree
    <3>4. StageOf(status[o], paidAt[o]) = StageOf("RECHARGING", paidAt[o])
      BY <3>2, <3>3, StageValue
    <3>5. QED BY <2>1, <3>1, <3>4, RestageStep DEF Status
  <2>3. CASE ~LeaseIsFree(o)
    <3>1. UNCHANGED status BY <1>6, <2>3 DEF AcquireLease
    <3>2. QED BY <2>1, <3>1, StutterStep
  <2>4. QED BY <2>2, <2>3
<1>7. CASE MarkFailed(w)
  <2>1. UNCHANGED <<paidAt, upstream, grants, rebates>>
    BY <1>7 DEF MarkFailed, Reply
  <2>2. CASE HoldsLease(w)
    <3>1. status' = [status EXCEPT ![o] = "FAILED"]
      BY <1>7, <2>2 DEF MarkFailed, Write
    <3>2. status[o] = "RECHARGING" /\ paidAt[o] = TRUE
      BY <1>1, <2>2 DEF HoldsLease, OrderInv, PaidInv
    <3>3. StageOf(status[o], paidAt[o]) = StageOf("FAILED", paidAt[o])
      BY <3>2, StageValue
    <3>4. QED BY <2>1, <3>1, <3>3, RestageStep DEF Status
  <2>3. CASE ~HoldsLease(w)
    <3>1. UNCHANGED status BY <1>7, <2>3 DEF MarkFailed
    <3>2. QED BY <2>1, <3>1, StutterStep
  <2>4. QED BY <2>2, <2>3
<1>8. QED BY <1>2, <1>3, <1>4, <1>5, <1>6, <1>7

\* Each step of the program is a step of the promise or none.
LEMMA PromiseStep ==
  ASSUME OrderInv, [Next]_vars
  PROVE  Promise!PromiseNext \/ UNCHANGED Promise!promise
<1>1. ASSUME NEW w \in Workers, Visible(w)
      PROVE  Promise!PromiseNext \/ UNCHANGED Promise!promise
  <2> DEFINE o == job[w]
  <2>1. o \in Orders BY DEF OrderInv, TypeOK
  <2>2. CASE InsertOrder(w)
    BY <2>1, <2>2, InsertStep DEF Promise!PromiseNext
  <2>3. CASE AbortOrder(w)
    <3>1. status' = [status EXCEPT ![o] = "FAILED"]
      BY <2>3 DEF AbortOrder, Write
    <3>2. status[o] \in {"PENDING", "CANCELLED", "EXPIRED"}
      BY <2>3 DEF AbortOrder, OrderInv, CreateInv, Creating
    <3>3. UNCHANGED <<paidAt, upstream, grants, rebates>>
      BY <2>3 DEF AbortOrder, outside, goods
    <3>4. QED BY <2>1, <3>1, <3>2, <3>3, CloseStep DEF Promise!PromiseNext
  <2>4. CASE CloseOrder(w)
    <3>1. UNCHANGED <<paidAt, upstream, grants, rebates>>
      BY <2>4 DEF CloseOrder, outside, goods
    <3>2. CASE status[o] = "PENDING"
      <4>1. status' = [status EXCEPT ![o] = Target(w)]
        BY <2>4, <3>2 DEF CloseOrder, Write
      <4>2. Target(w) \in {"CANCELLED", "EXPIRED", "FAILED"} BY DEF Target
      <4>3. QED BY <2>1, <3>1, <3>2, <4>1, <4>2, CloseStep DEF Promise!PromiseNext
    <3>3. CASE status[o] # "PENDING"
      <4>1. UNCHANGED status BY <2>4, <3>3 DEF CloseOrder
      <4>2. QED BY <3>1, <4>1, StutterStep
    <3>4. QED BY <3>2, <3>3
  <2>5. CASE ToPaid(w)
    BY <2>1, <2>5, AcceptStep DEF Promise!PromiseNext
  <2>6. CASE RedeemCode(w) \/ AssignSubscription(w)
    BY <2>1, <2>6, DeliverStep DEF Promise!PromiseNext
  <2>7. CASE ApplyRebate(w)
    BY <2>1, <2>7, CreditStep DEF Promise!PromiseNext
  <2>8. CASE MarkCompleted(w)
    BY <2>1, <2>8, SettleStep DEF Promise!PromiseNext
  <2>9. CASE \/ CreatePayment(w) \/ RecordPayment(w) \/ VoidUpstream(w)
             \/ PersistTradeNo(w) \/ AcquireLease(w) \/ MarkFailed(w)
    BY <2>1, <2>9, HiddenStep
  <2>10. QED
    BY <1>1, <2>2, <2>3, <2>4, <2>5, <2>6, <2>7, <2>8, <2>9 DEF Visible
<1>2. ASSUME NEW o \in Orders, Pay(o)
      PROVE  Promise!PromiseNext \/ UNCHANGED Promise!promise
  BY <1>2, ReceiveStep DEF Promise!PromiseNext
<1>3. CASE UNCHANGED <<status, paidAt, upstream, grants, rebates>>
  BY <1>3, StutterStep
<1>4. QED BY <1>1, <1>2, <1>3, OtherStepsAreQuiet

\* The order machinery, for any number of orders and workers and any faults,
\* implements the abstract promise.
THEOREM Refinement == Spec => KeepsPromise
<1>1. Init => Promise!PromiseInit
  <2> SUFFICES ASSUME Init PROVE Promise!PromiseInit OBVIOUS
  <2>1. \A o \in Orders : status[o] = "NONE" /\ paidAt[o] = FALSE BY DEF Init
  <2>2. [o \in Orders |-> StageOf(status[o], paidAt[o])] = [o \in Orders |-> "none"]
    BY <2>1, StageValue
  <2>3. [o \in Orders |-> upstream[o] = "exact"] = [o \in Orders |-> FALSE]
    BY DEF Init
  <2>4. QED BY <2>2, <2>3 DEF Init, Promise!PromiseInit
<1>2. OrderInv /\ [Next]_vars => [Promise!PromiseNext]_(Promise!promise)
  BY PromiseStep
<1>3. QED BY <1>1, <1>2, Invariance, PTL DEF Spec, KeepsPromise, Promise!PromiseSpec
=============================================================================
