-------------------------- MODULE PaymentRefund_proofs --------------------------
(***************************************************************************)
(* Proofs about PaymentRefund, for any orders, workers, amounts and        *)
(* faults: what is given back was taken, and what is called refunded was   *)
(* paid back (MoneyInv).  What a repeated or racing refund may not do      *)
(* holds while nothing fails halfway and no finalization overtakes a       *)
(* request (Quiet): then the status REFUNDING is a lock (QuietInv).        *)
(***************************************************************************)
EXTENDS PaymentRefund, FiniteSetTheorems, TLAPS

USE DEF row, logs, purse, plan

-----------------------------------------------------------------------------
(* Types. *)

LEMMA Numbers ==
  /\ Amount \in Nat /\ Amount > 0 /\ MaxAttempts \in Nat /\ MaxAttempts > 0
  /\ 1 \in 1..Amount /\ 1 \in 1..MaxAttempts
  BY AmountAssumption, ProviderAssumption

LEMMA Ids ==
  /\ <<1, 1>> \in RefundIds
  /\ \A a \in 1..Amount : <<a, 1>> \in RefundIds
  /\ \A k \in RefundIds : k[1] \in 1..Amount /\ k[2] \in 1..MaxAttempts
  BY Numbers DEF RefundIds

LEMMA AvailableType ==
  ASSUME balance \in Int, NEW a \in 0..Amount
  PROVE  Available(a) \in 0..a /\ Available(a) \in 0..Amount
  BY Numbers DEF Available, Least, Most

LEMMA GoesOn ==
  ASSUME TypeOK, NEW w \in Workers, NEW s \in Step, Goto(w, s)
  PROVE  /\ pc' \in [Workers -> Step] /\ job' = job /\ pc'[w] = s
         /\ \A v \in Workers \ {w} : pc'[v] = pc[v]
  BY DEF TypeOK, Goto

LEMMA Stops ==
  ASSUME TypeOK, NEW w \in Workers, Stop(w)
  PROVE  /\ pc' \in [Workers -> Step] /\ job' = job /\ pc'[w] = "idle" /\ take'[w] = 0
         /\ \A v \in Workers \ {w} : pc'[v] = pc[v] /\ take'[v] = take[v] /\ rid'[v] = rid[v]
         /\ was' \in [Workers -> Status] /\ amt' \in [Workers -> 0..Amount]
         /\ take' \in [Workers -> 0..Amount] /\ rid' \in [Workers -> RefundIds]
<1>1. <<1, 1>> \in RefundIds /\ 0 \in 0..Amount /\ "COMPLETED" \in Status /\ "idle" \in Step
  BY Ids, Numbers DEF Status, Step
<1> QED
  BY <1>1, GoesOn DEF TypeOK, Stop

\* The worker's part of the state.
PlanOK ==
  /\ pc \in [Workers -> Step] /\ job \in [Workers -> Orders]
  /\ was \in [Workers -> Status] /\ amt \in [Workers -> 0..Amount]
  /\ take \in [Workers -> 0..Amount] /\ rid \in [Workers -> RefundIds]
RowOK ==
  /\ status \in [Orders -> Status] /\ refundAmount \in [Orders -> 0..Amount]
  /\ tradeNo \in [Orders -> BOOLEAN] /\ pendingLog \in [Orders -> SUBSET PendingLogs]
  /\ rollbackLog \in [Orders -> BOOLEAN] /\ successLog \in [Orders -> BOOLEAN]
PurseOK ==
  /\ balance \in Int /\ recharged \in Nat /\ spent \in Nat /\ taken \in [Orders -> Int]
RestOK ==
  /\ gateway \in [Orders -> [RefundIds -> {"none", "pending", "done", "failed"}]]
  /\ attempts \in Nat /\ faults \in Nat

LEMMA Parts == TypeOK <=> PlanOK /\ RowOK /\ PurseOK /\ RestOK
  BY DEF TypeOK, PlanOK, RowOK, PurseOK, RestOK

LEMMA PartsNext == ASSUME PlanOK', RowOK', PurseOK', RestOK' PROVE TypeOK'
  BY DEF TypeOK, PlanOK, RowOK, PurseOK, RestOK

LEMMA StopPlan == ASSUME TypeOK, NEW w \in Workers, Stop(w) PROVE PlanOK'
  BY Stops DEF TypeOK, PlanOK

LEMMA GotoPlan ==
  ASSUME TypeOK, NEW w \in Workers, NEW s \in Step, Goto(w, s), UNCHANGED <<was, amt>>,
         take' \in [Workers -> 0..Amount], rid' \in [Workers -> RefundIds]
  PROVE  PlanOK'
  BY GoesOn DEF TypeOK, PlanOK

LEMMA GiveBackPurse ==
  ASSUME TypeOK, NEW o \in Orders, NEW a \in 0..Amount, GiveBack(o, a)
  PROVE  /\ PurseOK' /\ taken'[o] = taken[o] - a
         /\ \A p \in Orders \ {o} : taken'[p] = taken[p]
<1>1. /\ balance' = balance + a /\ recharged' = recharged + a /\ spent' = spent
      /\ taken' = [taken EXCEPT ![o] = taken[o] - a]
  BY DEF GiveBack
<1>2. balance \in Int /\ recharged \in Nat /\ spent \in Nat /\ taken \in [Orders -> Int] /\ a \in Nat
  BY Numbers DEF TypeOK
<1> QED
  BY <1>1, <1>2 DEF PurseOK

LEMMA DeductPurse ==
  ASSUME TypeOK, NEW o \in Orders, NEW a \in 0..Amount, Deduct(o, a)
  PROVE  /\ PurseOK' /\ taken'[o] = taken[o] + a
         /\ \A p \in Orders \ {o} : taken'[p] = taken[p]
<1>1. /\ balance' = balance - a /\ recharged' = recharged /\ spent' = spent
      /\ taken' = [taken EXCEPT ![o] = taken[o] + a]
  BY DEF Deduct
<1>2. balance \in Int /\ recharged \in Nat /\ spent \in Nat /\ taken \in [Orders -> Int] /\ a \in Nat
  BY Numbers DEF TypeOK
<1> QED
  BY <1>1, <1>2 DEF PurseOK

LEMMA FaultType == ASSUME TypeOK, UNCHANGED faults \/ Fault PROVE faults' \in Nat
  BY DEF TypeOK, Fault

\* One worker moves.
LEMMA AmountStep ==
  ASSUME TypeOK, AmountInv, NEW w \in Workers,
         \A v \in Workers \ {w} : pc'[v] = pc[v] /\ amt'[v] = amt[v],
         pc'[w] \notin {"idle", "request"} => amt'[w] > 0,
         \A o \in Orders : \/ status'[o] # "REFUND_PENDING" \/ refundAmount'[o] > 0
                           \/ status'[o] = status[o] /\ refundAmount'[o] = refundAmount[o]
  PROVE  AmountInv'
  BY DEF AmountInv

\* The plan is kept or forgotten, the row is left alone.
LEMMA PlainTypes ==
  ASSUME TypeOK, AmountInv, NEW w \in Workers, PurseOK', RestOK', RowOK',
         \/ Stop(w)
         \/ /\ \E s \in Step : Goto(w, s)
            /\ pc[w] \notin {"idle", "request"} /\ UNCHANGED <<was, amt>>
            /\ take' \in [Workers -> 0..Amount] /\ rid' \in [Workers -> RefundIds],
         \A o \in Orders : \/ status'[o] # "REFUND_PENDING" \/ refundAmount'[o] > 0
                           \/ status'[o] = status[o] /\ refundAmount'[o] = refundAmount[o]
  PROVE  TypeOK' /\ AmountInv'
<1>1. CASE Stop(w)
  <2>1. pc'[w] = "idle" /\ \A v \in Workers \ {w} : pc'[v] = pc[v]
    BY <1>1, Stops
  <2>2. \A v \in Workers \ {w} : amt'[v] = amt[v]
    BY <1>1 DEF TypeOK, Stop
  <2> QED
    BY <1>1, <2>1, <2>2, StopPlan, PartsNext, AmountStep
<1>2. CASE /\ \E s \in Step : Goto(w, s)
           /\ pc[w] \notin {"idle", "request"} /\ UNCHANGED <<was, amt>>
           /\ take' \in [Workers -> 0..Amount] /\ rid' \in [Workers -> RefundIds]
  <2>1. PICK s \in Step : Goto(w, s)
    BY <1>2
  <2>2. PlanOK' /\ \A v \in Workers \ {w} : pc'[v] = pc[v]
    BY <1>2, <2>1, GotoPlan, GoesOn
  <2>3. amt'[w] > 0 /\ amt' = amt
    BY <1>2 DEF AmountInv
  <2> QED
    BY <2>2, <2>3, PartsNext, AmountStep
<1> QED
  BY <1>1, <1>2

LEMMA RequestTypes ==
  ASSUME TypeOK, AmountInv, NEW w \in Workers, NEW o \in Orders, RequestRefund(w, o)
  PROVE  TypeOK' /\ AmountInv'
<1>1. TypeOK'
  BY DEF TypeOK, RequestRefund, Step
<1>2. AmountInv'
  BY AmountStep DEF TypeOK, RequestRefund
<1> QED
  BY <1>1, <1>2

LEMMA PrepareTypes ==
  ASSUME TypeOK, AmountInv, NEW w \in Workers, NEW o \in Orders, NEW a \in 1..Amount,
         NEW force \in BOOLEAN, NEW takeBack \in BOOLEAN, PrepareRefund(w, o, a, force, takeBack)
  PROVE  TypeOK' /\ AmountInv'
<1>1. a \in 0..Amount /\ a > 0 /\ Available(a) \in 0..Amount /\ 0 \in 0..Amount
  BY AvailableType, Numbers DEF TypeOK
<1>2. PlanOK'
  BY <1>1 DEF TypeOK, PrepareRefund, Step, PlanOK
<1>3. RowOK' /\ PurseOK' /\ RestOK'
  BY DEF TypeOK, PrepareRefund, RowOK, PurseOK, RestOK
<1>4. AmountInv'
  BY <1>1, AmountStep DEF TypeOK, PrepareRefund
<1> QED
  BY <1>2, <1>3, <1>4, PartsNext

LEMMA QueryTypes ==
  ASSUME TypeOK, AmountInv, NEW w \in Workers, NEW o \in Orders, QueryRefund(w, o)
  PROVE  TypeOK' /\ AmountInv'
<1>1. refundAmount[o] \in 1..Amount
  BY DEF QueryRefund, TypeOK, AmountInv
<1>2. PendingDetail(o).id \in RefundIds
  <2>1. CASE pendingLog[o] = {}
    BY <1>1, <2>1, Ids DEF PendingDetail
  <2>2. CASE pendingLog[o] # {}
    <3>1. (CHOOSE d \in pendingLog[o] : TRUE) \in PendingLogs
      BY <2>2 DEF TypeOK
    <3> QED
      BY <2>2, <3>1 DEF PendingDetail, PendingLogs
  <2> QED
    BY <2>1, <2>2
<1>3. PlanOK'
  BY <1>1, <1>2, Numbers DEF TypeOK, QueryRefund, Step, PlanOK
<1>4. RowOK' /\ PurseOK' /\ RestOK'
  BY DEF TypeOK, QueryRefund, RowOK, PurseOK, RestOK
<1>5. AmountInv'
  BY <1>1, AmountStep DEF TypeOK, QueryRefund
<1> QED
  BY <1>3, <1>4, <1>5, PartsNext

LEMMA MarkTypes ==
  ASSUME TypeOK, AmountInv, NEW w \in Workers,
         \/ MarkRequested(w) \/ Crash(w) \/ LockRefund(w) \/ RestoreStatus(w) \/ MarkRefundFailed(w)
         \/ MarkRefundOk(w) \/ MarkRefundPending(w) \/ LogRefundPending(w)
         \/ AskGateway(w) \/ FinalizeFailed(w)
  PROVE  TypeOK' /\ AmountInv'
<1>p. PlanOK /\ RowOK /\ PurseOK /\ RestOK /\ job[w] \in Orders
  BY Parts DEF PlanOK
<1>1. PurseOK' /\ UNCHANGED <<tradeNo, gateway, attempts>>
  BY <1>p DEF PurseOK, MarkRequested, Crash, LockRefund, RestoreStatus, MarkRefundFailed, MarkRefundOk,
     MarkRefundPending, LogRefundPending, AskGateway, FinalizeFailed
<1>2. UNCHANGED faults \/ Fault
  BY DEF MarkRequested, Crash, LockRefund, RestoreStatus, MarkRefundFailed, MarkRefundOk,
     MarkRefundPending, LogRefundPending, AskGateway, FinalizeFailed
<1>3. RestOK'
  BY <1>1, <1>2, <1>p, FaultType DEF RestOK
<1>4. \/ Stop(w)
      \/ /\ \E s \in Step : Goto(w, s)
         /\ pc[w] \notin {"idle", "request"} /\ UNCHANGED plan
  BY DEF MarkRequested, Crash, LockRefund, RestoreStatus, MarkRefundFailed, MarkRefundOk,
     MarkRefundPending, LogRefundPending, AskGateway, FinalizeFailed, Step
<1>5. \/ Stop(w)
      \/ /\ \E s \in Step : Goto(w, s)
         /\ pc[w] \notin {"idle", "request"} /\ UNCHANGED <<was, amt>>
         /\ take' \in [Workers -> 0..Amount] /\ rid' \in [Workers -> RefundIds]
  BY <1>4, <1>p DEF PlanOK
<1>6. \/ UNCHANGED refundAmount
      \/ SetAmount(job[w], Amount)
      \/ pc[w] \in {"setOk", "setPending"} /\ SetAmount(job[w], amt[w])
  BY DEF MarkRequested, Crash, LockRefund, RestoreStatus, MarkRefundFailed, MarkRefundOk,
     MarkRefundPending, LogRefundPending, AskGateway, FinalizeFailed
<1>7. /\ refundAmount' \in [Orders -> 0..Amount]
      /\ UNCHANGED refundAmount \/ refundAmount'[job[w]] > 0
      /\ \A o \in Orders \ {job[w]} : refundAmount'[o] = refundAmount[o]
  <2>1. amt[w] \in 0..Amount /\ (pc[w] \in {"setOk", "setPending"} => amt[w] > 0) /\ Amount \in 0..Amount
    BY <1>p, Numbers DEF PlanOK, AmountInv
  <2> QED
    BY <1>6, <1>p, <2>1, Numbers DEF RowOK, SetAmount
<1>8. \/ UNCHANGED status
      \/ \E s \in Status \ {"REFUND_PENDING"} : SetStatus(job[w], s)
      \/ SetStatus(job[w], "REFUND_PENDING") /\ SetAmount(job[w], amt[w]) /\ pc[w] = "setPending"
  BY DEF MarkRequested, Crash, LockRefund, RestoreStatus, MarkRefundFailed, MarkRefundOk,
     MarkRefundPending, LogRefundPending, AskGateway, FinalizeFailed, Status, RestoredStatus, RefundedStatus
<1>9. /\ status' \in [Orders -> Status]
      /\ \A o \in Orders \ {job[w]} : status'[o] = status[o]
      /\ UNCHANGED status \/ status'[job[w]] # "REFUND_PENDING" \/ refundAmount'[job[w]] > 0
  <2>1. pc[w] = "setPending" => amt[w] > 0
    BY DEF AmountInv
  <2> QED
    BY <1>8, <1>p, <2>1 DEF RowOK, SetStatus, SetAmount, Status
<1>10. \A o \in Orders : \/ status'[o] # "REFUND_PENDING" \/ refundAmount'[o] > 0
                         \/ status'[o] = status[o] /\ refundAmount'[o] = refundAmount[o]
  BY <1>7, <1>9
<1>11. pendingLog' \in [Orders -> SUBSET PendingLogs] /\ rollbackLog' = rollbackLog
  <2>1. CASE LogRefundPending(w)
    <3>1. [id |-> rid[w], undone |-> take[w] = 0] \in PendingLogs
      BY <1>p DEF PlanOK, PendingLogs
    <3>2. pendingLog' = [pendingLog EXCEPT ![job[w]] =
            IF pendingLog[job[w]] = {} THEN {[id |-> rid[w], undone |-> take[w] = 0]} ELSE pendingLog[job[w]]]
      BY <2>1 DEF LogRefundPending
    <3>3. (IF pendingLog[job[w]] = {} THEN {[id |-> rid[w], undone |-> take[w] = 0]} ELSE pendingLog[job[w]])
            \in SUBSET PendingLogs
      BY <1>p, <3>1 DEF RowOK
    <3> QED
      BY <1>p, <2>1, <3>2, <3>3 DEF LogRefundPending, RowOK
  <2>2. CASE ~LogRefundPending(w)
    BY <1>p, <2>2 DEF RowOK, MarkRequested, Crash, LockRefund, RestoreStatus, MarkRefundFailed, MarkRefundOk,
       MarkRefundPending, AskGateway, FinalizeFailed
  <2> QED
    BY <2>1, <2>2
<1>12. successLog' \in [Orders -> BOOLEAN]
  BY <1>p DEF RowOK, MarkRequested, Crash, LockRefund, RestoreStatus, MarkRefundFailed, MarkRefundOk,
     MarkRefundPending, LogRefundPending, AskGateway, FinalizeFailed
<1>13. RowOK'
  BY <1>1, <1>7, <1>9, <1>11, <1>12, <1>p DEF RowOK
<1> QED
  BY <1>1, <1>3, <1>5, <1>10, <1>13, PlainTypes

\* What the steps that move money do to it and to the plan.
LEMMA DeductEffect ==
  ASSUME TypeOK, NEW w \in Workers, DeductBalance(w)
  PROVE  /\ PurseOK' /\ pc[w] = "deduct" /\ take' \in [Workers -> 0..Amount]
         /\ UNCHANGED <<row, logs, gateway, was, amt, rid, attempts, job>>
         /\ \A v \in Workers \ {w} : pc'[v] = pc[v] /\ take'[v] = take[v]
         /\ \A p \in Orders \ {job[w]} : taken'[p] = taken[p]
         /\ \/ /\ Goto(w, "gateway") /\ pc'[w] = "gateway" /\ UNCHANGED faults
               /\ \/ rollbackLog[job[w]] /\ taken' = taken /\ take'[w] = 0
                  \/ taken'[job[w]] = taken[job[w]] + take'[w]
            \/ Goto(w, "restore") /\ pc'[w] = "restore" /\ Fault /\ UNCHANGED <<taken, take>>
<1> DEFINE a == Available(take[w])
<1>p. /\ job[w] \in Orders /\ a \in 0..Amount /\ take \in [Workers -> 0..Amount] /\ 0 \in 0..Amount
      /\ PurseOK
  BY AvailableType, Numbers, Parts DEF TypeOK
<1>1. /\ pc[w] = "deduct" /\ UNCHANGED <<row, logs, gateway, was, amt, rid, attempts, job>>
  BY DEF DeductBalance, Goto
<1>2. CASE rollbackLog[job[w]] /\ take' = [take EXCEPT ![w] = 0] /\ UNCHANGED purse
           /\ Goto(w, "gateway") /\ UNCHANGED faults
  BY <1>p, <1>1, <1>2, GoesOn DEF PurseOK, Step
<1>3. CASE take' = [take EXCEPT ![w] = a] /\ Deduct(job[w], a) /\ Goto(w, "gateway") /\ UNCHANGED faults
  <2>1. /\ PurseOK' /\ taken'[job[w]] = taken[job[w]] + a
        /\ \A p \in Orders \ {job[w]} : taken'[p] = taken[p]
    BY <1>p, <1>3, DeductPurse
  <2>2. pc'[w] = "gateway" /\ \A v \in Workers \ {w} : pc'[v] = pc[v]
    BY <1>3, GoesOn DEF Step
  <2> HIDE DEF a
  <2>3. take' \in [Workers -> 0..Amount] /\ take'[w] = a /\ \A v \in Workers \ {w} : take'[v] = take[v]
    BY <1>p, <1>3
  <2> QED
    BY <1>1, <1>3, <2>1, <2>2, <2>3
<1>4. CASE Fault /\ Goto(w, "restore") /\ UNCHANGED <<take, purse>>
  BY <1>p, <1>1, <1>4, GoesOn DEF PurseOK, Step
<1> QED
  BY <1>2, <1>3, <1>4 DEF DeductBalance

LEMMA UndoFailEffect ==
  ASSUME TypeOK, NEW w \in Workers, UndoAfterFailure(w)
  PROVE  /\ PurseOK' /\ pc[w] = "undoFail" /\ rollbackLog' \in [Orders -> BOOLEAN]
         /\ UNCHANGED <<row, pendingLog, successLog, gateway, plan, attempts, job>>
         /\ \A v \in Workers \ {w} : pc'[v] = pc[v]
         /\ \A p \in Orders \ {job[w]} : taken'[p] = taken[p]
         /\ \/ Goto(w, "restore") /\ pc'[w] = "restore" /\ UNCHANGED <<rollbackLog, faults>>
               /\ taken'[job[w]] = taken[job[w]] - take[w]
            \/ Goto(w, "setFailed") /\ pc'[w] = "setFailed" /\ Fault /\ UNCHANGED taken
<1>p. job[w] \in Orders /\ take[w] \in 0..Amount /\ PurseOK /\ rollbackLog \in [Orders -> BOOLEAN]
      /\ taken[job[w]] \in Int
  BY Parts DEF TypeOK
<1>1. /\ pc[w] = "undoFail" /\ UNCHANGED <<row, pendingLog, successLog, gateway, plan, attempts, job>>
  BY DEF UndoAfterFailure, Goto
<1>2. CASE Undo(w) /\ Goto(w, "restore") /\ UNCHANGED <<rollbackLog, faults>>
  BY <1>p, <1>1, <1>2, GiveBackPurse, GoesOn DEF Undo, Step
<1>3. CASE /\ Fault /\ rollbackLog' = [rollbackLog EXCEPT ![job[w]] = TRUE]
           /\ Goto(w, "setFailed") /\ UNCHANGED purse
  BY <1>p, <1>1, <1>3, GoesOn DEF PurseOK, Step
<1>4. CASE take[w] = 0 /\ Goto(w, "restore") /\ UNCHANGED <<purse, rollbackLog, faults>>
  BY <1>p, <1>1, <1>4, GoesOn DEF PurseOK, Step
<1> QED
  BY <1>2, <1>3, <1>4 DEF UndoAfterFailure

LEMMA UndoPendingEffect ==
  ASSUME TypeOK, NEW w \in Workers, UndoWhilePending(w)
  PROVE  /\ PurseOK' /\ pc[w] = "undoPending" /\ rollbackLog' \in [Orders -> BOOLEAN]
         /\ take' \in [Workers -> 0..Amount]
         /\ UNCHANGED <<row, pendingLog, successLog, gateway, was, amt, rid, attempts, job>>
         /\ Goto(w, "setPending") /\ pc'[w] = "setPending"
         /\ \A v \in Workers \ {w} : pc'[v] = pc[v] /\ take'[v] = take[v]
         /\ \A p \in Orders \ {job[w]} : taken'[p] = taken[p]
         /\ \/ UNCHANGED <<rollbackLog, faults>> /\ taken'[job[w]] = taken[job[w]] - take[w]
            \/ Fault /\ UNCHANGED taken
<1>p. /\ job[w] \in Orders /\ take \in [Workers -> 0..Amount] /\ PurseOK /\ 0 \in 0..Amount
      /\ rollbackLog \in [Orders -> BOOLEAN]
  BY Parts, Numbers DEF TypeOK
<1>1. /\ pc[w] = "undoPending" /\ Goto(w, "setPending") /\ pc'[w] = "setPending"
      /\ UNCHANGED <<row, pendingLog, successLog, gateway, was, amt, rid, attempts, job>>
      /\ \A v \in Workers \ {w} : pc'[v] = pc[v]
  BY GoesOn DEF UndoWhilePending, Goto, Step
<1>2. CASE Undo(w) /\ take' = [take EXCEPT ![w] = 0] /\ UNCHANGED <<rollbackLog, faults>>
  BY <1>p, <1>1, <1>2, GiveBackPurse DEF Undo
<1>3. CASE Fault /\ rollbackLog' = [rollbackLog EXCEPT ![job[w]] = TRUE] /\ UNCHANGED <<purse, take>>
  BY <1>p, <1>1, <1>3 DEF PurseOK
<1> QED
  BY <1>2, <1>3 DEF UndoWhilePending

LEMMA FinalizeEffect ==
  ASSUME TypeOK, NEW w \in Workers, FinalizeSuccess(w)
  PROVE  /\ PurseOK' /\ pc[w] = "finalOk" /\ Stop(w)
         /\ UNCHANGED <<tradeNo, pendingLog, rollbackLog, gateway, faults, attempts>>
         /\ \A p \in Orders : taken'[p] >= taken[p]
         /\ \/ UNCHANGED <<status, refundAmount, successLog>>
            \/ /\ SetStatus(job[w], RefundedStatus(amt[w])) /\ SetAmount(job[w], amt[w])
               /\ successLog' = [successLog EXCEPT ![job[w]] = TRUE]
<1> DEFINE a == Available(take[w])
<1>p. job[w] \in Orders /\ a \in 0..Amount /\ PurseOK /\ \A p \in Orders : taken[p] \in Int
  BY AvailableType, Parts DEF TypeOK
<1>1. /\ pc[w] = "finalOk" /\ Stop(w)
      /\ UNCHANGED <<tradeNo, pendingLog, rollbackLog, gateway, faults, attempts>>
  BY DEF FinalizeSuccess
<1>2. CASE /\ Deduct(job[w], a) /\ SetStatus(job[w], RefundedStatus(amt[w])) /\ SetAmount(job[w], amt[w])
           /\ successLog' = [successLog EXCEPT ![job[w]] = TRUE]
  <2>1. /\ PurseOK' /\ taken'[job[w]] = taken[job[w]] + a
        /\ \A p \in Orders \ {job[w]} : taken'[p] = taken[p]
    BY <1>p, <1>2, DeductPurse
  <2> HIDE DEF a
  <2>2. \A p \in Orders : taken'[p] >= taken[p]
    BY <1>p, <2>1, Numbers
  <2> QED
    BY <1>1, <1>2, <2>1, <2>2
<1>3. CASE UNCHANGED <<purse, status, refundAmount, successLog>>
  BY <1>p, <1>1, <1>3 DEF PurseOK
<1> QED
  BY <1>2, <1>3 DEF FinalizeSuccess


\* What the provider is left with, and where the call leads to.
Answered(w) ==
  /\ gateway' \in [Orders -> [RefundIds -> {"none", "pending", "done", "failed"}]]
  /\ \A o \in Orders, k \in RefundIds : gateway[o][k] = "done" => gateway'[o][k] = "done"
  /\ rid' \in [Workers -> RefundIds] /\ \A v \in Workers \ {w} : rid'[v] = rid[v]
  /\ UNCHANGED faults \/ Fault
  /\ \E s \in {"setOk", "undoFail", "undoPending"} :
       /\ Goto(w, s)
       /\ s = "setOk" => ~tradeNo[job[w]] \/ gateway'[job[w]][rid'[w]] = "done"

LEMMA GatewayEffect ==
  ASSUME TypeOK, AmountInv, NEW w \in Workers, GatewayRefund(w)
  PROVE  /\ pc[w] = "gateway" /\ UNCHANGED <<row, logs, purse, was, amt, take, attempts, job>>
         /\ Answered(w)
<1> DEFINE o == job[w]
<1>p. /\ o \in Orders /\ gateway \in [Orders -> [RefundIds -> {"none", "pending", "done", "failed"}]]
      /\ rid \in [Workers -> RefundIds] /\ amt[w] \in 0..Amount
  BY DEF TypeOK
<1>1. pc[w] = "gateway" /\ UNCHANGED <<row, logs, purse, was, amt, take, attempts, job>>
  BY DEF GatewayRefund, Goto
<1>2. amt[w] \in 1..Amount
  BY <1>1, <1>p DEF AmountInv
<1>3. <<amt[w], 1>> \in RefundIds
  BY <1>2, Ids
\* The provider has nothing new.
<1>s. ASSUME UNCHANGED gateway
      PROVE  /\ gateway' \in [Orders -> [RefundIds -> {"none", "pending", "done", "failed"}]]
             /\ \A p \in Orders, i \in RefundIds : gateway[p][i] = "done" => gateway'[p][i] = "done"
  BY <1>p, <1>s
<1>r. ASSUME UNCHANGED rid
      PROVE  rid' \in [Workers -> RefundIds] /\ \A v \in Workers \ {w} : rid'[v] = rid[v]
  BY <1>p, <1>r
<1>4. CASE ~tradeNo[o] /\ Goto(w, "setOk") /\ UNCHANGED <<gateway, rid, faults>>
  <2>1. \E s \in {"setOk", "undoFail", "undoPending"} :
          /\ Goto(w, s)
          /\ s = "setOk" => ~tradeNo[job[w]] \/ gateway'[job[w]][rid'[w]] = "done"
    BY <1>4
  <2>2. UNCHANGED gateway /\ UNCHANGED rid /\ UNCHANGED faults
    BY <1>4
  <2> QED
    BY <1>1, <1>s, <1>r, <2>1, <2>2 DEF Answered
<1>5. ASSUME NEW k \in RefundIds, gateway[o][k] = "none", rid' = [rid EXCEPT ![w] = k],
             NEW s \in {"pending", "done"}, gateway' = [gateway EXCEPT ![o][k] = s],
             \/ Goto(w, AfterAnswer(s)) /\ UNCHANGED faults
             \/ Goto(w, "undoFail") /\ Fault
      PROVE  Answered(w)
  <2>1. /\ gateway' \in [Orders -> [RefundIds -> {"none", "pending", "done", "failed"}]]
        /\ gateway'[o][k] = s
        /\ \A p \in Orders, i \in RefundIds : gateway[p][i] = "done" => gateway'[p][i] = "done"
    BY <1>p, <1>5
  <2>2. rid' \in [Workers -> RefundIds] /\ rid'[w] = k /\ \A v \in Workers \ {w} : rid'[v] = rid[v]
    BY <1>p, <1>5
  <2>3. CASE Goto(w, AfterAnswer(s)) /\ UNCHANGED faults
    <3>1. AfterAnswer(s) \in {"setOk", "undoPending"} /\ (AfterAnswer(s) = "setOk" => s = "done")
      BY <1>5 DEF AfterAnswer
    <3> QED
      BY <2>1, <2>2, <2>3, <3>1 DEF Answered
  <2>4. CASE Goto(w, "undoFail") /\ Fault
    BY <2>1, <2>2, <2>4 DEF Answered
  <2> QED
    BY <1>5, <2>3, <2>4
<1>6. CASE Goto(w, "undoFail") /\ UNCHANGED <<gateway, rid>> /\ (UNCHANGED faults \/ Fault)
  <2>1. \E s \in {"setOk", "undoFail", "undoPending"} :
          /\ Goto(w, s)
          /\ s = "setOk" => ~tradeNo[job[w]] \/ gateway'[job[w]][rid'[w]] = "done"
    BY <1>6
  <2>2. UNCHANGED gateway /\ UNCHANGED rid /\ (UNCHANGED faults \/ Fault)
    BY <1>6
  <2> QED
    BY <1>1, <1>s, <1>r, <2>1, <2>2 DEF Answered
<1>7. ASSUME NEW k \in RefundIds, rid' = [rid EXCEPT ![w] = k], UNCHANGED <<gateway, faults>>,
             Goto(w, AfterAnswer(gateway[o][k])) \/ Goto(w, "undoPending")
      PROVE  Answered(w)
  <2>1. rid' \in [Workers -> RefundIds] /\ rid'[w] = k /\ \A v \in Workers \ {w} : rid'[v] = rid[v]
    BY <1>p, <1>7
  <2>2. /\ AfterAnswer(gateway[o][k]) \in {"setOk", "undoFail", "undoPending"}
        /\ AfterAnswer(gateway[o][k]) = "setOk" => gateway[o][k] = "done"
    BY <1>p DEF AfterAnswer
  <2>3. gateway'[o][rid'[w]] = gateway[o][k]
    BY <1>7, <2>1
  <2>4. \E s \in {"setOk", "undoFail", "undoPending"} :
          /\ Goto(w, s)
          /\ s = "setOk" => ~tradeNo[job[w]] \/ gateway'[job[w]][rid'[w]] = "done"
    BY <1>7, <2>2, <2>3
  <2> QED
    BY <1>s, <1>7, <2>1, <2>4 DEF Answered
<1>8. CASE \E k \in RefundIds :
             /\ gateway[o][k] = "none" /\ rid' = [rid EXCEPT ![w] = k]
             /\ \E s \in {"pending", "done"} :
                  /\ gateway' = [gateway EXCEPT ![o][k] = s]
                  /\ \/ Goto(w, AfterAnswer(s)) /\ UNCHANGED faults
                     \/ Goto(w, "undoFail") /\ Fault
  BY <1>1, <1>5, <1>8
<1>9. \/ ~tradeNo[o] /\ Goto(w, "setOk") /\ UNCHANGED <<gateway, rid, faults>>
      \/ \E k \in RefundIds :
             /\ gateway[o][k] = "none" /\ rid' = [rid EXCEPT ![w] = k]
             /\ \E s \in {"pending", "done"} :
                  /\ gateway' = [gateway EXCEPT ![o][k] = s]
                  /\ \/ Goto(w, AfterAnswer(s)) /\ UNCHANGED faults
                     \/ Goto(w, "undoFail") /\ Fault
      \/ Goto(w, "undoFail") /\ UNCHANGED <<gateway, rid>> /\ (UNCHANGED faults \/ Fault)
      \/ LET k == <<amt[w], 1>> IN
         /\ rid' = [rid EXCEPT ![w] = k] /\ UNCHANGED <<gateway, faults>>
         /\ Goto(w, AfterAnswer(gateway[o][k])) \/ Goto(w, "undoPending")
  BY Zenon DEF GatewayRefund
<1> QED
  BY <1>1, <1>3, <1>4, <1>6, <1>7, <1>8, <1>9

LEMMA MoneyTypes ==
  ASSUME TypeOK, AmountInv, NEW w \in Workers,
         \/ DeductBalance(w) \/ UndoAfterFailure(w) \/ UndoWhilePending(w) \/ FinalizeSuccess(w)
         \/ GatewayRefund(w)
  PROVE  TypeOK' /\ AmountInv'
<1>p. PlanOK /\ RowOK /\ PurseOK /\ RestOK /\ job[w] \in Orders
  BY Parts DEF PlanOK
<1>1. CASE DeductBalance(w)
  <2>1. PurseOK' /\ pc[w] = "deduct" /\ take' \in [Workers -> 0..Amount]
        /\ UNCHANGED <<row, logs, gateway, was, amt, rid, attempts>>
        /\ (UNCHANGED faults \/ Fault) /\ (Goto(w, "gateway") \/ Goto(w, "restore"))
    BY <1>1, DeductEffect
  <2>2. RowOK' /\ RestOK' /\ rid' \in [Workers -> RefundIds]
    BY <1>p, <2>1, FaultType DEF RowOK, RestOK, PlanOK
  <2> QED
    BY <2>1, <2>2, PlainTypes DEF Step
<1>2. CASE UndoAfterFailure(w)
  <2>1. PurseOK' /\ pc[w] = "undoFail" /\ rollbackLog' \in [Orders -> BOOLEAN]
        /\ UNCHANGED <<row, pendingLog, successLog, gateway, plan, attempts>>
        /\ (UNCHANGED faults \/ Fault) /\ (Goto(w, "restore") \/ Goto(w, "setFailed"))
    BY <1>2, UndoFailEffect
  <2>2. RowOK' /\ RestOK' /\ rid' \in [Workers -> RefundIds] /\ take' \in [Workers -> 0..Amount]
    BY <1>p, <2>1, FaultType DEF RowOK, RestOK, PlanOK
  <2> QED
    BY <2>1, <2>2, PlainTypes DEF Step
<1>3. CASE UndoWhilePending(w)
  <2>1. PurseOK' /\ pc[w] = "undoPending" /\ rollbackLog' \in [Orders -> BOOLEAN]
        /\ take' \in [Workers -> 0..Amount]
        /\ UNCHANGED <<row, pendingLog, successLog, gateway, was, amt, rid, attempts>>
        /\ (UNCHANGED faults \/ Fault) /\ Goto(w, "setPending")
    BY <1>3, UndoPendingEffect
  <2>2. RowOK' /\ RestOK' /\ rid' \in [Workers -> RefundIds]
    BY <1>p, <2>1, FaultType DEF RowOK, RestOK, PlanOK
  <2> QED
    BY <2>1, <2>2, PlainTypes DEF Step
<1>4. CASE FinalizeSuccess(w)
  <2>1. /\ PurseOK' /\ pc[w] = "finalOk" /\ Stop(w)
        /\ UNCHANGED <<tradeNo, pendingLog, rollbackLog, gateway, faults, attempts>>
        /\ \/ UNCHANGED <<status, refundAmount, successLog>>
           \/ /\ SetStatus(job[w], RefundedStatus(amt[w])) /\ SetAmount(job[w], amt[w])
              /\ successLog' = [successLog EXCEPT ![job[w]] = TRUE]
    BY <1>4, FinalizeEffect
  <2>2. RestOK'
    BY <1>p, <2>1 DEF RestOK
  <2>3. RefundedStatus(amt[w]) \in Status \ {"REFUND_PENDING"} /\ amt[w] \in 0..Amount
    BY <1>p DEF RefundedStatus, Status, PlanOK
  <2>4. RowOK' /\ \A o \in Orders : \/ status'[o] # "REFUND_PENDING"
                                    \/ status'[o] = status[o] /\ refundAmount'[o] = refundAmount[o]
    <3>1. CASE UNCHANGED <<status, refundAmount, successLog>>
      BY <1>p, <2>1, <3>1 DEF RowOK
    <3>2. CASE /\ SetStatus(job[w], RefundedStatus(amt[w])) /\ SetAmount(job[w], amt[w])
               /\ successLog' = [successLog EXCEPT ![job[w]] = TRUE]
      <4>1. PICK s \in Status \ {"REFUND_PENDING"} : SetStatus(job[w], s)
        BY <2>3, <3>2
      <4>2. /\ status' \in [Orders -> Status]
            /\ \A o \in Orders : status'[o] # "REFUND_PENDING" \/ (o # job[w] /\ status'[o] = status[o])
        BY <1>p, <4>1 DEF RowOK, SetStatus
      <4>3. /\ refundAmount' \in [Orders -> 0..Amount]
            /\ \A o \in Orders \ {job[w]} : refundAmount'[o] = refundAmount[o]
        BY <1>p, <2>3, <3>2 DEF RowOK, SetAmount
      <4>4. successLog' \in [Orders -> BOOLEAN]
        BY <1>p, <3>2 DEF RowOK
      <4>5. UNCHANGED tradeNo /\ UNCHANGED pendingLog /\ UNCHANGED rollbackLog
        BY <2>1
      <4>6. RowOK'
        BY <1>p, <4>2, <4>3, <4>4, <4>5 DEF RowOK
      <4> QED
        BY <4>2, <4>3, <4>6
    <3> QED
      BY <2>1, <3>1, <3>2
  <2> QED
    BY <2>1, <2>2, <2>4, PlainTypes
<1>5. CASE GatewayRefund(w)
  <2>1. /\ pc[w] = "gateway" /\ UNCHANGED <<row, logs, purse, was, amt, take, attempts>>
        /\ gateway' \in [Orders -> [RefundIds -> {"none", "pending", "done", "failed"}]]
        /\ rid' \in [Workers -> RefundIds] /\ (UNCHANGED faults \/ Fault)
        /\ \E s \in {"setOk", "undoFail", "undoPending"} : Goto(w, s)
    BY <1>5, GatewayEffect DEF Answered
  <2>2. RowOK' /\ RestOK' /\ PurseOK' /\ take' \in [Workers -> 0..Amount]
    BY <1>p, <2>1, FaultType DEF RowOK, RestOK, PlanOK, PurseOK
  <2> QED
    BY <2>1, <2>2, PlainTypes DEF Step
<1> QED
  BY <1>1, <1>2, <1>3, <1>4, <1>5

LEMMA OutsideTypes ==
  ASSUME TypeOK, AmountInv,
         \/ \E o \in Orders, k \in RefundIds : GatewaySettles(o, k)
         \/ \E cost \in 1..Amount : Spend(cost)
  PROVE  /\ TypeOK' /\ AmountInv' /\ UNCHANGED <<row, logs, taken, pc, job, plan, faults>>
         /\ \A o \in Orders, k \in RefundIds : gateway[o][k] = "done" => gateway'[o][k] = "done"
<1>p. PlanOK /\ RowOK /\ PurseOK /\ RestOK
  BY Parts
<1>1. UNCHANGED <<row, logs, taken, pc, job, plan, faults, attempts>>
  BY DEF GatewaySettles, Spend
<1>2. PurseOK'
  <2>1. \A cost \in 1..Amount : cost \in Nat
    BY Numbers
  <2> QED
    BY <1>p, <2>1 DEF PurseOK, GatewaySettles, Spend
<1>3. /\ gateway' \in [Orders -> [RefundIds -> {"none", "pending", "done", "failed"}]]
      /\ \A o \in Orders, k \in RefundIds : gateway[o][k] = "done" => gateway'[o][k] = "done"
  <2>1. CASE \E o \in Orders, k \in RefundIds : GatewaySettles(o, k)
    <3>1. PICK o \in Orders, k \in RefundIds : GatewaySettles(o, k)
      BY <2>1
    <3>2. PICK s \in {"done", "failed"} : gateway' = [gateway EXCEPT ![o][k] = s]
      BY <3>1 DEF GatewaySettles
    <3>3. gateway[o][k] = "pending"
      BY <3>1 DEF GatewaySettles
    <3> QED
      BY <1>p, <3>2, <3>3 DEF RestOK
  <2>2. CASE UNCHANGED gateway
    BY <1>p, <2>2 DEF RestOK
  <2> QED
    BY <2>1, <2>2 DEF Spend
<1>4. TypeOK'
  BY <1>1, <1>2, <1>3, <1>p, PartsNext DEF PlanOK, RowOK, RestOK
<1>5. AmountInv'
  BY <1>1 DEF AmountInv
<1> QED
  BY <1>1, <1>3, <1>4, <1>5

LEMMA NextTypes ==
  ASSUME TypeOK, AmountInv, [Next]_vars
  PROVE  TypeOK' /\ AmountInv'
<1>1. ASSUME NEW w \in Workers, NEW o \in Orders,
             \/ RequestRefund(w, o) \/ QueryRefund(w, o)
             \/ \E a \in 1..Amount, force, takeBack \in BOOLEAN : PrepareRefund(w, o, a, force, takeBack)
      PROVE  TypeOK' /\ AmountInv'
  BY <1>1, RequestTypes, QueryTypes, PrepareTypes
<1>2. ASSUME NEW w \in Workers, Proceed(w) \/ Crash(w) PROVE TypeOK' /\ AmountInv'
  BY <1>2, MarkTypes, MoneyTypes DEF Proceed, Execute, Finalize
<1>3. CASE UNCHANGED vars
  BY <1>3 DEF vars, TypeOK, AmountInv
<1> QED
  BY <1>1, <1>2, <1>3, OutsideTypes DEF Next

-----------------------------------------------------------------------------
(* Nothing is given back that was not taken. *)

LEMMA FiniteUnits ==
  ASSUME NEW S, S \subseteq Workers \X (1..Amount)
  PROVE  IsFiniteSet(S) /\ Cardinality(S) \in Nat
<1>1. IsFiniteSet(1..Amount)
  BY Numbers, FS_Interval
<1>2. IsFiniteSet(Workers \X (1..Amount))
  BY <1>1, PeopleAssumption, FS_Product
<1> QED
  BY <1>2, FS_Subset, FS_CardinalityType

LEMMA UnitsType == ASSUME NEW o PROVE Units(o) \subseteq Workers \X (1..Amount)
  BY DEF Units

LEMMA Block ==
  ASSUME NEW w \in Workers, NEW a \in 0..Amount
  PROVE  /\ {w} \X (1..a) \subseteq Workers \X (1..Amount)
         /\ Cardinality({w} \X (1..a)) = a
<1>1. a \in Nat /\ a <= Amount
  BY Numbers
<1>2. IsFiniteSet(1..a) /\ Cardinality(1..a) = a
  BY <1>1, FS_Interval
<1>3. IsFiniteSet({w}) /\ Cardinality({w}) = 1
  BY FS_Singleton
<1>4. Cardinality({w} \X (1..a)) = Cardinality({w}) * Cardinality(1..a)
  BY <1>2, <1>3, FS_Product
<1>5. Cardinality({w} \X (1..a)) = 1 * a
  BY <1>2, <1>3, <1>4, Zenon
<1>6. {w} \X (1..a) \subseteq Workers \X (1..Amount)
  <2>1. {w} \subseteq Workers /\ 1..a \subseteq 1..Amount
    BY <1>1, Numbers
  <2> QED
    BY <2>1
<1> QED
  BY <1>1, <1>5, <1>6

\* The units of other workers' refunds, and those w still holds.
LEMMA FewerUnits ==
  ASSUME TakenInv, NEW o \in Orders, taken[o] \in Int, taken'[o] \in Int, taken'[o] >= taken[o],
         \A v \in Workers : pc'[v] \in Holding /\ take'[v] # 0 =>
           pc[v] \in Holding /\ job'[v] = job[v] /\ take'[v] = take[v],
         TypeOK, TypeOK'
  PROVE  Cardinality(Units(o)') <= taken'[o]
<1>1. Units(o)' \subseteq Units(o)
  <2> SUFFICES ASSUME NEW u \in Workers \X (1..Amount),
                      job'[u[1]] = o, pc'[u[1]] \in Holding, u[2] <= take'[u[1]]
               PROVE  u \in Units(o)
    BY DEF Units
  <2>1. u[1] \in Workers /\ u[2] \in 1..Amount /\ take'[u[1]] \in 0..Amount
    BY DEF TypeOK
  <2>2. take'[u[1]] # 0
    BY <2>1, Numbers
  <2> QED
    BY <2>1, <2>2 DEF Units
<1>2. Cardinality(Units(o)') <= Cardinality(Units(o)) /\ Cardinality(Units(o)) \in Nat
      /\ Cardinality(Units(o)') \in Nat
  BY <1>1, UnitsType, FiniteUnits, FS_Subset
<1>3. Cardinality(Units(o)) <= taken[o]
  BY DEF TakenInv
<1> QED
  BY <1>2, <1>3

LEMMA FewerAll ==
  ASSUME TakenInv, TypeOK, TypeOK', \A o \in Orders : taken'[o] >= taken[o],
         \A v \in Workers : pc'[v] \in Holding /\ take'[v] # 0 =>
           pc[v] \in Holding /\ job'[v] = job[v] /\ take'[v] = take[v]
  PROVE  TakenInv'
<1>1. \A o \in Orders : taken[o] \in Int /\ taken'[o] \in Int
  BY DEF TypeOK
<1> QED
  BY <1>1, FewerUnits DEF TakenInv

LEMMA DeductUnits ==
  ASSUME TypeOK, TypeOK', TakenInv, NEW w \in Workers, DeductBalance(w)
  PROVE  TakenInv'
<1>e. /\ pc[w] = "deduct" /\ job' = job
      /\ \A v \in Workers \ {w} : pc'[v] = pc[v] /\ take'[v] = take[v]
      /\ \A p \in Orders \ {job[w]} : taken'[p] = taken[p]
      /\ \/ pc'[w] = "gateway" /\ ((taken' = taken /\ take'[w] = 0) \/ taken'[job[w]] = taken[job[w]] + take'[w])
         \/ pc'[w] = "restore" /\ taken' = taken
  BY DeductEffect
<1>t. /\ \A o \in Orders : taken[o] \in Int /\ taken'[o] \in Int
      /\ take'[w] \in 0..Amount /\ job[w] \in Orders
  BY DEF TypeOK
<1>1. CASE taken' = taken /\ (take'[w] = 0 \/ pc'[w] = "restore")
  BY <1>1, <1>e, <1>t, FewerAll DEF Holding
<1>2. CASE pc'[w] = "gateway" /\ taken'[job[w]] = taken[job[w]] + take'[w]
  <2> SUFFICES ASSUME NEW o \in Orders PROVE Cardinality(Units(o)') <= taken'[o]
    BY DEF TakenInv
  <2>p. PICK a \in 0..Amount : a = take'[w]
    BY <1>t
  <2> DEFINE S == Units(o) \cup ({w} \X (1..a))
  <2>1. CASE o = job[w]
    <3>1. Units(o)' \subseteq S
      BY <1>e, <2>p DEF Units
    <3>2. /\ Units(o) \subseteq Workers \X (1..Amount)
          /\ {w} \X (1..a) \subseteq Workers \X (1..Amount) /\ Cardinality({w} \X (1..a)) = a
      BY UnitsType, Block
    <3>3. /\ Cardinality(S) = Cardinality(Units(o)) + a - Cardinality(Units(o) \cap ({w} \X (1..a)))
          /\ Cardinality(Units(o) \cap ({w} \X (1..a))) \in Nat /\ Cardinality(Units(o)) \in Nat
      BY <3>2, FiniteUnits, FS_Union
    <3>4. S \subseteq Workers \X (1..Amount)
      BY <3>2
    <3> HIDE DEF S
    <3>5. Cardinality(Units(o)') <= Cardinality(S) /\ Cardinality(S) \in Nat /\ Cardinality(Units(o)') \in Nat
      BY <3>1, <3>4, FiniteUnits, FS_Subset
    <3>6. Cardinality(Units(o)) <= taken[o] /\ taken'[o] = taken[o] + a
      BY <1>2, <2>1, <2>p DEF TakenInv
    <3> QED
      BY <1>t, <3>3, <3>5, <3>6, Numbers
  <2>2. CASE o # job[w]
    <3>1. Units(o)' \subseteq Units(o)
      BY <1>e, <2>2 DEF Units
    <3>2. Cardinality(Units(o)') <= Cardinality(Units(o)) /\ Cardinality(Units(o)) \in Nat
          /\ Cardinality(Units(o)') \in Nat
      BY <3>1, UnitsType, FiniteUnits, FS_Subset
    <3> QED
      BY <1>e, <1>t, <2>2, <3>2 DEF TakenInv
  <2> QED
    BY <2>1, <2>2
<1> QED
  BY <1>e, <1>1, <1>2

\* w gives back what it took and holds nothing any more.
LEMMA UndoUnits ==
  ASSUME TypeOK, TypeOK', TakenInv, NEW w \in Workers, pc[w] \in Holding, pc'[w] \notin Holding, job' = job,
         \A v \in Workers \ {w} : pc'[v] = pc[v] /\ take'[v] = take[v],
         \A p \in Orders \ {job[w]} : taken'[p] = taken[p], taken'[job[w]] = taken[job[w]] - take[w]
  PROVE  TakenInv'
<1>t. /\ \A o \in Orders : taken[o] \in Int /\ taken'[o] \in Int
      /\ take[w] \in 0..Amount /\ job[w] \in Orders
  BY DEF TypeOK
<1> SUFFICES ASSUME NEW o \in Orders PROVE Cardinality(Units(o)') <= taken'[o]
  BY DEF TakenInv
<1> DEFINE a == take[w]
           B == {w} \X (1..a)
<1>1. CASE o = job[w]
  <2>1. B \subseteq Units(o) /\ Units(o)' \subseteq Units(o) \ B
    <3>1. B \subseteq Units(o)
      BY <1>1, <1>t, Numbers DEF Units
    <3>2. Units(o)' \subseteq Units(o) /\ \A u \in Units(o)' : u[1] # w
      BY <1>1 DEF Units
    <3>3. \A u \in B : u[1] = w
      OBVIOUS
    <3> QED
      BY <3>1, <3>2, <3>3
  <2>2. Cardinality(B) = a
    BY <1>t, Block
  <2> HIDE DEF B
  <2>3. /\ Cardinality(Units(o) \ B) = Cardinality(Units(o)) - a
        /\ Units(o) \ B \subseteq Workers \X (1..Amount)
    <3>1. Units(o) \cap B = B
      BY <2>1
    <3>2. Units(o) \subseteq Workers \X (1..Amount) /\ IsFiniteSet(Units(o))
      BY UnitsType, FiniteUnits
    <3>3. Cardinality(Units(o) \ B) = Cardinality(Units(o)) - Cardinality(Units(o) \cap B)
      BY <3>2, FS_Difference
    <3> QED
      BY <2>2, <3>1, <3>2, <3>3
  <2>4. Cardinality(Units(o)') <= Cardinality(Units(o) \ B) /\ Cardinality(Units(o) \ B) \in Nat
        /\ Cardinality(Units(o)') \in Nat /\ Cardinality(Units(o)) \in Nat
    BY <2>1, <2>3, UnitsType, FiniteUnits, FS_Subset
  <2> QED
    BY <1>1, <1>t, <2>3, <2>4, Numbers DEF TakenInv
<1>2. CASE o # job[w]
  <2>1. Units(o)' \subseteq Units(o)
    BY <1>2 DEF Units
  <2>2. Cardinality(Units(o)') <= Cardinality(Units(o)) /\ Cardinality(Units(o)) \in Nat
        /\ Cardinality(Units(o)') \in Nat
    BY <2>1, UnitsType, FiniteUnits, FS_Subset
  <2> QED
    BY <1>2, <1>t, <2>2 DEF TakenInv
<1> QED
  BY <1>1, <1>2

\* All other steps move no money away from a refund, and none starts to hold any.
LEMMA StopHolds ==
  ASSUME TypeOK, NEW w \in Workers, Stop(w)
  PROVE  \A v \in Workers : pc'[v] \in Holding =>
           pc[v] \in Holding /\ job'[v] = job[v] /\ take'[v] = take[v]
  BY Stops DEF Holding

LEMMA NextTaken ==
  ASSUME TypeOK, AmountInv, TakenInv, [Next]_vars
  PROVE  TakenInv'
<1>t. TypeOK' /\ \A o \in Orders : taken[o] \in Int
  BY NextTypes DEF TypeOK
<1>1. ASSUME UNCHANGED taken,
             \A v \in Workers : pc'[v] \in Holding /\ take'[v] # 0 =>
               pc[v] \in Holding /\ job'[v] = job[v] /\ take'[v] = take[v]
      PROVE  TakenInv'
  BY <1>1, <1>t, FewerAll
<1>2. ASSUME NEW w \in Workers, NEW o \in Orders, RequestRefund(w, o) \/ QueryRefund(w, o) PROVE TakenInv'
  BY <1>1, <1>2 DEF RequestRefund, QueryRefund, Holding, TypeOK
<1>3. ASSUME NEW w \in Workers, NEW o \in Orders, NEW a \in 1..Amount, NEW force \in BOOLEAN,
             NEW takeBack \in BOOLEAN, PrepareRefund(w, o, a, force, takeBack)
      PROVE  TakenInv'
  BY <1>1, <1>3 DEF PrepareRefund, Holding, TypeOK
<1>4. ASSUME NEW w \in Workers, Proceed(w) \/ Crash(w) PROVE TakenInv'
  <2>1. ASSUME UNCHANGED taken, Stop(w) PROVE TakenInv'
    BY <1>1, <2>1, StopHolds
  <2>2. ASSUME UNCHANGED <<taken, take>>, NEW s \in Step, Goto(w, s),
               s \in Holding /\ take[w] # 0 => pc[w] \in Holding
        PROVE  TakenInv'
    BY <1>1, <2>2, GoesOn
  <2>3. CASE \/ MarkRequested(w) \/ Crash(w) \/ RestoreStatus(w) \/ MarkRefundFailed(w)
             \/ MarkRefundOk(w) \/ LogRefundPending(w) \/ FinalizeFailed(w)
    BY <2>1, <2>3 DEF MarkRequested, Crash, RestoreStatus, MarkRefundFailed, MarkRefundOk,
       LogRefundPending, FinalizeFailed
  <2>4. CASE LockRefund(w)
    <3>1. take[w] \in 0..Amount /\ UNCHANGED taken
      BY <2>4 DEF TypeOK, LockRefund
    <3>2. CASE Stop(w)
      BY <2>1, <3>1, <3>2
    <3>3. CASE Goto(w, IF take[w] > 0 THEN "deduct" ELSE "gateway") /\ UNCHANGED plan
      <4>1. CASE take[w] > 0
        BY <2>2, <3>1, <3>3, <4>1 DEF Step, Holding
      <4>2. CASE ~(take[w] > 0)
        <5>1. take[w] = 0
          BY <3>1, <4>2, Numbers
        <5> QED
          BY <2>2, <3>1, <3>3, <4>2, <5>1 DEF Step, Holding
      <4> QED
        BY <4>1, <4>2
    <3> QED
      BY <2>4, <3>2, <3>3 DEF LockRefund
  <2>5. CASE MarkRefundPending(w)
    BY <2>1, <2>2, <2>5 DEF MarkRefundPending, Step, Holding
  <2>6. CASE AskGateway(w)
    BY <2>1, <2>2, <2>6 DEF AskGateway, Step, Holding
  <2>7. CASE DeductBalance(w)
    BY <2>7, <1>t, DeductUnits
  <2>8. CASE UndoAfterFailure(w)
    <3>1. /\ pc[w] = "undoFail" /\ pc'[w] \in {"restore", "setFailed"} /\ UNCHANGED <<job, take>>
          /\ \A v \in Workers \ {w} : pc'[v] = pc[v] /\ take'[v] = take[v]
          /\ \A p \in Orders \ {job[w]} : taken'[p] = taken[p]
          /\ taken'[job[w]] = taken[job[w]] - take[w] \/ taken' = taken
      BY <2>8, UndoFailEffect
    <3> QED
      BY <1>1, <1>t, <3>1, UndoUnits DEF Holding
  <2>9. CASE UndoWhilePending(w)
    <3>1. /\ pc[w] = "undoPending" /\ pc'[w] = "setPending" /\ UNCHANGED job
          /\ \A v \in Workers \ {w} : pc'[v] = pc[v] /\ take'[v] = take[v]
          /\ \A p \in Orders \ {job[w]} : taken'[p] = taken[p]
          /\ taken'[job[w]] = taken[job[w]] - take[w] \/ taken' = taken
      BY <2>9, UndoPendingEffect
    <3> QED
      BY <1>1, <1>t, <3>1, UndoUnits DEF Holding
  <2>10. CASE FinalizeSuccess(w)
    BY <1>t, <2>10, FinalizeEffect, StopHolds, FewerAll
  <2>11. CASE GatewayRefund(w)
    <3>1. /\ pc[w] = "gateway" /\ UNCHANGED <<purse, take>>
          /\ \E s \in {"setOk", "undoFail", "undoPending"} : Goto(w, s)
      BY <2>11, GatewayEffect DEF Answered
    <3> QED
      BY <2>2, <3>1 DEF Step, Holding
  <2> QED
    BY <1>4, <2>3, <2>4, <2>5, <2>6, <2>7, <2>8, <2>9, <2>10, <2>11 DEF Proceed, Execute, Finalize
<1>5. CASE \/ \E o \in Orders, k \in RefundIds : GatewaySettles(o, k)
           \/ \E cost \in 1..Amount : Spend(cost)
  BY <1>1, <1>5, OutsideTypes
<1>6. CASE UNCHANGED vars
  BY <1>1, <1>6 DEF vars
<1> QED
  BY <1>2, <1>3, <1>4, <1>5, <1>6 DEF Next

-----------------------------------------------------------------------------
(* What is called refunded has been returned. *)

\* A worker that will call the order refunded has seen why it may.
Seen(w) ==
  /\ pc[w] = "setOk" /\ tradeNo[job[w]] => gateway[job[w]][rid[w]] = "done"
  /\ pc[w] = "finalOk" => gateway[job[w]][rid[w]] = "done"

Lasting ==
  /\ UNCHANGED tradeNo
  /\ \A o \in Orders, k \in RefundIds : gateway[o][k] = "done" => gateway'[o][k] = "done"

LEMMA PaidStep ==
  ASSUME TypeOK, PaidInv, Lasting,
         \A v \in Workers :
           \/ Seen(v)' \/ pc'[v] \notin {"setOk", "finalOk"}
           \/ pc'[v] = pc[v] /\ job'[v] = job[v] /\ rid'[v] = rid[v],
         \A o \in Orders :
           \/ status'[o] = status[o] \/ status'[o] \notin Final \/ ~tradeNo[o]
           \/ \E k \in RefundIds : gateway[o][k] = "done"
  PROVE  PaidInv'
<1>1. ASSUME NEW v \in Workers PROVE Seen(v)'
  <2>1. Seen(v) /\ job[v] \in Orders /\ rid[v] \in RefundIds
    BY DEF PaidInv, Seen, TypeOK
  <2> QED
    BY <2>1 DEF Seen, Lasting
<1>2. RefundedIsPaidBack'
  BY DEF RefundedIsPaidBack, PaidInv, Lasting
<1> QED
  BY <1>1, <1>2 DEF PaidInv, Seen

\* w ends, or goes to a step before the order is called refunded.
LEMMA PaidMove ==
  ASSUME TypeOK, PaidInv, Lasting, NEW w \in Workers,
         Stop(w) \/ \E s \in Step \ {"setOk", "finalOk"} : Goto(w, s) /\ UNCHANGED rid,
         \/ UNCHANGED status
         \/ \E s \in Status \ Final : SetStatus(job[w], s)
         \/ ~tradeNo[job[w]]
            /\ \A o \in Orders \ {job[w]} : status'[o] = status[o]
         \/ \E k \in RefundIds : gateway[job[w]][k] = "done"
            /\ \A o \in Orders \ {job[w]} : status'[o] = status[o]
  PROVE  PaidInv'
<1>1. \A v \in Workers : \/ pc'[v] \notin {"setOk", "finalOk"}
                         \/ pc'[v] = pc[v] /\ job'[v] = job[v] /\ rid'[v] = rid[v]
  BY Stops, GoesOn
<1>2. \A o \in Orders :
        \/ status'[o] = status[o] \/ status'[o] \notin Final \/ ~tradeNo[o]
        \/ \E k \in RefundIds : gateway[o][k] = "done"
  <2>1. job[w] \in Orders /\ status \in [Orders -> Status]
    BY DEF TypeOK
  <2> QED
    BY <2>1 DEF SetStatus
<1> QED
  BY <1>1, <1>2, PaidStep

LEMMA NextPaid ==
  ASSUME TypeOK, AmountInv, PaidInv, [Next]_vars
  PROVE  PaidInv'
<1>1. ASSUME NEW w \in Workers, NEW o \in Orders, RequestRefund(w, o) \/ QueryRefund(w, o) PROVE PaidInv'
  <2>1. UNCHANGED <<status, tradeNo, gateway>> /\ pc'[w] \notin {"setOk", "finalOk"}
        /\ \A v \in Workers \ {w} : pc'[v] = pc[v] /\ job'[v] = job[v] /\ rid'[v] = rid[v]
    BY <1>1 DEF RequestRefund, QueryRefund, TypeOK
  <2> QED
    BY <2>1, PaidStep DEF Lasting
<1>2. ASSUME NEW w \in Workers, NEW o \in Orders, NEW a \in 1..Amount, NEW force \in BOOLEAN,
             NEW takeBack \in BOOLEAN, PrepareRefund(w, o, a, force, takeBack)
      PROVE  PaidInv'
  <2>1. UNCHANGED <<status, tradeNo, gateway>> /\ pc'[w] \notin {"setOk", "finalOk"}
        /\ \A v \in Workers \ {w} : pc'[v] = pc[v] /\ job'[v] = job[v] /\ rid'[v] = rid[v]
    BY <1>2 DEF PrepareRefund, TypeOK
  <2> QED
    BY <2>1, PaidStep DEF Lasting
<1>3. ASSUME NEW w \in Workers, Proceed(w) \/ Crash(w) PROVE PaidInv'
  <2>t. job[w] \in Orders /\ rid[w] \in RefundIds /\ status \in [Orders -> Status] /\ Seen(w)
    BY DEF TypeOK, PaidInv, Seen
  <2>1. CASE \/ MarkRequested(w) \/ Crash(w) \/ RestoreStatus(w) \/ MarkRefundFailed(w)
             \/ LogRefundPending(w) \/ FinalizeFailed(w) \/ LockRefund(w) \/ MarkRefundPending(w)
    <3>1. Lasting
      BY <2>1 DEF MarkRequested, Crash, RestoreStatus, MarkRefundFailed, LogRefundPending,
         FinalizeFailed, LockRefund, MarkRefundPending, Lasting
    <3>2. Stop(w) \/ \E s \in Step \ {"setOk", "finalOk"} : Goto(w, s) /\ UNCHANGED rid
      BY <2>1 DEF MarkRequested, Crash, RestoreStatus, MarkRefundFailed, LogRefundPending,
         FinalizeFailed, LockRefund, MarkRefundPending, Step
    <3>3. UNCHANGED status \/ \E s \in Status \ Final : SetStatus(job[w], s)
      BY <2>1 DEF MarkRequested, Crash, RestoreStatus, MarkRefundFailed, LogRefundPending,
         FinalizeFailed, LockRefund, MarkRefundPending, RestoredStatus, Status, Final
    <3> QED
      BY <3>1, <3>2, <3>3, PaidMove
  <2>2. CASE MarkRefundOk(w)
    <3>1. Lasting /\ Stop(w) /\ pc[w] = "setOk"
      BY <2>2 DEF MarkRefundOk, Lasting
    <3>2. UNCHANGED status \/ \A o \in Orders \ {job[w]} : status'[o] = status[o]
      BY <2>2, <2>t DEF MarkRefundOk, SetStatus
    <3>3. ~tradeNo[job[w]] \/ gateway[job[w]][rid[w]] = "done"
      BY <2>t, <3>1 DEF Seen
    <3> QED
      BY <2>t, <3>1, <3>2, <3>3, PaidMove
  <2>3. CASE FinalizeSuccess(w)
    <3>1. /\ Lasting /\ Stop(w) /\ pc[w] = "finalOk"
          /\ UNCHANGED status \/ SetStatus(job[w], RefundedStatus(amt[w]))
      BY <2>3, FinalizeEffect DEF Lasting
    <3>2. UNCHANGED status \/ \A o \in Orders \ {job[w]} : status'[o] = status[o]
      BY <2>t, <3>1 DEF SetStatus
    <3>3. gateway[job[w]][rid[w]] = "done"
      BY <2>t, <3>1 DEF Seen
    <3> QED
      BY <2>t, <3>1, <3>2, <3>3, PaidMove
  <2>4. CASE AskGateway(w)
    <3>1. Lasting /\ UNCHANGED status
      BY <2>4 DEF AskGateway, Lasting
    <3>2. CASE gateway[job[w]][rid[w]] = "done" /\ Goto(w, "finalOk") /\ UNCHANGED plan
      <4>1. /\ pc'[w] = "finalOk" /\ job' = job /\ rid' = rid
            /\ \A v \in Workers \ {w} : pc'[v] = pc[v]
        BY <3>2, GoesOn DEF Step
      <4>2. Seen(w)'
        BY <2>t, <3>1, <3>2, <4>1 DEF Seen, Lasting
      <4> QED
        BY <3>1, <4>1, <4>2, PaidStep
    <3>3. CASE (Goto(w, "finalFail") /\ UNCHANGED plan) \/ Stop(w)
      BY <3>1, <3>3, PaidMove DEF Step
    <3> QED
      BY <2>4, <3>2, <3>3 DEF AskGateway
  <2>5. CASE DeductBalance(w) \/ UndoAfterFailure(w) \/ UndoWhilePending(w)
    <3>1. Lasting /\ UNCHANGED <<status, rid>>
      BY <2>5 DEF DeductBalance, UndoAfterFailure, UndoWhilePending, Lasting
    <3>2. \E s \in Step \ {"setOk", "finalOk"} : Goto(w, s) /\ UNCHANGED rid
      BY <2>5, <3>1 DEF DeductBalance, UndoAfterFailure, UndoWhilePending, Step
    <3> QED
      BY <3>1, <3>2, PaidMove
  <2>6. CASE GatewayRefund(w)
    <3>1. /\ UNCHANGED row /\ Answered(w)
      BY <2>6, GatewayEffect
    <3>2. PICK s \in {"setOk", "undoFail", "undoPending"} :
            Goto(w, s) /\ (s = "setOk" => ~tradeNo[job[w]] \/ gateway'[job[w]][rid'[w]] = "done")
      BY <3>1 DEF Answered
    <3>3. Lasting /\ UNCHANGED status /\ \A v \in Workers \ {w} : rid'[v] = rid[v]
      BY <3>1 DEF Lasting, Answered
    <3>4. /\ pc'[w] = s /\ job' = job
          /\ \A v \in Workers \ {w} : pc'[v] = pc[v]
      BY <3>2, GoesOn DEF Step
    <3>5. Seen(w)'
      BY <3>2, <3>3, <3>4 DEF Seen, Lasting
    <3> QED
      BY <3>3, <3>4, <3>5, PaidStep
  <2> QED
    BY <1>3, <2>1, <2>2, <2>3, <2>4, <2>5, <2>6 DEF Proceed, Execute, Finalize
<1>4. CASE \/ \E o \in Orders, k \in RefundIds : GatewaySettles(o, k)
           \/ \E cost \in 1..Amount : Spend(cost)
  <2>1. Lasting /\ UNCHANGED <<status, pc, job, rid>>
    BY <1>4, OutsideTypes DEF Lasting
  <2> QED
    BY <2>1, PaidStep
<1>5. CASE UNCHANGED vars
  BY <1>5, PaidStep DEF vars, Lasting
<1> QED
  BY <1>1, <1>2, <1>3, <1>4, <1>5 DEF Next

-----------------------------------------------------------------------------
(* Theorems, faults or not. *)

LEMMA InitMoney == Init => MoneyInv
<1> SUFFICES ASSUME Init PROVE MoneyInv
  OBVIOUS
<1>1. TypeOK
  <2>1. Cardinality(Orders) \in Nat /\ Amount * Cardinality(Orders) \in Nat
    BY PeopleAssumption, Numbers, FS_CardinalityType
  <2>2. (CHOOSE o \in Orders : TRUE) \in Orders
    BY PeopleAssumption
  <2>3. PlanOK
    BY <2>2, Numbers, Ids DEF Init, PlanOK, Step, Status
  <2>4. RowOK /\ RestOK
    BY Numbers DEF Init, RowOK, RestOK, Status
  <2>5. PurseOK
    BY <2>1 DEF Init, PurseOK
  <2> QED
    BY <2>3, <2>4, <2>5, Parts
<1>2. AmountInv /\ PaidInv
  BY DEF Init, AmountInv, PaidInv, RefundedIsPaidBack, Final
<1>3. TakenInv
  <2>1. \A o \in Orders : Units(o) = {}
    BY DEF Init, Units, Holding
  <2> QED
    <3>1. Cardinality({}) <= 0 /\ \A o \in Orders : taken[o] = 0
      BY FS_EmptySet DEF Init
    <3> QED
      BY <2>1, <3>1 DEF TakenInv
<1> QED
  BY <1>1, <1>2, <1>3 DEF MoneyInv

\* The inductive invariant, whatever crashes, lost answers and failed
\* statements interrupt the refunds (payment_refund.go).
THEOREM MoneyInvariance == Spec => []MoneyInv
<1>1. MoneyInv /\ [Next]_vars => MoneyInv'
  BY NextTypes, NextTaken, NextPaid DEF MoneyInv
<1> QED
  BY <1>1, InitMoney, PTL DEF Spec

\* All state stays within its types.
THEOREM TypeCorrect == Spec => []TypeOK
<1>1. MoneyInv => TypeOK
  BY DEF MoneyInv
<1> QED
  BY <1>1, MoneyInvariance, PTL

\* However refunds are interrupted, repeated and raced, no order's refunds give
\* the user more than they took (DeductAvailableBalance, RollbackRefund).
THEOREM GivesBack == Spec => []NeverGivesBackMore
<1>1. MoneyInv => NeverGivesBackMore
  <2> SUFFICES ASSUME MoneyInv, NEW o \in Orders PROVE taken[o] >= 0
    BY DEF NeverGivesBackMore
  <2>1. Cardinality(Units(o)) \in Nat /\ Cardinality(Units(o)) <= taken[o]
    BY UnitsType, FiniteUnits DEF MoneyInv, TakenInv
  <2>2. taken[o] \in Int
    BY DEF MoneyInv, TypeOK
  <2> QED
    BY <2>1, <2>2
<1> QED
  BY <1>1, MoneyInvariance, PTL

\* An order is called refunded only when the provider has returned the money,
\* or never had it (MarkRefundOk, QueryAndFinalizeRefund).
THEOREM PaidBack == Spec => []RefundedIsPaidBack
<1>1. MoneyInv => RefundedIsPaidBack
  BY DEF MoneyInv, PaidInv
<1> QED
  BY <1>1, MoneyInvariance, PTL

-----------------------------------------------------------------------------
(* Without faults and finalizations: REFUNDING is a lock, and its holder knows *)
(* what the order's refund has taken.                                          *)

Faulty == {"setFailed", "query", "finalOk", "finalFail"}
KnowsTaken == Holding \cup {"setOk"}
KnowsNothing == {"deduct", "restore", "setPending"}

Same(w) == \A v \in Workers \ {w} : pc'[v] = pc[v] /\ job'[v] = job[v] /\ take'[v] = take[v]

\* w neither holds an order nor gets one.
Aside(w) ==
  /\ Same(w) /\ pc[w] \notin Locked /\ pc'[w] \notin Locked \cup Faulty
  /\ \A o \in Orders : /\ taken'[o] = taken[o]
                       /\ \/ status'[o] = status[o]
                          \/ status[o] = "COMPLETED" /\ status'[o] = "REFUND_REQUESTED"

\* w holds or locks its order, and nothing happens to the others.
Alone(w) ==
  /\ Same(w) /\ job'[w] = job[w] /\ pc'[w] \notin Faulty
  /\ pc[w] \in Locked \/ status[job[w]] \in Refundable
  /\ \A o \in Orders \ {job[w]} : status'[o] = status[o] /\ taken'[o] = taken[o]
  /\ taken'[job[w]] <= Amount
  /\ pc'[w] \in Locked => status'[job[w]] = "REFUNDING"
  /\ pc'[w] \notin Locked => status'[job[w]] \in Final \/ taken'[job[w]] = 0
  /\ pc'[w] \in KnowsTaken => taken'[job[w]] = take'[w]
  /\ pc'[w] \in KnowsNothing => taken'[job[w]] = 0

LEMMA Knows == Locked = KnowsTaken \cup KnowsNothing /\ Locked \cap Faulty = {}
  BY DEF Locked, KnowsTaken, KnowsNothing, Faulty, Holding

LEMMA AsideKeeps ==
  ASSUME TypeOK, LockInv, ShareInv, NEW w \in Workers, Aside(w)
  PROVE  LockInv' /\ ShareInv' /\ \A o \in Orders : status[o] \in Final => status'[o] = status[o]
<1>p. \A v \in Workers : job[v] \in Orders
  BY DEF TypeOK
<1>1. \A v \in Workers : pc'[v] \in Locked =>
        v # w /\ pc[v] \in Locked /\ pc'[v] = pc[v] /\ job'[v] = job[v] /\ take'[v] = take[v]
  BY DEF Aside, Same
<1>2. \A v \in Workers : pc'[v] \notin Faulty
  BY DEF Aside, Same, LockInv, Faulty
<1>3. \A o \in Orders : status[o] = "REFUNDING" => status'[o] = "REFUNDING"
  BY DEF Aside
<1>4. LockInv'
  <2>1. ASSUME NEW v \in Workers, pc'[v] \in Locked
        PROVE  /\ status'[job'[v]] = "REFUNDING"
               /\ \A u \in Workers : pc'[u] \in Locked /\ job'[u] = job'[v] => u = v
    BY <1>p, <1>1, <1>3, <2>1 DEF LockInv
  <2> QED
    BY <1>2, <2>1 DEF LockInv, Faulty
<1>5. \A o \in Orders : Free(o)' => Free(o)
  BY DEF Aside, Same, Free
<1>6. \A o \in Orders : taken'[o] <= Amount /\ (Free(o)' /\ status'[o] \notin Final => taken'[o] = 0)
  BY <1>5 DEF Aside, ShareInv, Final
<1>7. \A v \in Workers : /\ pc'[v] \in KnowsTaken => taken'[job'[v]] = take'[v]
                         /\ pc'[v] \in KnowsNothing => taken'[job'[v]] = 0
  BY <1>p, <1>1, Knows DEF Aside, ShareInv, KnowsTaken, KnowsNothing
<1>8. ShareInv'
  BY <1>6, <1>7 DEF ShareInv, KnowsTaken, KnowsNothing
<1> QED
  BY <1>4, <1>8 DEF Aside, Final

\* An order that can be refunded is free, and one that is locked is held once.
LEMMA Sole ==
  ASSUME TypeOK, LockInv, NEW w \in Workers, pc[w] \in Locked \/ status[job[w]] \in Refundable
  PROVE  /\ \A v \in Workers \ {w} : job[v] = job[w] => pc[v] \notin Locked
         /\ status[job[w]] \notin Final
         /\ pc[w] \notin Locked => Free(job[w])
  BY DEF LockInv, Free, Refundable, Final

LEMMA AloneKeeps ==
  ASSUME TypeOK, LockInv, ShareInv, NEW w \in Workers, Alone(w)
  PROVE  LockInv' /\ ShareInv' /\ \A o \in Orders : status[o] \in Final => status'[o] = status[o]
<1>p. (\A v \in Workers : job[v] \in Orders) /\ job'[w] = job[w]
  BY DEF TypeOK, Alone
<1>s. /\ \A v \in Workers \ {w} : job[v] = job[w] => pc[v] \notin Locked
      /\ status[job[w]] \notin Final
  BY Sole DEF Alone
<1>1. \A v \in Workers \ {w} : /\ pc'[v] = pc[v] /\ job'[v] = job[v] /\ take'[v] = take[v]
                               /\ pc[v] \in Locked => job[v] # job[w]
  BY <1>s DEF Alone, Same
<1>2. \A v \in Workers : pc'[v] \notin Faulty
  BY <1>1 DEF Alone, LockInv, Faulty
<1>3. \A v \in Workers \ {w} : pc[v] \in Locked =>
        status'[job[v]] = status[job[v]] /\ taken'[job[v]] = taken[job[v]]
  BY <1>p, <1>1 DEF Alone
<1>4. LockInv'
  <2>1. ASSUME NEW v \in Workers, pc'[v] \in Locked
        PROVE  /\ status'[job'[v]] = "REFUNDING"
               /\ \A u \in Workers : pc'[u] \in Locked /\ job'[u] = job'[v] => u = v
    <3>1. CASE v = w
      BY <1>p, <1>1, <2>1, <3>1 DEF Alone
    <3>2. CASE v # w
      BY <1>p, <1>1, <1>3, <2>1, <3>2 DEF LockInv
    <3> QED
      BY <3>1, <3>2
  <2> QED
    BY <1>2, <2>1 DEF LockInv, Faulty
<1>5. ASSUME NEW o \in Orders
      PROVE  taken'[o] <= Amount /\ (Free(o)' /\ status'[o] \notin Final => taken'[o] = 0)
  <2>1. CASE o = job[w]
    BY <1>p, <2>1 DEF Alone, Free
  <2>2. CASE o # job[w]
    <3>1. status'[o] = status[o] /\ taken'[o] = taken[o]
      BY <2>2 DEF Alone
    <3>2. Free(o)' => Free(o)
      BY <1>p, <1>1, <2>2 DEF Free
    <3> QED
      BY <3>1, <3>2 DEF ShareInv
  <2> QED
    BY <2>1, <2>2
<1>6. ASSUME NEW v \in Workers
      PROVE  /\ pc'[v] \in KnowsTaken => taken'[job'[v]] = take'[v]
             /\ pc'[v] \in KnowsNothing => taken'[job'[v]] = 0
  <2>1. CASE v = w
    BY <1>p, <2>1 DEF Alone
  <2>2. CASE v # w
    BY <1>1, <1>3, <2>2, Knows DEF ShareInv, KnowsTaken, KnowsNothing
  <2> QED
    BY <2>1, <2>2
<1>7. ShareInv'
  BY <1>5, <1>6 DEF ShareInv, KnowsTaken, KnowsNothing
<1>8. \A o \in Orders : status[o] \in Final => status'[o] = status[o]
  BY <1>s DEF Alone
<1> QED
  BY <1>4, <1>7, <1>8

Calm == Quiet /\ QuietInv

LEMMA NoFault == ASSUME Calm, Fault PROVE FALSE
  BY DEF Calm, QuietInv, Quiet, Fault

\* What a worker's share is before its step.
LEMMA Share ==
  ASSUME Calm, NEW w \in Workers
  PROVE  /\ job[w] \in Orders /\ take[w] \in 0..Amount /\ Amount \in Nat /\ pc[w] \notin Faulty
         /\ taken[job[w]] \in Int /\ taken[job[w]] <= Amount
         /\ status \in [Orders -> Status] /\ take \in [Workers -> 0..Amount]
         /\ pc[w] \in Locked => status[job[w]] = "REFUNDING"
         /\ pc[w] \in KnowsTaken => taken[job[w]] = take[w]
         /\ pc[w] \in KnowsNothing => taken[job[w]] = 0
         /\ pc[w] \notin Locked /\ status[job[w]] \in Refundable => taken[job[w]] = 0
<1>1. /\ job[w] \in Orders /\ take[w] \in 0..Amount /\ Amount \in Nat
      /\ taken[job[w]] \in Int /\ status \in [Orders -> Status] /\ take \in [Workers -> 0..Amount]
  BY Numbers DEF Calm, QuietInv, TypeOK
<1>2. /\ pc[w] \notin Faulty
      /\ pc[w] \in Locked => status[job[w]] = "REFUNDING"
  BY DEF Calm, QuietInv, LockInv, Faulty
<1>3. /\ taken[job[w]] <= Amount
      /\ pc[w] \in KnowsTaken => taken[job[w]] = take[w]
      /\ pc[w] \in KnowsNothing => taken[job[w]] = 0
  BY <1>1 DEF Calm, QuietInv, ShareInv, KnowsTaken, KnowsNothing
<1>4. pc[w] \notin Locked /\ status[job[w]] \in Refundable => taken[job[w]] = 0
  BY <1>1, Sole DEF Calm, QuietInv, ShareInv
<1> QED
  BY <1>1, <1>2, <1>3, <1>4

\* The last step of a refund, or of a request.
LEMMA StopAlone ==
  ASSUME Calm, NEW w \in Workers, Stop(w), UNCHANGED taken, pc[w] \in Locked,
         NEW s, SetStatus(job[w], s), s \in Final \/ taken[job[w]] = 0
  PROVE  Alone(w)
<1>1. /\ job' = job /\ pc'[w] = "idle"
      /\ \A v \in Workers \ {w} : pc'[v] = pc[v] /\ take'[v] = take[v]
  BY Stops DEF Calm, QuietInv
<1>2. /\ status'[job[w]] = s /\ \A o \in Orders \ {job[w]} : status'[o] = status[o]
  BY Share DEF SetStatus
<1>3. taken'[job[w]] <= Amount /\ taken' = taken
  BY Share
<1> QED
  BY <1>1, <1>2, <1>3 DEF Alone, Same, Locked, Faulty, KnowsTaken, KnowsNothing, Holding

\* A step in the middle of a refund.
LEMMA GotoAlone ==
  ASSUME Calm, NEW w \in Workers, NEW s \in Locked, Goto(w, s), pc[w] \in Locked, UNCHANGED status,
         \A v \in Workers \ {w} : take'[v] = take[v],
         \A o \in Orders \ {job[w]} : taken'[o] = taken[o],
         s \in KnowsTaken => taken'[job[w]] = take'[w] /\ take'[w] \in 0..Amount,
         s \in KnowsNothing => taken'[job[w]] = 0
  PROVE  Alone(w)
<1>1. s \in Step /\ s \in KnowsTaken \cup KnowsNothing /\ s \notin Faulty
  BY Knows DEF Locked, Step, Faulty
<1>2. /\ job' = job /\ pc'[w] = s /\ \A v \in Workers \ {w} : pc'[v] = pc[v]
  BY <1>1, GoesOn DEF Calm, QuietInv
<1>3. status'[job[w]] = "REFUNDING" /\ taken'[job[w]] <= Amount
  BY <1>1, Share
<1> QED
  BY <1>1, <1>2, <1>3 DEF Alone, Same

LEMMA CalmPlans ==
  ASSUME Calm, NEW w \in Workers, NEW o \in Orders, NEW a \in 1..Amount, NEW force \in BOOLEAN,
         NEW takeBack \in BOOLEAN,
         RequestRefund(w, o) \/ QueryRefund(w, o) \/ PrepareRefund(w, o, a, force, takeBack)
  PROVE  Aside(w) /\ UNCHANGED faults
<1>1. ~QueryRefund(w, o)
  BY DEF QueryRefund, Calm, QuietInv, Quiet
<1>2. /\ pc[w] = "idle" /\ pc'[w] \in {"request", "lock"} /\ Same(w)
      /\ UNCHANGED status /\ UNCHANGED taken /\ UNCHANGED faults
  BY <1>1 DEF RequestRefund, PrepareRefund, Calm, QuietInv, TypeOK, Same
<1> QED
  BY <1>2 DEF Aside, Locked, Faulty

LEMMA CalmSteps ==
  ASSUME Calm, NEW w \in Workers, Proceed(w) \/ Crash(w)
  PROVE  (Aside(w) \/ Alone(w)) /\ UNCHANGED faults
<1>t. TypeOK /\ AmountInv
  BY DEF Calm, QuietInv
<1>1. CASE MarkRequested(w)
  <2>1. /\ job' = job /\ pc'[w] = "idle" /\ pc[w] = "request"
        /\ \A v \in Workers \ {w} : pc'[v] = pc[v] /\ take'[v] = take[v]
        /\ UNCHANGED taken /\ UNCHANGED faults
    BY <1>1, <1>t, Stops DEF MarkRequested
  <2>2. \A o \in Orders : \/ status'[o] = status[o]
                          \/ status[o] = "COMPLETED" /\ status'[o] = "REFUND_REQUESTED"
    BY <1>1, Share DEF MarkRequested, SetStatus
  <2> QED
    BY <2>1, <2>2 DEF Aside, Same, Locked, Faulty
<1>2. CASE LockRefund(w)
  <2>1. pc[w] = "lock" /\ UNCHANGED taken /\ UNCHANGED faults
    BY <1>2 DEF LockRefund
  <2>2. CASE Stop(w) /\ UNCHANGED status
    BY <1>t, <2>1, <2>2, Stops DEF Aside, Same, Locked, Faulty
  <2>3. CASE /\ status[job[w]] \in Refundable /\ SetStatus(job[w], "REFUNDING")
             /\ Goto(w, IF take[w] > 0 THEN "deduct" ELSE "gateway") /\ UNCHANGED plan
    <3>1. PICK s \in {"deduct", "gateway"} : Goto(w, s) /\ (s = "gateway" => take[w] = 0)
      BY <2>3, Share
    <3>2. /\ job' = job /\ pc'[w] = s /\ take' = take
          /\ \A v \in Workers \ {w} : pc'[v] = pc[v]
      BY <1>t, <2>3, <3>1, GoesOn DEF Step
    <3>3. /\ status'[job[w]] = "REFUNDING"
          /\ \A o \in Orders \ {job[w]} : status'[o] = status[o]
      BY <2>3, Share DEF SetStatus
    <3>4. taken[job[w]] = 0 /\ taken' = taken /\ 0 <= Amount
      BY <2>1, <2>3, Share DEF Locked
    <3> QED
      BY <2>1, <2>3, <3>1, <3>2, <3>3, <3>4
      DEF Alone, Same, Locked, Faulty, KnowsTaken, KnowsNothing, Holding
  <2> QED
    BY <1>2, <2>2, <2>3 DEF LockRefund
<1>3. CASE DeductBalance(w)
  <2>1. /\ pc[w] = "deduct" /\ Goto(w, "gateway") /\ UNCHANGED status /\ UNCHANGED faults
        /\ take' \in [Workers -> 0..Amount]
        /\ \A v \in Workers \ {w} : take'[v] = take[v]
        /\ \A o \in Orders \ {job[w]} : taken'[o] = taken[o]
        /\ \/ taken' = taken /\ take'[w] = 0
           \/ taken'[job[w]] = taken[job[w]] + take'[w]
    BY <1>3, <1>t, DeductEffect, NoFault
  <2>2. taken[job[w]] = 0 /\ take'[w] \in 0..Amount
    BY <2>1, Share DEF KnowsNothing
  <2>3. taken'[job[w]] = take'[w]
    BY <2>1, <2>2
  <2> QED
    BY <2>1, <2>2, <2>3, GotoAlone DEF Locked, KnowsNothing
<1>4. CASE GatewayRefund(w)
  <2>1. /\ pc[w] = "gateway" /\ UNCHANGED status /\ UNCHANGED take /\ UNCHANGED taken
        /\ Answered(w)
    BY <1>4, <1>t, GatewayEffect
  <2>2. /\ UNCHANGED faults
        /\ \E s \in {"setOk", "undoFail", "undoPending"} : Goto(w, s)
    BY <2>1, NoFault DEF Answered
  <2>3. taken[job[w]] = take[w] /\ take[w] \in 0..Amount
    BY <2>1, Share DEF KnowsTaken, Holding
  <2> QED
    BY <2>1, <2>2, <2>3, GotoAlone DEF Locked, KnowsNothing
<1>5. CASE UndoAfterFailure(w)
  <2>1. /\ pc[w] = "undoFail" /\ Goto(w, "restore") /\ UNCHANGED status /\ UNCHANGED take
        /\ UNCHANGED faults
        /\ \A o \in Orders \ {job[w]} : taken'[o] = taken[o]
        /\ taken'[job[w]] = taken[job[w]] - take[w]
    BY <1>5, <1>t, UndoFailEffect, NoFault
  <2>2. taken[job[w]] = take[w] /\ take[w] \in 0..Amount /\ Amount \in Nat
    BY <2>1, Share DEF KnowsTaken, Holding
  <2>3. taken'[job[w]] = 0
    BY <2>1, <2>2
  <2> QED
    BY <2>1, <2>3, GotoAlone DEF Locked, KnowsTaken, Holding
<1>6. CASE UndoWhilePending(w)
  <2>1. /\ pc[w] = "undoPending" /\ Goto(w, "setPending") /\ UNCHANGED status
        /\ UNCHANGED faults
        /\ \A v \in Workers \ {w} : take'[v] = take[v]
        /\ \A o \in Orders \ {job[w]} : taken'[o] = taken[o]
        /\ taken'[job[w]] = taken[job[w]] - take[w]
    BY <1>6, <1>t, UndoPendingEffect, NoFault
  <2>2. taken[job[w]] = take[w] /\ take[w] \in 0..Amount /\ Amount \in Nat
    BY <2>1, Share DEF KnowsTaken, Holding
  <2>3. taken'[job[w]] = 0
    BY <2>1, <2>2
  <2> QED
    BY <2>1, <2>3, GotoAlone DEF Locked, KnowsTaken, Holding
<1>7. CASE RestoreStatus(w)
  <2>1. /\ pc[w] = "restore" /\ Stop(w) /\ UNCHANGED taken /\ UNCHANGED faults
        /\ SetStatus(job[w], RestoredStatus(w))
    BY <1>7 DEF RestoreStatus
  <2>2. taken[job[w]] = 0
    BY <2>1, Share DEF KnowsNothing
  <2> QED
    BY <2>1, <2>2, StopAlone DEF Locked
<1>8. CASE MarkRefundOk(w)
  <2>1. /\ pc[w] = "setOk" /\ Stop(w) /\ UNCHANGED taken /\ UNCHANGED faults
        /\ SetStatus(job[w], RefundedStatus(amt[w]))
    BY <1>8, NoFault DEF MarkRefundOk
  <2>2. RefundedStatus(amt[w]) \in Final
    BY DEF RefundedStatus, Final
  <2> QED
    BY <2>1, <2>2, StopAlone DEF Locked
<1>9. CASE MarkRefundPending(w)
  <2>1. /\ pc[w] = "setPending" /\ Goto(w, "logPending") /\ UNCHANGED taken /\ UNCHANGED take
        /\ UNCHANGED faults /\ SetStatus(job[w], "REFUND_PENDING")
    BY <1>9, NoFault DEF MarkRefundPending
  <2>2. /\ job' = job /\ pc'[w] = "logPending" /\ \A v \in Workers \ {w} : pc'[v] = pc[v]
    BY <2>1, <1>t, GoesOn DEF Step
  <2>3. taken[job[w]] = 0 /\ 0 <= Amount
    BY <2>1, Share DEF KnowsNothing
  <2>4. \A o \in Orders \ {job[w]} : status'[o] = status[o]
    BY <2>1, Share DEF SetStatus
  <2> QED
    BY <2>1, <2>2, <2>3, <2>4 DEF Alone, Same, Locked, Faulty, KnowsTaken, KnowsNothing, Holding
<1>10. CASE LogRefundPending(w)
  <2>1. /\ pc[w] = "logPending" /\ Stop(w) /\ UNCHANGED taken /\ UNCHANGED faults /\ UNCHANGED status
    BY <1>10 DEF LogRefundPending
  <2> QED
    BY <1>t, <2>1, Stops DEF Aside, Same, Locked, Faulty
<1>11. CASE MarkRefundFailed(w) \/ Finalize(w)
  BY <1>11, Share DEF MarkRefundFailed, Finalize, AskGateway, FinalizeSuccess, FinalizeFailed, Faulty
<1>12. CASE Crash(w)
  BY <1>12, NoFault DEF Crash
<1> QED
  BY <1>1, <1>2, <1>3, <1>4, <1>5, <1>6, <1>7, <1>8, <1>9, <1>10, <1>11, <1>12 DEF Proceed, Execute

LEMMA NextCalm ==
  ASSUME Calm, [Next]_vars
  PROVE  /\ faults' = 0 /\ LockInv' /\ ShareInv'
         /\ \A o \in Orders : status[o] \in Final => status'[o] = status[o]
<1>1. ASSUME NEW w \in Workers, Aside(w) \/ Alone(w), UNCHANGED faults
      PROVE  /\ faults' = 0 /\ LockInv' /\ ShareInv'
             /\ \A o \in Orders : status[o] \in Final => status'[o] = status[o]
  BY <1>1, AsideKeeps, AloneKeeps DEF Calm, QuietInv
<1>2. CASE \E w \in Workers, o \in Orders :
             \/ RequestRefund(w, o) \/ QueryRefund(w, o)
             \/ \E a \in 1..Amount, force, takeBack \in BOOLEAN : PrepareRefund(w, o, a, force, takeBack)
  <2>1. \E a \in 1..Amount : TRUE
    BY Numbers
  <2> QED
    BY <1>1, <1>2, <2>1, CalmPlans
<1>3. CASE \E w \in Workers : Proceed(w) \/ Crash(w)
  BY <1>1, <1>3, CalmSteps
<1>4. CASE \/ \E o \in Orders, k \in RefundIds : GatewaySettles(o, k)
           \/ \E cost \in 1..Amount : Spend(cost)
           \/ UNCHANGED vars
  <2>1. /\ UNCHANGED status /\ UNCHANGED taken /\ UNCHANGED pc /\ UNCHANGED job /\ UNCHANGED take
        /\ UNCHANGED faults
    BY <1>4 DEF GatewaySettles, Spend, vars
  <2> QED
    BY <2>1 DEF Calm, QuietInv, LockInv, ShareInv, Free
<1> QED
  BY <1>2, <1>3, <1>4 DEF Next

LEMMA InitQuiet == Init => QuietInv
<1> SUFFICES ASSUME Init PROVE QuietInv
  OBVIOUS
<1>1. TypeOK /\ AmountInv
  BY InitMoney DEF MoneyInv
<1>2. faults = 0 /\ LockInv
  BY DEF Init, LockInv, Locked
<1>3. ShareInv
  BY Numbers DEF Init, ShareInv, Holding
<1> QED
  BY <1>1, <1>2, <1>3 DEF QuietInv

-----------------------------------------------------------------------------
(* Theorems about refunds that nothing disturbs. *)

\* The inductive invariant of refunds that neither fail halfway nor are settled
\* by a query: the conditional update to REFUNDING locks the order, and what is
\* taken is either still held by its holder or was paid back (ExecuteRefund).
THEOREM QuietInvariance == Quiet /\ Spec => []QuietInv
<1>1. Quiet /\ QuietInv /\ [Next]_vars => QuietInv'
  BY NextTypes, NextCalm DEF QuietInv, Calm
<1>2. Quiet' <=> Quiet
  BY DEF Quiet
<1> QED
  BY <1>1, <1>2, InitQuiet, PTL DEF Spec

\* However many refunds of it are tried, and however often the provider leaves
\* one pending or refuses it, no order costs the user more than it credited.
THEOREM TakesOnce == Quiet /\ Spec => []NeverTakesTwice
<1>1. QuietInv => NeverTakesTwice
  BY DEF QuietInv, ShareInv, NeverTakesTwice
<1> QED
  BY <1>1, QuietInvariance, PTL

\* When no refund is under way, every attempt that did not end refunded has
\* given back what it took (RollbackRefund before restoreStatus and before
\* markRefundPending).
THEOREM RestingKeepsBalance == Quiet /\ Spec => []RestingOrderKeepsBalance
<1>1. QuietInv => RestingOrderKeepsBalance
  <2> SUFFICES ASSUME QuietInv, NEW o \in Orders, status[o] \notin Final, \A w \in Workers : pc[w] = "idle"
               PROVE  taken[o] = 0
    BY DEF RestingOrderKeepsBalance
  <2>1. Free(o)
    BY DEF Free, Locked
  <2> QED
    BY <2>1 DEF QuietInv, ShareInv
<1> QED
  BY <1>1, QuietInvariance, PTL

\* A refunded order is never called anything else again, whoever still holds a
\* plan made before it was refunded (ExecuteRefund's condition on the status).
THEOREM FinalStays == Quiet /\ Spec => RefundedIsFinal
<1>1. Quiet /\ QuietInv /\ [Next]_vars
        => [\A o \in Orders : status[o] \in Final => status'[o] = status[o]]_vars
  BY NextCalm DEF Calm
<1>2. Quiet' <=> Quiet
  BY DEF Quiet
<1> QED
  BY <1>1, <1>2, QuietInvariance, PTL DEF Spec, RefundedIsFinal
=============================================================================
