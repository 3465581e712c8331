--------------------------- MODULE PaymentPromise ---------------------------
(***************************************************************************)
(* What the payment service promises about a recharge order, without       *)
(* workers, leases, retries or faults: an order is opened, may be closed,  *)
(* and may be accepted as paid only when the provider has received the     *)
(* exact amount, even if it had been closed.  An accepted order is never   *)
(* reopened or closed; it is delivered once, then its inviter is credited  *)
(* once, and only then is it settled, which is final.                      *)
(***************************************************************************)
EXTENDS Naturals

CONSTANT Orders

VARIABLES
  stage,      \* "none", "open", "closed", "paid" or "settled"
  received,   \* the provider has received the exact amount
  delivered,  \* the purchase was handed to the user
  credited    \* the inviter's rebate was decided

promise == <<stage, received, delivered, credited>>

PromiseTypeOK ==
  /\ stage \in [Orders -> {"none", "open", "closed", "paid", "settled"}]
  /\ received \in [Orders -> BOOLEAN]
  /\ delivered \in [Orders -> 0..1]
  /\ credited \in [Orders -> 0..1]

PromiseInit ==
  /\ stage = [o \in Orders |-> "none"]
  /\ received = [o \in Orders |-> FALSE]
  /\ delivered = [o \in Orders |-> 0]
  /\ credited = [o \in Orders |-> 0]

OpenIt(o) ==
  /\ stage[o] = "none"
  /\ stage' = [stage EXCEPT ![o] = "open"]
  /\ UNCHANGED <<received, delivered, credited>>

CloseIt(o) ==
  /\ stage[o] = "open"
  /\ stage' = [stage EXCEPT ![o] = "closed"]
  /\ UNCHANGED <<received, delivered, credited>>

Receive(o) ==
  /\ stage[o] \in {"open", "closed"} /\ ~received[o]
  /\ received' = [received EXCEPT ![o] = TRUE]
  /\ UNCHANGED <<stage, delivered, credited>>

Accept(o) ==
  /\ stage[o] \in {"open", "closed"} /\ received[o]
  /\ stage' = [stage EXCEPT ![o] = "paid"]
  /\ UNCHANGED <<received, delivered, credited>>

Deliver(o) ==
  /\ stage[o] = "paid" /\ delivered[o] = 0
  /\ delivered' = [delivered EXCEPT ![o] = 1]
  /\ UNCHANGED <<stage, received, credited>>

Credit(o) ==
  /\ stage[o] = "paid" /\ delivered[o] = 1 /\ credited[o] = 0
  /\ credited' = [credited EXCEPT ![o] = 1]
  /\ UNCHANGED <<stage, received, delivered>>

Settle(o) ==
  /\ stage[o] = "paid" /\ delivered[o] = 1 /\ credited[o] = 1
  /\ stage' = [stage EXCEPT ![o] = "settled"]
  /\ UNCHANGED <<received, delivered, credited>>

PromiseNext ==
  \E o \in Orders :
     \/ OpenIt(o) \/ CloseIt(o) \/ Receive(o) \/ Accept(o)
     \/ Deliver(o) \/ Credit(o) \/ Settle(o)

PromiseSpec == PromiseInit /\ [][PromiseNext]_promise
=============================================================================
