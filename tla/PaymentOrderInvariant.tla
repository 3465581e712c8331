----------------------- MODULE PaymentOrderInvariant -----------------------
(***************************************************************************)
(* The inductive invariant behind the safety properties of PaymentOrder:   *)
(* what every row, everything handed out and every worker in the middle of *)
(* an operation satisfy together.                                          *)
(***************************************************************************)
EXTENDS PaymentOrder

Delivered(o) == IF o \in Subscription THEN assigned[o] ELSE code[o] = "used"

Creating == {"insert", "create", "record", "abort"}

\* The deliveries are counted by the records the code checks before it makes
\* them, and the rebate comes second.
GoodsInv ==
  \A o \in Orders :
    /\ grants[o] = IF Delivered(o) THEN 1 ELSE 0
    /\ rebates[o] = IF claimed[o] THEN 1 ELSE 0
    /\ claimed[o] => Delivered(o)

\* A row is paid for exactly in the statuses of fulfilment, FAILED being
\* shared with failed creations; and then the provider has the money.
PaidInv ==
  \A o \in Orders :
    /\ status[o] \in {"PAID", "RECHARGING", "COMPLETED"} => paidAt[o]
    /\ paidAt[o] => /\ status[o] \in {"PAID", "RECHARGING", "FAILED", "COMPLETED"}
                    /\ upstream[o] = "exact"
    /\ UpstreamPaid(o) => linked[o]
    /\ linked[o] => status[o] # "NONE"
    /\ linked[o] /\ status[o] = "FAILED" => paidAt[o]
    /\ Delivered(o) => paidAt[o]
    /\ status[o] = "COMPLETED" => Delivered(o) /\ claimed[o]

\* At most one request creates an order, and until it has answered nobody can
\* pay: this is what makes the unconditional SetStatus(FAILED) harmless.
CreateInv ==
  \A w \in Workers :
    /\ pc[w] \in Creating => ~linked[job[w]]
    /\ pc[w] = "insert" => status[job[w]] = "NONE"
    /\ pc[w] \in Creating \ {"insert"} =>
         status[job[w]] \in {"PENDING", "CANCELLED", "EXPIRED"}
    /\ \A v \in Workers :
         pc[w] \in Creating /\ pc[v] \in Creating /\ job[v] = job[w] => v = w

\* What a worker has established by the step it is at.
WorkerInv ==
  \A w \in Workers :
    /\ pc[w] \in {"persist", "confirm"} => UpstreamPaid(job[w])
    /\ pc[w] = "recheck" => upstream[job[w]] = "exact"
    /\ pc[w] \in LeaseSteps \cup {"acquire"} => paidAt[job[w]]
    /\ pc[w] \in {"lookup", "make", "redeem"} => job[w] \notin Subscription
    /\ pc[w] = "assign" => job[w] \in Subscription
    /\ pc[w] \in {"rebate", "complete"} => Delivered(job[w])
    /\ pc[w] = "complete" => claimed[job[w]]

\* Together they are preserved by every step, and imply the properties.
OrderInv ==
  TypeOK /\ GoodsInv /\ PaidInv /\ CreateInv /\ WorkerInv /\ LeaseIsCurrent
=============================================================================
