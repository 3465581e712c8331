SPECIFICATION FairSpec
CONSTANTS
  balance = balance
  plan = plan
  w1 = w1
  w2 = w2
  Orders = {balance, plan}
  Subscription = {plan}
  Workers = {w1, w2}
  MaxPending = 1
  DailyLimit = 1
  Wxpay = {plan}
  MaxOrders = 1
  MaxFaults = 2
INVARIANTS DeliveredAtMostOnce CompletedIsDelivered DeliveredOnlyIfPaid LeaseIsCurrent
PROPERTIES PaidStaysPaid KeepsPromise PaidIsDelivered
\* A failed creation leaves nothing to do for the instance's only order.
CHECK_DEADLOCK FALSE
