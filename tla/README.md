# TLA+ development of the gateway's money, locks, queues and caches

The repository is a gateway that resells access to AI providers: users recharge
a balance or buy a subscription, requests are routed to upstream accounts, and
usage is charged. Several server instances share one PostgreSQL database and one
Redis. What a user pays, gets and is charged is decided by short sequences of
database statements, without one lock around them; payment providers repeat or
delay their notifications; a server may stop between any two statements. This
project models those sequences, and the locks, queues and cached copies that
many instances share, model-checks them on small instances with TLC, and proves
their safety properties for every instance with TLAPS.

Paths below are relative to `backend/internal/` unless they start with `docs/`,
`backend/` or `frontend/`.

## 1. The system

| component | state it keeps | operations | who else writes it |
|---|---|---|---|
| Recharge orders (`service/payment_order*.go`, `payment_fulfillment.go`) | `payment_orders` row, one redeem code per order, audit rows | CreateOrder, CancelOrder, ExpireTimedOutOrders, VerifyOrderByOutTradeNo, HandlePaymentNotification, RetryFulfillment | users, administrators, the expiry job of each instance, providers' webhooks |
| Refunds (`service/payment_refund.go`) | the same row, `payment_audit_logs`, `users.balance` | RequestRefund, PrepareRefund + ExecuteRefund, QueryAndFinalizeRefund | administrators, users, usage charges |
| Redeem codes, promo codes, affiliate rebates | `redeem_codes`, rebate ledger | Redeem, rebate accrual and transfer | fulfilment, users |
| Payment providers (`payment/provider/`) | the provider's order and its refunds | create, query, cancel, refund | the payer, the provider |
| Idempotency keys (`service/idempotency.go`, `repository/idempotency_repo.go`) | one `idempotency_records` row per scope and key | Execute, the cleanup job | all write handlers |
| System operation lock (`service/system_operation_lock_service.go`) | one row of the same table | Acquire, renewLoop, Release | update, rollback and restart handlers |
| Leader locks (`service/leader_lock.go`) | a Redis key or an advisory lock | try, release | background jobs |
| Batch image jobs (`service/batch_image_*.go`, `repository/batch_image_repo.go`, `usage_billing_repo.go`) | job and item rows, one hold per job and the claims on it, the user's free and frozen balance | submit, cancel, process, index, settle, recover, delete outputs | users, workers, the recovery job, other jobs' holds |
| Batch image queue (`repository/batch_image_queue.go`, `service/batch_image_worker.go`) | Redis ready list, delayed and active sets, a lock and a once-only key per job | enqueue, reserve, heartbeat, ack, retry, move due jobs, recover stale ones | workers of all instances |
| Concurrency slots (`repository/concurrency_cache.go`, `live_call_lease_cache.go`) | a sorted set of slots per user and account, wait counters, live-call leases | acquire, wait, release, keep a lease alive, expire | all requests |
| Invalidation outbox of the API-key cache (`service/auth_cache_invalidation_outbox.go`, `api_key_auth_cache_impl.go`) | outbox rows, the shared Redis entry, a local entry per process | load, store, claim, two passes, publish | readers, key changes, dispatchers |
| Scheduler snapshot and outbox (`service/scheduler_snapshot_service.go`, `repository/scheduler_outbox_repo.go`, `scheduler_cache.go`) | outbox rows, watermark, per bucket: accounts, epoch, version, lock | append, poll, rebuild, retire and reopen, publish | account and group changes, requests |
| Usage billing and the billing cache (`service/gateway_usage_billing.go`, `billing_cache_service.go`, `repository/usage_billing_repo.go`) | the balance, one row per charged request, the cached balance, each process' queue of cache writes and circuit breaker, quotas | admit, charge, deduct from the cache, invalidate, flush | all requests, payments |
| Upstream OAuth tokens (`service/oauth_refresh_api.go`, `token_refresh_service.go`) | an account's credentials and status, the provider's valid refresh tokens, a lock in Redis | refresh, quarantine, reauthorize, edit | background services, requests, administrators |
| Refresh tokens of users (`service/auth_service.go`) | token families in Redis | rotate, revoke | users |
| Upstream connections | in-process pools, circuit breakers | get, put, trip | requests |
| Gateway and protocol translation | none to speak of | translate, stream | - |
| Upkeep jobs | files, old rows | back up, clean, update | schedulers |

Interactions: a webhook or a verify request calls fulfilment, which calls the
redeem service or the subscription service and then the rebate code; a refund
calls the balance repository and the provider; update and rollback handlers run
inside the idempotency coordinator *and* take the system operation lock, both of
which write `idempotency_records`. Submission of a batch image job freezes the
price in the user's balance and puts the job on the queue; a queue worker runs
the job's pipeline, and settlement captures or releases what was frozen. Changes
of keys, accounts and groups leave outbox rows in their own transaction, from
which jobs bring the Redis copies up to date. Components share rows and Redis
keys, not memory.

What is hard about it:

* **interleaving**: every operation reads, calls a remote service and then writes
  conditionally; the conditions are the only locks there are;
* **crashes and lost answers** between a committed statement and the next;
* **redelivery** of notifications, and refunds whose first answer was lost;
* **leases**: five minutes on an order's fulfilment (kept in `updated_at`),
  thirty seconds on the system lock, both measured by clocks read earlier; locks,
  slots and counters in Redis that expire whether or not their owner is done;
* **copies**: a cached key, a bucket of accounts is read and written by others
  between its loading from the database and its storing;
* **records that guide later steps**: audit rows and redeem codes say what has
  been done, and some of them can be written only once.

What makes each component correct: a purchase is delivered once, only if paid,
and in the end if paid (orders); no refund takes what is not there, gives back
what it did not take, or marks as refunded what the provider kept (refunds); an
operation with one key takes effect once in its retention (idempotency); an
operation has the system to itself while its lease lasts (lock); a job is
charged if it completes and its hold ends (batch images); no queued job is lost
(queue); never more slots than the limit, none lost for ever (concurrency); a
revoked key stops working everywhere (key cache); an outdated list of accounts
is not published for good (scheduler); a request is charged once (billing); a
token is rotated once (tokens). `PROJECT.json` lists the
hazards of the code at their lines, with the properties that cover them.

## 2. Modules

| module | models |
|---|---|
| `Faults` | the count of what goes wrong, which all of the following share |
| `PaymentPromise` | the abstract specification: what the service promises about an order |
| `PaymentOrder` | `payment_order.go`, `payment_order_lifecycle.go`, `payment_order_expiry_service.go`, `payment_fulfillment.go`, the answer to a notification (`payment_webhook_handler.go`, `payment_webhook_provider.go`), and `Redeem` as fulfilment calls it |
| `PaymentOrderInvariant` | the inductive invariant of `PaymentOrder` |
| `PaymentRefund` | `payment_refund.go`, with the two balance statements of `user_repo.go` |
| `IdempotencyRecords` | the statements of `idempotency_repo.go` on one row, the clock, and what every request that uses them keeps |
| `IdempotentRequest` | `IdempotencyCoordinator.Execute`, on top of `IdempotencyRecords` |
| `SystemOperationLock` | `system_operation_lock_service.go` and its use in `system_handler.go`, on top of `IdempotencyRecords` |
| `BalanceHold` | hold, capture and release of a price, as `usage_billing_repo.go` books them on the user's row |
| `BatchImage` | the life of a batch image job, `batch_image_public.go` to `batch_image_settlement.go` and the recovery, on top of `BalanceHold` |
| `BatchQueuePromise` | the abstract specification of the job queue |
| `BatchQueue` | `batch_image_queue.go` and `batch_image_worker.go` |
| `ConcurrencySlots` | slots, wait counters and live calls: the scripts of `concurrency_cache.go`, the service and the handlers' helper |
| `AuthCache` | both levels of the API-key cache and its invalidation outbox |
| `SchedulerSnapshot` | one bucket of the scheduler's snapshot, its outbox and its rebuilds |
| `OAuthRefresh` | who refreshes an upstream account's tokens: `oauth_refresh_api.go`, `token_refresh_service.go` and the administrator's paths |
| `UsageBilling` | admission by the cached balance, charging and the cache's upkeep: `billing_cache_service.go`, `gateway_usage_billing.go` |
| `MC<Module>` | small instances for TLC |
| `Gateway_proofs` | theorems about `ConcurrencySlots`, `SchedulerSnapshot` and `UsageBilling` |
| `Idempotency_proofs` | theorems about `IdempotentRequest` and `SystemOperationLock` |
| `<Module>_proofs` | theorems about one module: `AuthCache`, `BatchImage`, `BatchQueue`, `OAuthRefresh`, `PaymentOrder`, `PaymentRefund` |

In every module a *worker* (a client, reader or rebuilder) is a request handler
or job of any instance. It runs one operation; each database statement,
transaction, Redis script or provider call of it is one action, enabled by the
worker's `pc` (`task` or `step` in some modules). A worker that crashes forgets its
local variables; rows stay. `Fault` counts crashes, failing statements and lost
answers, at most `MaxFaults` of them.

Modules whose theorems stand in one module have no names in common but those of
`Faults` and `IdempotencyRecords`. Hence the specifications `LockSpec`,
`SnapshotSpec` and `BillingSpec`, and the like for their parts; all others are
called `Spec`.

**Slips.** A definition introduced as a *slip* is not part of the program and no
specification uses it. It is the definition next to it with a plausible mistake
(a dropped condition, a missing check). `PROJECT.json` pairs each property with
the slip that breaks it, which shows that the property depends on that code.

### PaymentOrder

| code | model |
|---|---|
| `payment_orders.status`, `paid_at`, `payment_trade_no`, `expires_at` | `status`, `paidAt`, `tradeNo`, `timedOut` |
| `updated_at`, refreshed by every UPDATE (ent's UpdateDefault) | `stale` (older than five minutes) and `fresh` (workers whose lease version still equals it) |
| the provider's order | `upstream`: open, closed, paid exactly, paid another amount |
| redeem code of the order; audit rows SUBSCRIPTION_ASSIGNED and AFFILIATE_REBATE_* | `code`, `assigned`, `claimed` |
| what users and inviters got | history variables `grants`, `rebates` |
| CreateOrder | `CheckLimits`, `InsertOrder`, `CreatePayment`, `RecordPayment`, `AbortOrder` |
| checkPaid, cancelCore | `QueryUpstream`, `VoidUpstream`, `PersistTradeNo`, `CloseOrder` |
| handleNotify, GetWebhookProviders | `Notify`, `Redeliver`, `Reply`, `Swallow`, `SwallowProviderError` |
| confirmPayment, toPaid, alreadyProcessed | `RejectAmount`, `ToPaid`, `AlreadyProcessed`, `SwallowReadError` |
| executeFulfillment, doBalance, doSub | `AcquireLease`, `ReloadLease`, `LookupCode`, `CreateCode`, `RedeemCode`, `AssignSubscription`, `DeliveryFails`, `ApplyRebate`, `MarkCompleted`, `MarkFailed` |

`acked` says that the provider got a success for its notification, `swallowed`
that the first such success stood for an error: the order's row could not be read, or the
provider that verifies the notification could not be looked up, which only the
handler of WeChat Pay (`Wxpay`) answers with a refusal.

Time is abstract: `RowAges` lets five minutes pass while nobody fulfils the
order, `WorkerStalls` lets them pass while somebody does, which is a fault.

### PaymentRefund

`balance` and `recharged` are columns of one user, `taken` is a history variable
(what the refunds of an order have taken from the balance, net), `gateway` the
provider's refunds of each order. A provider with `Idempotent` recognises a
repeated refund of the same order and amount (Stripe, Airwallex, WeChat Pay);
the other kind numbers every request anew and cannot be queried (Alipay,
EasyPay). `pendingLog`, `rollbackLog` and `successLog` are the audit rows that
later attempts decide from; the unique index on `(order_id, action)` lets only
the first of each exist.

### IdempotencyRecords, IdempotentRequest, SystemOperationLock

`rec` is the row, `clock` the time all instances share. A request reads the
clock once (`at`) and computes `locked_until` and `expires_at` from it, however
late its statement runs. `IdempotentRequest` has one action per repository call
of `Execute`; `window` remembers until when the last effect is to be remembered,
`effected` and `told` for which payloads the operation took effect and which
clients were told so, `overtaken` whether somebody reclaimed a record that was
no longer the one it had read. `SystemOperationLock` adds the renewal loop;
`overran` remembers whether an operation outlived the lease it got first.

Timing assumptions, stated in `InTime` and `LockInTime` and used by the proofs:
a request claims its record within the lease, and finishes within the retention,
it computed; a system operation gets its answer from `Acquire` within `MaxDelay`
and is over within `MaxRun` (15 minutes in the code; the lock's retention is an
hour by default); a due renewal is tried before time moves on. The renewal
interval is a third of the lease, but at least a second, so `Renewal < Lease`
asks for a lease of more than a second. A renewal statement still under way when
`Release` runs is not modelled.

### BalanceHold, BatchImage

| code | model |
|---|---|
| `users.balance`, `users.frozen_balance`, `usage_billing_dedup` | `balance`, `frozen`, `claims`; `moved` remembers which movements moved money |
| reserve, capture and release of a hold | `Reserve`, `Capture`, `Release`, each one transaction that claims its request id first |
| `batch_image_jobs.status`, `provider_job_name`, `user_deleted_at`, `retry_count`, `actual_cost` | `status`, `named`, `hidden`, `retry`, `cost` |
| Submit | `Create` to `EnqueueSubmitted`; its failure paths `FailSubmit`, `UndoHold`, `EnqueueUndo`, `SubmitAgain`, `AbortOrphan` |
| Cancel | `ReadToCancel`, `MarkCancelled`, `StopUpstream`, `ReleaseCancelled`, `WakeWorker`, `EnqueueCancelled` |
| recovery of stale submissions | `FailStale`, `ReleaseStale`, `EnqueueStale` |
| the pipeline of a worker | `ReadPipeline`, `ReadJob`, `AskProvider`, `Transition`, `IndexResults`, `ReleaseTerminal`, `Acknowledge` |
| settlement | `ReadSettling`, `CaptureHold`, `MarkSettled`, `NoteFailure`, `ReleaseExhausted`, `CheckEnded` |

Every step may fail before or after its effect. `dropped` marks a job whose hold
nobody is left to end; each place that sets it is one the code leaves open.
`BatchImage` uses the queue through one variable, `inflight`, and the fact that a
queued job stays until a worker acknowledges it; this is what `BatchQueue` shows.

### BatchQueuePromise, BatchQueue

`BatchQueuePromise` has four variables: which jobs are in the queue, who works on
what, who is late. `BatchQueue` has the Redis structures (`ready`, `delayed`,
`active`, `inflight`, `lock`), one action per script or MULTI block, and RunOnce
as the steps of a worker. It implements the promise with `queued <- inflight` and
`working` read off the workers' steps (`KeepsPromise`). There is no clock: what
may be due may become due at any moment. A worker that misses its heartbeats is
`late`, and from then on its lock may go to another.

### ConcurrencySlots

Two gates, the user's and the account's. `slots[gate]` and `leases` are the
sorted sets with the age of their members in ticks of Redis' clock, `waits` and
`waitAge` the counters with their time to live. A client runs through the
helper's steps: try, count, wait, uncount, run; a live call goes on with lease,
create, hand over and session. `open` bounds how many may wait uncounted: those
that began although counting failed, which the service allows, and those who are
left when the counter expires together with the waits of others.

### AuthCache

One key, whose states are numbered by its changes. `rows` are the outbox rows
with their stage and claim, `l2` the Redis entry, `l1` the entries per process
with their age. `Read` and `Store` are the two halves of loading a key: what was
read before a change can be stored after it. The worker's pass consists of claim,
deletion from Redis, publication and the update of the row, each of which can
fail. `DelayAssumption` says what the code relies on without a check: a record is
stored sooner after it was read than the safety delay lasts.

### SchedulerSnapshot

One bucket of one group. `events` are numbered when they are written and visible
when their transaction commits, so a later number may be seen first; `tx` are the
open transactions. A poll, a full rebuild and a request without a snapshot run
the same rebuild: lock, capture the epoch, load, allocate a number, activate.
`fresh` remembers which tasks loaded their accounts since the bucket was last
retired. Version numbers are kept only as far as they are compared: `numbered`
is the order of those not yet overtaken.

### OAuthRefresh

| code | model |
|---|---|
| `accounts.credentials`, `proxy_id`, `status`, `schedulable` | `cred` (numbered documents with their refresh token, and a revision `rev` that every change of another field or of the proxy raises), `status` |
| the provider's valid refresh tokens | `live`; `rotates` says whether a refresh replaces the token |
| `oauth:refresh_lock:<key>`, mutex of the process | `key`, `hold` |
| RefreshIfNeeded | `AcquireLocks`, `ReadAccount`, `CallProvider`, `Recover`, `SaveCredentials`, the release in `Release` |
| refreshWithRetry, persistRefreshErrorState | `Release` (try again or give up), `Block` |
| the administrator's refresh, authorization, edit | `Begin`, `AdminCall`, `AdminUpdate`, `AdminWrite`, `AdminClear` |

`platform` decides how results are written: only over a row whose credentials and
proxy are what the refresh read (Grok, Antigravity; `Unchanged` compares number
and revision), or over whatever is there. `hold` is `lapsed` when a lock
outlived its 60 seconds, `free` when Redis failed and the worker goes on without.
`lost` collects the events after which the account's refresh token is nobody's:
a crash or an error after the provider's answer, an unconditional write over a
row that had been given other tokens, a conditional one that missed because of
an edit although the row still depended on it (`DependsOn`), and withdrawal by the
provider. An edit stands for everything that writes credentials or proxy without
new tokens: the administrator's, and the backfill of an Antigravity project.

### UsageBilling

| code | model |
|---|---|
| `users.balance`, `usage_billing_dedup` | `balance`, `claims`; `charged` counts charges per request |
| `billing:balance:<user>` in Redis | `copy`; `excused` says that it may be too high, and why is in `ExhaustedIsRefused` |
| `cacheWriteChan` and its ten workers | `queue`, a bag per process, and `RunTask` |
| the circuit breaker | `breaker`; `due` is open with its timeout over |
| CheckBillingEligibility, GetUserBalance | `Arrive`, `Look`, `LoadBalance`, `StoreBalance`, `Judge`, `Unavailable`; who joins a load under way waits in `wait` |
| applyUsageBilling, retryUsageBilling, Apply | `Charge`, with `Take` as the transaction |
| syncBalanceCacheAfterDeduction, and the reload after a repeated attempt | `Sync`, `Resync` |
| payments, codes and corrections; refunds, holds and corrections | `Credit` and `Tell`; `Debit`, and `Tell` after a correction |

All requests are one user's and cost one unit. A refused request may come again.

## 3. What is checked

Twelve runs, all of which must find nothing. Every module
has its type invariant (`TypeOK`, `LockTypeOK`, `SnapshotTypeOK`,
`BillingTypeOK`); the runs spend their time on other properties, since the type
invariant is proved for all modules but two (section 4) and was checked once for
those on the same instances. So were the inductive invariants of section 4,
before they were proved.

| run | instance | shows |
|---|---|---|
| `order_paths` | 1 order, a recharge by another provider than WeChat Pay or a subscription by WeChat Pay, 2 workers, 2 faults | `DeliveredAtMostOnce`, `CompletedIsDelivered`, `DeliveredOnlyIfPaid`, `LeaseIsCurrent`, `PaidStaysPaid`, `KeepsPromise` (refinement), `PaidIsDelivered` (liveness) |
| `refund_faults` | 1 order of 2 units, 2 workers, 3 refunds, 1 fault, 1 unit spent meanwhile | `NeverGivesBackMore`, `RefundedIsPaidBack` |
| `refund_requests` | 2 orders, 2 workers, 3 refunds, provider that cannot be queried | `RestingOrderKeepsBalance`, `NeverTakesTwice`, `RefundedIsFinal`, `RefundingEnds` (liveness) |
| `lock_long` | 2 workers, 2 operation ids, lease 6, renewal 2, operations up to 9, retention 10, time 14, 1 fault | `ExclusiveWithinLease`, `CreatorKeepsLock` |
| `idem_key` | 2 requests at a time, 2 payloads, lease 2, back-off 1, retention 4, time 8, 2 faults | `OneExecution`, `SuccessIsReal`, `OncePerRetention` |
| `batch_hold` | 1 job, 1 worker, hold 2 of a balance of 3, 2 units frozen for other jobs, 4 retries, 3 faults | `ChargedIfCompleted`, `MoneyAddsUp`, `FinishedStaysFinished`, `HoldEnds` (liveness) |
| `batch_queue` | 2 jobs, 2 workers, 3 faults | `NothingLost`, `KeepsPromise` (refinement), `QueuedIsProcessed` (liveness) |
| `slots_gates` | 2 requests and a live call, limits 2 and 1, queue of 1, slots and leases of 2 ticks, 1 fault | `WithinLimit`, `WaitersCounted`, `QueueReopens` (liveness) |
| `auth_passes` | 2 processes with a reader each, a key that is deleted, 2 faults | `SharedIsCurrent`, `LocalCatchesUp`, `ChangeReachesAll` (liveness) |
| `scheduler_late` | 1 poller, 1 full rebuild, 1 request, 2 changes, 1 fault | `PublishedIsFresh`, `Heals` (liveness) |
| `oauth_locks` | 2 processes, a background worker in each and a request in one, every kind of platform, 1 administrator's action, 1 fault | `OneRefreshAtATime`, `TokenKept`, `JustQuarantine`, `DueIsRenewed` (liveness) |
| `billing_copy` | 2 requests in 1 process, a balance of 3 with a reserve of 2, 1 payment, 1 refund, hold or correction, queue of 2, breaker of 2 failures and 1 trial, 3 faults | `ChargedOnce`, `ExhaustedIsRefused`, `SolventIsServed` (liveness) |

Why the bounds are enough to be interesting:

* Orders of one user interact only through the two limits, which no property is
  about; one order with two workers already has a webhook racing an expiry, a
  lease theft, a stale lease version. Two faults allow a crash after delivery
  *and* a stall. `MaxOrders` lets TLC choose one of the two orders, so that one
  run covers both ways of delivery. One is at a provider whose failed
  lookup is acknowledged, the other at WeChat Pay (`Wxpay`); a crash and a
  swallowed error, or a crash and an expired lease, fit into the two faults.
* A refund of one of two units is partial; three attempts allow pending,
  retried, queried and refused refunds in sequence. `MaxSpend` lets the balance
  fall below a plan made earlier.
* The lock's operation can be longer than its lease (9 > 6) and longer than two
  renewals, and time suffices for two operations and an expired row;
  `idem_key` spans two retention periods, so that a record expires, is
  reclaimed and expires again, or is deleted by the cleanup job.
* A batch image job interacts with the user's other jobs only through the two
  balances; `Others` stands for them, and a release of money that is not the
  job's own shows in `MoneyAddsUp`. Three faults let the capture's answer be lost
  and two more attempts fail. `LocksExpire` is FALSE: see the observations about
  late workers in section 5.
* Two jobs and two workers let a late worker act on the lock or the entry of its
  successor while another job waits. Three faults make a worker late, let its
  successor die and lose an answer.
* At the gates the user's limit lets both requests in and the account's only
  one; a third client waits or is turned away; slots are short enough to expire
  in the middle of a live call's change-over. The counter lasts as long as the
  longest wait, two ticks, as in production: a newcomer can join between the first
  and the last tick of another's wait, and leave after the counter has expired.
* The safety delay is longer than a load, the local time to live shorter than
  both, so readers can straddle either pass; two faults let a worker die and its
  successor's call fail.
* Two changes are what is needed for events that commit out of order, or for a
  group that is switched off and on again.
* Two requests share one load of the balance and leave a store and two deductions
  to workers who may run them in any order; since tasks of one process are
  unordered, those of a second process add nothing to that. The reserve makes a
  balance "used up" that is still positive; three faults open the breaker and
  fail its trial, or lose an answer and a deletion and kill the process.
* One document that ages suffices for `oauth_locks`: an edit can bring it back
  after it was replaced, and it is then due again.
* `MaxTime`, `MaxRefunds`, `MaxSpend`, `MaxChanges`, `MaxAges`, `MaxRequests`,
  `MaxEdits`, `MaxCredits`, `MaxDebits`, `MaxOrders` and `MaxFaults` only end the
  exploration. Instances stop there, and a settled order or job has nothing left
  to do: therefore deadlock is not checked.
* Symmetry is used only where no liveness property is checked.

**Fairness.** In all modules a started operation goes on unless its process dies
(`WF` on its steps: goroutines are scheduled and calls have time-outs). Beyond
that:

* `PaymentOrder!FairSpec`: time passes for a row nobody works on (`WF` of
  `RowAges`), and a provider repeats a notification it got no success for (`SF`
  of `Redeliver`: all supported providers retry, and a worker is free now and
  then). `PaidIsDelivered` is conditional on the last: once a notification has
  been acknowledged because of an error nothing in the code looks for an
  undelivered order (`swallowed`).
* `BatchImage`: workers and the recovery keep looking, since both are loops, and
  the provider ends every job in some way.
* `BatchQueue`: the mover and the recovery of stale jobs are loops, locks expire.
* `ConcurrencySlots`: Redis' clock goes on (`SF` of `Tick`). Nothing is assumed
  of how long a request takes: `QueueReopens` depends on expiry alone.
* `AuthCache`: time passes and workers keep claiming. Nothing makes readers come
  back: `ChangeReachesAll` depends on expiry and the second pass.
* `SchedulerSnapshot`: transactions end, the tickers of poll and full rebuild
  run, Redis keys expire. No request is assumed to come.
* `OAuthRefresh`: the background service goes through its candidates again and
  again, and an abandoned lock expires. No request or administrator is assumed.
* `UsageBilling`: the cache's workers run their tasks, a cached balance reaches
  its five minutes, a breaker its timeout, and the goroutine that reports a
  payment runs. A deduction renews the five minutes (`Expire` has no clock), but
  a user who is refused causes no more of them. Clients need not come back.

**Properties that hold only conditionally** say so in their comments.
`RestingOrderKeepsBalance`, `RefundedIsFinal`, `NeverTakesTwice` and
`RefundingEnds` are checked without faults, because with a crash or a failed
rollback the code really leaves an order REFUNDING, or its balance deducted.
`OncePerRetention` excludes effects after an overtaken record, `HoldEnds` the
dropped holds, `TokenKept` the lost tokens, `PaidIsDelivered` the swallowed
notifications; section 5 says what happens then.

## 4. What is proved

The theorems state every safety invariant and every action property of the
runs, and both refinements, for every value of the constants that satisfies the
named assumptions of the modules (non-empty sets, natural numbers, names that
differ, `Lease <= Retention`, `Renewal < Lease`, `MaxRun < Retention`, and
`LoadTime < SafetyDelay` for the key cache), with any number of workers and
faults. No theorem depends on fairness. Some have a hypothesis of their own,
which is a condition on the constants that some configurations meet and others do
not; without it the property does not hold of the code:

| hypothesis | theorems | says |
|---|---|---|
| `RenewalsFit` | `CreatorKeeps` | the lease outlasts as many failing renewals as there are faults |
| `CounterLastsAWait` | `WaitersAreCounted` | a wait counter lasts at least as long as the longest wait. `repository/wire.go:17` sets it to the longest wait for an account; the wait for a user is 30 seconds (`handler/gateway_helper.go:95`), so only a configuration with both account waits below that fails it |
| `Quiet` | `QuietInvariance`, `TakesOnce`, `RestingKeepsBalance`, `FinalStays` | no faults, and a provider that cannot be queried |
| `Steady` | `HoldInvariance`, `ChargedOnCompletion`, `AccountAddsUp` | a job's lock outlives its holder, and faults are fewer than a settlement's attempts |

*PaymentOrder.* `Invariance` proves `OrderInv` inductive; `TypeCorrect`,
`AtMostOnce`, `CompletedDelivered`, `OnlyIfPaid`, `LeaseCurrent`, `PaidStays` and
`Refinement` (of `PaymentPromise`) follow from it. The parts of `OrderInv`:

* `GoodsInv`: the history counters equal the records the code checks before it
  delivers. "At most once" alone is not inductive: it needs that a used code
  means one delivery.
* `PaidInv`: which statuses go with `paid_at`, and that paid means the provider
  has the exact amount. Needed because FAILED is shared by failed creations and
  failed deliveries.
* `CreateInv`: until CreateOrder has answered nobody can pay. This is what makes
  its unconditional `SetStatus(FAILED)` harmless.
* `WorkerInv`: what a worker has established by the step it is at, since it acts
  on conditions read earlier.
* `LeaseIsCurrent`: lease versions belong to workers inside a fulfilment.

*PaymentRefund.* With any faults, `MoneyInvariance` proves `MoneyInv`, and
`TypeCorrect`, `GivesBack` and `PaidBack` follow. `TakenInv` says that what all
workers together hold of an order, and may still give back, has been taken from
it: the property alone does not exclude that two of them return the same unit.
`PaidInv` says that a worker about to call an order refunded has seen the provider
return the money, under the number of its own request; `AmountInv` that no refund
is of nothing. Under `Quiet`, `QuietInvariance` proves `QuietInv`: without crashes
and finalizations the status REFUNDING is a lock on the order (`LockInv`), so what
an order has cost is what the holder of the lock has taken, or nothing, or was
paid back (`ShareInv`); `TakesOnce`, `RestingKeepsBalance` and `FinalStays`
follow. Section 5 tells what becomes of an order when something fails halfway, and
what a finalization overwrites: that is why these three need `Quiet`.

*BatchImage.* `TypeCorrect` and `StaysFinished` hold whatever fails and whichever
locks expire. Under `Steady`, `HoldInvariance` proves `HoldInv`;
`ChargedOnCompletion` and `AccountAddsUp` follow. `SoleInv` says that a job has
one worker, `ClaimInv` that the claimed request ids tell which money moved,
`StageInv` that a job keeps its hold until it ends, `ChargeInv` that a charged job
is settling or settled, and that each failed attempt of a settlement cost a
fault, so that the last one, after which the hold is released, is not reached.
`WorkInv` carries this over to the step a worker is at. `MoneyAddsUp` needs all of
it, because one release of what was captured takes another job's money. What
happens without `Steady` is the subject of two observations in section 5.

*ConcurrencySlots.* `SlotsInvariance` proves `SlotsInv`; `TypeCorrect`,
`LimitIsKept` and, under `CounterLastsAWait`, `WaitersAreCounted` follow. The
limit is not inductive: the property counts clients at certain steps, a script
the members of a set. `ShareInv` counts in between, the clients that have a valid
slot or lease, in one set, so that a live call, which has both for a moment, is
counted once; `SwiftInv` says that a live call asks for its lease while its slots
are new, so that they do not end under it. `CountInv`, for the counters, splits
those who wait into the counted, for each of whom the counter has been kept alive
since it joined, and the others, at most `open` many. Who belongs to which
changes, since whoever leaves takes a count along; hence the existential
quantifier. When the counter expires, each of the counted has waited as long as
it has lasted, so with `CounterLastsAWait` their time is over: `Uncounted` excuses
just these.

*SystemOperationLock.* `LockInvariance` proves `LockInv`, `LockTypeCorrect` the
types, `Exclusion` the property. `HolderInv` says that a holder's row is there,
with its id, processing, and with lease and retention not before the holder's
first lease ends; `LockLocalInv` that readings of the clock are past and that,
while nothing has overrun, they are within the first lease. So another worker's
insert or reclaim finds its condition false.

`CreatorKeeps` proves `CreatorKeepsLock` under `RenewalsFit`: a renewal that fails
is tried again one interval later, so the lease has to outlast as many intervals
as renewals can fail, plus the time `Acquire` takes. In the code the interval is
a third of the lease, which leaves room for one failing renewal; the run has just
that. `CreatorInv` states the bargain: the lease stored in the row is short of
that of the last tick by at most one interval per fault so far, hence never over
while the creator runs. `DueInv` bounds the readings of the clock this rests on.

*IdempotentRequest.* `Invariance` proves `RequestInv`; `ExecutesAlone`, `Success`
and `NotRepeated` follow. `OwnerInv` keeps the row of an executing request
processing and unexpired, and bounds the clock readings of requests that are
about to reclaim: that they read the clock before the owner's lease ends is why
a stale reading does no harm. `WindowInv` says that a protected effect's record
is processing or succeeded and nobody is on the way to repeat it; `EffectInv`
ties success records to effects. `NotRepeated` is conditional on `~overtaken`,
and section 5 describes what an overtaken record can lead to.

*BatchQueue.* `Invariance` proves `QueueInv`; `TypeCorrect`, `NoJobLost` and
`Refinement` (of `BatchQueuePromise`) follow. That nothing is lost is nearly
inductive on its own; that the promise is kept is not, because the promise is
about workers and the scripts see only lists and the lock. `PlaceInv` and
`ReservedInv` say that a job is in one place, and with one busy worker, until it
has strayed (a worker was late on it, or its once-only key ran out after a week);
`LockInv` that a punctual worker has its job's lock from the time it got it, so
that the promise's rule, nobody starts on a job another one works on unless that
one is late, maps to the token in the lock; `WorkerInv` ties being late to having
strayed.

*OAuthRefresh.* `Invariance` proves `RefreshInv`; `TypeCorrect`, `OneRefresh`,
`TokenIsKept` and `Quarantine` follow. `HoldInv` is the mutual exclusion of the
two locks. `DocInv` says that the number of a document tells its token, and, where
tokens rotate, the token its number: whether the row still depends on what a
worker began with can then be told from the number, while the conditional updates
compare more than that. `CarrierInv` says that a successor that is
about to be stored works unless something is lost, is nobody else's, and is the
successor of what its worker read: the update that finds this in the row
therefore restores `TokenKept`; one that finds another document and is applied, or
finds it and is not applied because its revision has changed, is one of the
losses. `RefusedInv` keeps a refusal true from the provider's answer to the moment
it is recorded.

*AuthCache.* `Invariance` proves `CacheInv`; `TypeCorrect`, `Shared` and `Local`
follow. The argument is the one the second pass was designed for. While a row
waits for its second pass, any reader that will store an older state has been
at it for at least the time the row has waited (`DelayInv`); it takes at most
`LoadTime`, less than the safety delay, so there is none left when the row is
due (`SecondPassInv`), and what the second pass deletes from Redis stays deleted.
From then on an older state only ages (`QuietInv`), and after a reader's time and
the lifetime of a local entry it is gone. It matters that a row that was claimed
and failed waits again at its stage, and that a crashed worker's claim leaves
stage and time alone.

*UsageBilling.* `ChargeInvariance` proves `ChargeInv`; `IsChargedOnce` and
`IsRefused` follow.
`ClaimInv` says that the claims are the charges: it needs the claim and the price
in one transaction, and that the reload after a repeated attempt is reached only
by requests whose id is claimed. `ExhaustedIsRefused` is inductive with it: each
step that makes the copy too high, or the balance too low, leaves an unbilled
charge that saw the balance used up, or an excuse. The attempt found an ambiguity
in the model: two steps chose by a CASE whose guards overlapped, which means
either branch to a prover and the first to TLC. The guards are disjoint now.

*SchedulerSnapshot.* `SnapshotInvariance` proves `SnapshotInv`, `Published` the property.
`FenceInv` says that whoever has the present epoch, and has loaded accounts, has
loaded them since the bucket was last retired. It is inductive because retiring a
bucket in use raises the epoch: every token issued before is behind it
(`TokenInv`), and reopening does not turn it back.

Only model-checked:

* liveness, which is out of the provers' reach;
* the type invariants of `UsageBilling` and `SchedulerSnapshot`. In the former it
  bounds the balance by the number of requests, charges and corrections, which
  takes an argument by counting; in the latter it says that snapshot numbers are
  distinct, and the library's `Remove` and `Min`, which it takes them from, are
  beyond the provers. `ShapeInv` and `TokenInv` prove as much of the types as the
  theorems need.

## 5. What was seen while modelling

None of the runs contradicts the code's comments or tests. The following are
consequences of the code that a reader should know of; each bounds some property
above, or is the reason for a condition in one.

Orders and refunds:

* The fulfilment lease's version is read back by a second SELECT. A worker that
  stalls in between picks up its successor's version and can end its lease
  (`payment_fulfillment.go:296`). Deliveries stay single (proved).
* A notification is acknowledged when the order row cannot be read
  (`payment_fulfillment.go:79`), and, by the handlers of all providers but WeChat
  Pay, when the provider that verifies it cannot be looked up, be it for a failing
  database (`handler/payment_webhook_handler.go:90-98`,
  `payment_webhook_provider.go:32-112`). If that was the redelivery after a crash,
  nobody delivers the order until an administrator retries it, since the queries
  of the expiry job and of clients are about PENDING and EXPIRED ones; docs/PAYMENT.md:209 promises delivery without manual
  intervention. `SwallowReadError` and `SwallowProviderError` model it.
* CreateOrder's unconditional FAILED meets orders that were closed meanwhile, but
  no paid ones: nobody has the means to pay before the answer. That the model
  cannot pay earlier rests on the providers handing out their links in it.
* The limits on pending orders and on the day's payments are counted without a
  lock (`payment_order.go:244`, `:327`): simultaneous requests may exceed them.
* A payment confirmed after expiry and grace is acknowledged and left to an
  administrator; saving the trade number refreshes `updated_at` and restarts the
  grace (`payment_order_lifecycle.go:185`).
* `finalizeRefundFailed` writes REFUND_FAILED over whatever the row has become,
  REFUNDED included (`payment_refund.go:559`). `RefundedIsFinal` is checked where
  no finalization races a request, and does not speak of it.
* A refund whose answer is lost counts as refused: the balance is given back and
  the order is COMPLETED again while the provider has paid
  (`payment_refund.go:376`). No property excludes that the user then has both.
* The audit row of a second pending refund is rejected by the unique index
  (`backend/migrations/131_affiliate_rebate_hardening.sql:40`), so that the query asks
  the provider for the first one (`payment_refund.go:569`).
* A refund without deduction that was pending is finalized with deduction
  (`payment_refund.go:524`; the dialog says otherwise,
  frontend/src/i18n/locales/en/misc.ts:544).
* After a failed rollback an order can be deducted from twice in the end
  (`payment_refund.go:307`), or, since the note of the failure stays for ever, not
  be deducted from when it should; `NeverGivesBackMore` is about what is given
  back, not about these; `restoreStatus` may write COMPLETED over an order
  whose earlier refund is still pending (`:715`); after a crash an order stays
  REFUNDING.
* A rollback counts as a recharge in `total_recharged` (`user_repo.go`,
  UpdateBalance).
* `ExtendSubscription` reads a subscription and writes an absolute expiry without
  a lock (`subscription_service.go:654`; refunds use it, `payment_refund.go:323`),
  while renewals lock the row: days bought in between are lost. A deduction that
  would end the subscription deletes it, and giving the days back then fails.

Idempotency and the system lock:

* Two requests that read the same expired record may both execute: the second
  UPDATE of `TryReclaim` compares status and lease, but not the expiry that was
  the reason to reclaim (`idempotency_repo.go:118`). A test asks for one
  side effect per key (`idempotency_test.go:394`), though not for a key that was
  used long ago. `overtaken` marks these cases.
* A system operation that reclaimed the lock's row cannot renew it, because
  `TryReclaim` leaves the old fingerprint (`idempotency_repo.go:112`, `:154`).
  Since the row stays after every release this is the normal case, and a second
  operation can start when the first one's lease of 30 seconds is over.
* A server that stops while it executes leaves its key in conflict until the
  record expires, although the lease is called the processing lock's timeout
  (`config/config.go:175`).
* A stored response that was truncated cannot be replayed (`idempotency.go:457`).

Batch images:

* A cancellation or the recovery that comes between the creation of a job and its
  reservation claims the release while nothing is held; the hold that follows is
  then never released.
* Crashes after `FailStale` and before the release, a job that could not be
  queued after its submission was recorded, and a lost answer to the reservation
  leave a hold behind, too. These are the places that set `dropped`.
* With `LocksExpire` a late worker can acknowledge a settling job, or fail it
  after its capture by a parse error of its own; the release that follows then
  takes money another job has frozen. A comment guards the items of a settled
  job against such workers (`batch_image_repo.go:456`), nothing guards its hold.
  The run has `LocksExpire` FALSE.
* If the answer to a committed capture is lost and as many further attempts fail
  as settlement allows, a release follows the capture.
* A cancellation that read the row before the job was submitted refunds the job
  while it goes on at the provider; `RecordBatchImageJobSubmitFailure` writes
  failed over cancelled.
* docs/BATCH_IMAGE_MVP.md:168 calls the capture's request id
  `batch_image_settlement`; the code says `batch_image_capture`.

Slots, caches, scheduler:

* In production the counter of a queue lasts exactly as long as the longest wait
  (`repository/wire.go:17`). It can expire at the tick in which a waiter gives up;
  whoever joins before that waiter leaves is counted from one again, and the one
  who leaves takes this count along. The queue then holds more than its limit by
  as many as overstayed. When counting fails the request waits uncounted
  (`concurrency_service.go:772`), and its decrement later counts for another.
  `open` allows for both.
* A request that outlives its slot lets one more in.
* The key cache may serve a revoked key longer than the 35 seconds
  `HealthySLA` names (`auth_cache_invalidation_outbox.go:54`): the second pass
  comes 30 seconds after the first, a claim lasts 30 seconds, and entries of a
  process live for 15. Differences between clocks are not modelled.
* The poll of the scheduler's outbox lists only ids above the watermark, so an
  event that commits below it is never read, although a comment expects slow
  transactions to be read within ten seconds (`scheduler_outbox_repo.go:126`);
  its key also absorbs later events of the same kind until the row is deleted.
  `Heals` relies on the full rebuild.

Upstream tokens:

* The lock is deleted by whoever releases, also after it expired and was taken
  by another; an account may then be refreshed by two instances.
* Every edit of an account writes back the credentials it read
  (`admin_account.go:1004`): overlapping a refresh it restores a refresh token
  that is spent. The administrator's refresh takes no lock.
* The conditional update of Grok and Antigravity compares all credentials and the
  proxy (`account_repo.go:1923-1938`; for Antigravity also the proxy's own
  `updated_at`). If an administrator changes another field or the proxy, or a
  request stores the project of an Antigravity account
  (`antigravity_token_provider.go:204`), between a worker's call and its update,
  the update misses, and the worker takes that for another's success
  (`oauth_refresh_api.go:388-402`): the refresh token it was given is dropped, the
  one in the row is spent. `TokenKept` names these cases.
* A worker that was refused puts the account out of service on the credentials
  stored at that moment; if another worker holds their successor and stores it
  afterwards, the account has good credentials and stays in error.
* `ClearError` does not undo `schedulable = FALSE`, which `SetError` sets: after a
  new authorization the background service leaves the account alone until it is
  switched on by hand.

Usage billing:

* A task that stores a balance read before it was used up may run after the charge
  that used it up deleted the copy. The user is then admitted until the next
  charge, which deletes it again, or for five minutes.
* Refunds and the holds of batch images lower the balance and leave the cached
  copy alone; so does a process that dies after a charge. An administrator's
  correction deletes it in a goroutine of its own (`admin_user.go:737`), which may
  come late or fail.
* A charge whose commit succeeded while its answer was lost, and that is given up,
  is logged with a cost of 0 although it was taken
  (`gateway_usage_billing.go:862`).
* `ExhaustedIsRefused` names these cases with `excused`. Requests admitted before
  the balance was used up still run and overdraw it; `deductUsageBillingBalance`
  allows that on purpose.

## 6. What is not modelled

Within the modelled parts: amounts and currencies beyond "exact or not", the
choice of a provider instance, signatures, mail, the WeChat OAuth detour, the
cancel rate limit, listings, refunds of subscription orders (days taken back),
the wording of stored responses, requests without an idempotency key, and the
fail-open variant of the admin helper, which no handler uses
(`handler/admin/idempotency_helper.go:70`); downloads, pricing and the deletion
of inputs of batch images; slots kept for display and those of WebSocket
ingress; the scheduler's cache of single accounts; the cache of access tokens,
cooldowns and the circuit breaker of the refresh service, and what the gateway
does when a request finds its token refused.

Of usage billing: subscription usage, the quotas and rate limits of keys,
accounts and platforms with their flusher, requests per minute, what the pool of
usage records drops when it is full, and request ids used by another payload.

Components left out: users' refresh tokens, connection pools, leader locks (the
models do not rely on them), protocol translation, backups and cleanup jobs.
`PROJECT.json` gives the reason for each.
Most of the repository's lines are generated database code, configuration,
protocol translation and administration pages, which keep no state of the kind
modelled here.

## 7. Plan

Done: orders with their promise and proofs; refunds of balance orders; the
idempotency table with its two users and proofs; batch image jobs, their money
and their queue; concurrency slots; both outboxes with the caches behind them;
the refresh of upstream tokens; charging of requests and the cached balance.
All safety properties of these are proved, some under the conditions section 4
names.

Left, in this order:

1. Proofs: the two type invariants that are only model-checked; of
   `PaymentRefund`, what holds of a provider that can be queried, or after a
   crash, in place of the properties that need `Quiet`.
2. `RefreshTokens`: rotation, reuse, the two stores.
3. The quotas of platforms in Redis and their flusher.
4. Subscription refunds in `PaymentRefund`, and a module that composes orders and
   refunds on one row.
