# TLA+ models of sub2api's stateful core

sub2api is a gateway that sells access to AI accounts: users pay (balance or
subscription), send requests with API keys, and are billed by usage; the
gateway schedules the requests over upstream accounts, refreshes their OAuth
tokens and limits concurrency. The backend is Go (`src/backend`), with
PostgreSQL through ent, and Redis. Several instances may run at once, so every
correctness argument is about interleaved SQL statements, Redis scripts and
calls to external services.

The directory holds TLA+ modules for the parts where money changes hands
(payments, refunds, batch image jobs), for the records that keep retries and
system operations apart, and for the credentials of upstream accounts; TLC
configurations that check them on small instances; and TLAPS proofs for every
number of concurrent calls. `PROJECT.json` maps each definition to its lines.

    tlc -workers 2 -config PaymentOrder_safety.cfg MCPaymentOrder
    tlapm PaymentOrderProofs.tla

## 1. Inventory

| Component | State | Operations | Interacts with | Hard behaviour | What makes it correct |
|---|---|---|---|---|---|
| Payment fulfilment (`service/payment_fulfillment.go`) | `payment_orders.status`, `paid_at`, `updated_at` as lease version, audit rows | notification, confirm, toPaid, lease, balance or subscription fulfilment, rebate, complete, fail, retry | webhook handler, redeem codes, subscriptions, affiliate, provider | two fulfilments of one order after a stale lease, crash between any two statements, repeated webhooks, swallowed read errors | goods granted once, only after payment; COMPLETED is final and means granted; a paid order ends COMPLETED |
| Order lifecycle (`service/payment_order_lifecycle.go`) | `status`, `expires_at`, `payment_trade_no` | cancel, admin cancel, expiry sweep, verify, reconcile | provider queries, fulfilment | cancellation or expiry racing a payment, unconditional trade-number update | a recorded payment is never cancelled |
| Order creation (`service/payment_order.go`) | the row, limits | create in a transaction, call the provider, fail | provider, limits | the row is visible while the provider is being called; count-then-insert limits | creation failure never undoes a payment |
| Webhook (`handler/payment_webhook_handler.go`) | none | look the provider up, verify, handle, acknowledge | provider, fulfilment | what is acknowledged is never sent again, also when the lookup failed | acknowledged means settled, where a call got to the order |
| Refund (`service/payment_refund.go`) | `status`, `refund_amount`, balance, audit rows as memory | request, prepare, execute, roll back, query and finalise | gateway, users' balance, subscriptions | stale plans, failing rollbacks, ambiguous gateway errors, asynchronous refunds, orders of older versions | deduct once, return what failed, refund once, converge by the gateway's outcome |
| Redeem codes (`service/redeem_service.go`) | `redeem_codes.status` | create, redeem, batch update | balance, subscriptions | concurrent redemption | one use |
| Affiliate (`repository/affiliate_repo.go`) | quota, ledger | accrue, thaw, transfer | fulfilment, redeem | concurrent claims, freeze periods | one rebate per order, quota equals ledger |
| Idempotency (`service/idempotency.go`) | `idempotency_records` | claim, reclaim, extend, succeed, fail, clean up | all write handlers | expiry while the owner runs, reclaim of what was read before, completion by id alone | one execution per key, replays see its result |
| System operation lock (`service/system_operation_lock_service.go`) | one idempotency record | acquire, renew, release | update, rollback, restart handlers; cleanup | failing renewals, death without release, an expiry under a running update | one system operation at a time |
| Token refresh (`service/oauth_refresh_api.go`, `token_refresh_service.go`) | credentials and status of the account, Redis lock, local locks, Redis cache | refresh under both locks, recover from a race, persist, disable, cool down; administrator's login, manual refresh, edit | upstream token endpoint, scheduler | a lock that lapses or is deleted by another holder, rotating refresh tokens, edits that read and write in two steps | a rotated token is never lost and never sent twice, an account is not disabled by a lost race |
| Concurrency slots (`repository/concurrency_cache.go`) | sorted sets, counters | acquire, release, wait, clean up | gateway handlers | expiry against slow requests, crash of an instance, late decrements | never over the limit, no slot lost for ever |
| Scheduler snapshot and outbox (`service/scheduler_snapshot_service.go`) | outbox table, watermark, snapshot in Redis | write, poll, rebuild, clean up | account changes, scheduler | transactions that commit out of id order, crash between handling and watermark | every change reaches the snapshot |
| Usage billing (`repository/usage_billing_repo.go`) | dedup rows, balance, holds | apply, reserve, capture, release | gateway, batch images | repeated requests, crash between reserve and capture | charged once, holds end captured or released |
| Balance cache (`service/billing_cache_service.go`) | Redis balance, queue, circuit breaker | read through, deduct, reserve | usage billing | a stale value cached after a deduction | the cache converges to the database |
| Batch images (`service/batch_image_*.go`) | job row, Redis queue (ready, active, delayed) and job lock, hold | submit, cancel, process, index, settle, recover, delete | usage billing, upstream | worker crash, lost replies and heartbeats, cancellation racing the submission, exhausted retries | a hold captured or released within what is frozen, a completed job was charged, a queued job is settled unless its results stay out of reach |
| Subscriptions (`service/subscription_service.go`) | expiry, usage windows | assign, extend, revoke | fulfilment, billing | concurrent extension | every payment extends once |
| Leader locks, jobs (`repository/leader_lock_cache.go`) | Redis keys | acquire, release by owner | expiry, cleanup, refresh jobs | a leader that outlives its lock | jobs tolerate two leaders |
| OpenAI WebSocket pool (`service/openai_ws_pool.go`) | connections in one process | acquire, release, evict | gateway | goroutines, limits | a connection serves one request |
| Gateway, conversions, administration, monitoring, backup, MCP, frontend | mostly stateless, or single rows | | | | not modelled: I/O, data conversion, CRUD |

The hazards of the modelled parts, each at its line and with the properties that
cover it, are in `PROJECT.json`. Those of the parts not modelled yet are the
"hard behaviour" of the table; the ones that a module should start from are:
wait counters and slots that expired and are decremented or taken again
(`repository/concurrency_cache.go:902`); outbox events whose transaction commits
after a later id was consumed (`repository/scheduler_outbox_repo.go:122`); access
tokens that `CheckTokenVersion` compares and `SetAccessToken` caches in two steps
(`service/token_cache_invalidator.go:82`), while a manual refresh keeps the old
version number.

## 2. Modules

| Module | Content |
|---|---|
| `PaymentPromise` | the abstract promise: pay, deliver once, complete |
| `PaymentOrder` | one order with concurrent calls, the provider, time; refines `PaymentPromise` |
| `PaymentOrderProofs` | its theorems |
| `RefundPromise` | the abstract refund: take, return or mark; pend, and end as the gateway decides; a refund the gateway left open unheard |
| `PaymentRefund` | the refund of one balance order with concurrent calls, gateway, spending; refines `RefundPromise` |
| `PaymentRefundProofs` | its theorems |
| `IdempotencyRecord` | one row of `idempotency_records`, a clock, and the repository's statements |
| `IdempotencyRecordProofs` | lemmas about those statements, for the two proof modules below |
| `IdempotentExecute` | concurrent calls of `Execute` with one key; extends the record |
| `IdempotentExecuteProofs` | its theorems |
| `SystemOperationLock` | the global lock of system operations; extends the record |
| `SystemOperationLockProofs` | its theorems |
| `BatchImageHold` | the money of batch jobs: balance, frozen pool, and the reserve, capture and release statements with their deduplication |
| `BatchImageQueue` | the Redis queue and the job lock, one operator per script |
| `BatchImage` | jobs through submission, cancellation, workers, settlement, recovery, deletion; extends the hold, has an `INSTANCE` of the queue, refines `BatchImagePromise` |
| `BatchImagePromise` | the abstract promise: freeze, then charge or refund, each once and within what is frozen; deliver what was charged |
| `BatchImageProofs` | theorems of the hold, the worker lock, the queue and the life of a job; that the model implements `BatchImagePromise` |
| `TokenRefresh` | the credentials of one account and everybody who replaces them |
| `TokenRefreshProofs` | its types, exclusion, and that tokens are kept and sent once |
| `TokenDisabledProofs` | that only dead accounts are disabled |
| `MCPaymentOrder`, `MCPaymentRefund`, `MCSystemOperationLock`, `MCBatchImage`, `MCTokenRefresh` | symmetry sets and constants for TLC |
| `MCIdempotentExecute` | the calls and their requests for TLC |

### PaymentOrder and the code

A *worker* is one running call. `pc[w]` is the statement it executes next; a
step is one SQL statement or transaction, or one provider call, because
PostgreSQL runs them under read committed and anything can happen in between.
`snap` is the part of the order object that a call keeps and uses later.

| Code | Actions |
|---|---|
| `CreateOrder` after its transaction | `Init`, `InvokeProviderOk`, `InvokeProviderFail` |
| `handleNotify` of the webhook without a provider, `HandlePaymentNotification`, `confirmPayment` | `LookupFails`, `StartNotify`, `ConfirmPayment` |
| `toPaid`, `alreadyProcessed` | `ToPaid`, `AlreadyProcessed` |
| `executeFulfillment`, `rejectUnsupportedOrderType` | `Fulfil`, `RejectUnsupported` |
| `acquirePaymentFulfillmentLease` | `AcquireLease` (conditional update), `LeaseMissed`, `ReloadLease` (second read) |
| `doBalance`, `redeem`, `Use` | `LookupCode`, `CreateCode`, `Redeem` |
| `doSub`, `ensurePaymentSubscriptionAssigned` | `CheckAssigned`, `AssignSubscription` |
| `applyAffiliateRebateForOrder` | `ApplyRebate` |
| `markCompleted`, `markFailed` | `MarkCompleted`, `CompletionMissed`, `MarkFailed` |
| `CancelOrder`, `AdminCancelOrder`, `ExpireTimedOutOrders`, `cancelCore` | `StartCancel`, `StartExpire`, `CancelUpstream`, `CancelCas` |
| `VerifyOrderByOutTradeNo`, `ReconcilePendingPaymentOrders`, `checkPaidWithOptions` | `StartVerify`, `QueryPaid`, `QueryUnpaid`, `QueryFails`, `PersistTradeNo` |
| `RetryFulfillment` | `StartRetry` |
| crash, cancelled context, database error | `Die`, `StepFails`, `SwallowError` |

The lease is the column `updated_at`, which ent refreshes on every update. The
code compares it for equality and with "five minutes ago" only, so the model
keeps the set `holders` of workers whose version is the current one and the flag
`aged`; no clock is needed. `owner` is a history variable: the last worker that
claimed the lease. `task` tells a webhook call from the others, since only
its return value is answered to the provider. The provider's delivery is "acked" when a
call answered success for what it had done, "dropped" when success was answered and
nothing done: `handleNotify` finds no provider (a database error, a pinned instance
that is gone, several enabled ones and no order to choose by) and answers success to all but
WeChat (`LookupFails`, `payment_webhook_handler.go:85-98`), or an error is swallowed. An order has
a rebate due or none (`rebateDue`: positive base amount, affiliate service present).

### PaymentRefund and the code

| Code | Actions |
|---|---|
| `RequestRefund` | `RequestRefund` (the balance check and the update are one step: the user may spend right after) |
| `PrepareRefund`, `prepDeduct` | `Prepare`: the plan, which may be stale when executed |
| `ExecuteRefund` | `Lock`, `CheckMarker`, `Deduct` |
| `gwRefund`, `finishRefund` | `GatewaySkipped`, `GatewayRefunds`, `GatewayLeavesPending`, `GatewayRefuses`, `GatewayReplyLost`, `GatewayRepeats` |
| the gateway itself | `GatewaySettles`, `GatewaySettlesUnseen` |
| `handleGwFail`, `RollbackRefund`, `restoreStatus` | `Rollback`, `RollbackAudit`, `Restore`, `FailMark`, `FailAudit` |
| `markRefundOk`, `markRefundPending` | `MarkOk`, `MarkPending` |
| `QueryAndFinalizeRefund` and its transactions | `StartFinalize`, `QueryRefund`, `FinalizeOk`, `FinalizeFailed`, `FinalizeFailedNoReturn` |

`payment_audit_logs` has a unique index on `(order_id, action)`
(`migrations/131_affiliate_rebate_hardening.sql`), which the ent schema does not
have, so the log is a *set* of actions: an insert in a transaction aborts it, a
best-effort insert (`writeAuditLog`) does nothing. `deducted` is a history
variable, what was taken from the balance and not given back. A statement on the
balance may commit and be reported as an error (`ReplyLost`): the code then restores the
order, or marks that the return failed. The gateway may pay a refund, or leave it pending,
and lose the answer, which the code takes for a refusal: `unseen` is the sum of the pending
refunds the service never heard of. It accepts a second refund beside them as long as all
stay within the order, or meets a repeated one (the id is made of order and amount
at WeChat, Stripe and Airwallex, and new at Alipay and EasyPay). Amounts are
integers from 0 to `OrderAmount`; the code's tolerances and roundings are
abstracted by exact equality. `LegacyOrders` adds the orders an older version
left in REFUND_PENDING, whose audit detail says that the deduction was returned
or that returning it failed; `refundFinalizePlan` and
`latestRefundPendingDetail` still handle them.

### The idempotency record and the code

Each SQL statement of `repository/idempotency_repo.go` is an operator of
`IdempotencyRecord` on the variable `row`, with the columns its WHERE and SET
name. Two users of the table are built from them.

| Code | Actions |
|---|---|
| `Execute`, claim | `StartExecute`, `Create`, `CreateConflicts`, `GetExisting`, `ReclaimExpired`, `ReclaimExpiredMisses`, `GetLatest`, `ReclaimFailed`, `ReclaimFailedMisses`; `Replay`, `TurnAway`, `RetryFailure` and `GetMismatch` are the branches on what was read |
| `Execute`, operation and outcome | `Execute` (an operation that returns an error may have had an effect by then, all of it or a part: `partial`), `Mark` (whose last disjunct is a failed statement or an answer that cannot be stored) |
| `renewProcessingLease` | `Renew`, `RenewFails`, `RenewEnds` |
| `Acquire` | `StartAcquire`, `Create`, `CreateConflicts`, `GetExisting`, `Reclaim`, `ReclaimMisses` |
| `renewLoop` | `Renew`, `RenewFails`, `OwnershipLost`, `StopRenewing` |
| `Release` | `Release` |
| `IdempotencyCleanupService` | `Cleanup` |
| errors of the store, crash | `StoreFails`, `Die`; a committed insert whose reply is lost is `Create` and then `Die` |

Here time matters: locks and records are compared with a `now` that the call
read before its first statement. So there is an integer clock, and a call keeps
its `now`. In `IdempotentExecute` any step may be late and any renewal fail; the
history variable `late` records that a call was not `Timely` (its claim within
`ClaimTime`, the call within `CallTime`, a renewal when it is due, at most
`MaxFailures` failed ones), and `OneExecution` speaks of behaviours in which none
was. In `SystemOperationLock` the same condition, with `AcquireTime` and
`RunTime`, guards `Wait`, since every property of the lock depends on it. Which
durations the properties need is thereby explicit. Instances are
assumed to agree on the clock, which is that of each process in the code.
`effects`, `partial`, `answers`, `born` and `created` are history variables.

### Batch image jobs and the code

| Code | Actions |
|---|---|
| `Submit` | `CreateJob` or `ReplaySubmit`, `ReserveHold`, `CreatePendingItems`, `StartUpload`, `SubmitToProvider`, `RecordProviderJob`, `EnqueueJob`; on errors `AbortOrphan`, `RecordFailure`, `HideFailure`, `RecordQueueFailure`, `ReleaseHold` |
| `Cancel` | `ReadForCancel`, `CancelAtProvider`, `CancelJob`, then `ReleaseHold` or `EnqueueJob` |
| `ReleaseStaleUnsubmittedOnce` | `GrowStale`, `FailStaleUnsubmitted` |
| worker `RunOnce` | `ReserveReady`, `TryAcquireJobLock`, then the pipeline, then `AckJob` or `RequeueJob`, `ReleaseLock` |
| pipeline `Process` | `ReadForPipeline`, `ReadForProcess`, `GetFromProvider`, `ApplyProviderState`, `IndexResults`, `StartSettling`, `ReleaseTerminalHold`, `Recheck` |
| `Settle`, `failExhaustedSettlement` | `ReadForSettle`, `CaptureHold`, `MarkJobSettled`, `RecordSettlementFailure`, `ReleaseExhausted`, `RecordReleaseFailure`, `FailExhaustedJob` |
| `DeleteOutputsForOwner` | `DeleteOutputs` |
| movers and recovery | `MoveDueDelayed`, `RecoverStaleActive`, `LockExpires` |
| statements of the hold | `Reserve`, `Capture`, `Release` (`BatchImageHold`) |
| Redis scripts | `Enqueue`, `ReserveReady`, `TakeLock`, `DropLock`, `RequeueAfter`, `Ack`, `MoveDueDelayedToReady`, `RecoverStaleActive` (`BatchImageQueue`) |
| provider | `UpstreamRuns`, `UpstreamEnds`, `UpstreamEndsUnreadable` |
| account deleted or no longer of the provider | `LoseAccount` |
| ends of processes | `HandlerDies`, `WorkerDies` |

A handler's remaining steps are a sequence, `todo[j][h]`: the code is straight-line
with early returns, so an error replaces the rest of the sequence. A worker has a
program counter. Each statement, script and provider call is a step; `Call` is a
call that succeeds, fails, or takes effect and loses its reply. The
deduplication rows are the set `claims[j]`: "hold", "capture", "release", and
"void" for a release that found no hold, which uses up the release's request id
all the same. `late` is a history variable: the lock of a live worker has lapsed.
`inflight`, `spent` and `upstream` are history and environment.

`obstacle[j]` is what keeps a job from its results whenever the worker comes back:
"account", none can be resolved (`batch_image_processor.go:82-88`); "inline", Gemini
has the images in the answer and the read of the state fails
(`batch_image_provider_gemini.go:161-163`); "output", the state names no output or
there is none (`batch_image_processor.go:189-191, 295-298`). The code requeues the job at every round, and so do the
actions `ReadForProcess`, `GetFromProvider` and `IndexResults`: an obstacle is not
a fault and has no bound. `Elsewhere` are the amounts that may be frozen for the user's jobs
outside `Jobs` and stay so, of which the initial state picks one.
`ReplaySubmit` is a repeated `Submit` after the first has ended, and one
`Cancel` of a job runs at a time; two at once meet in the same conditional updates.

### TokenRefresh and the code

| Code | Actions |
|---|---|
| `GetAccessToken` of a request, a page of the background cycle | `StartRequest`, `StartRefresh` |
| `RefreshIfNeeded` | `LockLocal`, `WaitTimesOut`; `AcquireRefreshLock`, `LockHeld`, `LockFails`; `Reread`; `Refresh`; `TryRecoverFromRefreshRace`; `Persist`; `ReleaseRefreshLock` (the two defers) |
| `refreshWithRetryWithRateGate` after it | `Continue` (retry or not), `SetError`, `SetTempUnschedulable`, `PostRefreshActions` |
| admin handlers `Update`, `Refresh`, `ApplyOAuthCredentials` | `StartAdmin`, `Login`, `ReadForManualRefresh`, `RefreshManually`, `UpdateAccountRead`, `UpdateAccountWrite`, `ClearAccountError` |
| time, provider, ends of processes | `TimePasses`, `CooldownEnds`, `LockExpires`, `ProviderRevokes`, `InstanceDies`, `AdminDies` |

Credentials are numbered in the order in which the provider issued them: the
database has one number (`account.gen`), the provider accepts the refresh tokens of some
(`valid`), and `Exchange` consumes the one it is sent. The Redis key holds no
owner, so `lock` is the call that set it, and `ReleaseRefreshLock` deletes it
whoever that is. `platform` selects between the unconditional statements of a
Claude account and the compare-and-set statements of a Grok account. Two
history variables name what the properties exclude: `impaired`, a call went on
without the lock (Redis failed) or outlived it; `loss`, credentials were lost
(reply lost, attempt over before the reply was used, storing failed, the process died with them,
an edit wrote back what it had read before, the authorization was revoked).

## 3. What TLC checks

| Run | Instance | Shows |
|---|---|---|
| `PaymentOrder_safety` | 2 workers, all order types, with and without a rebate due, 3 faults, swallowed errors, failing provider lookups | `CreditedOnce`, `CompletedIsSettled`, `NothingForFree`, `PaidIsKept`, `CompletedIsFinal`; a webhook acknowledged by a call that got to the order has been settled (`AckedIsSettled`); and refinement of `PaymentPromise` (7.4 million states) |
| `PaymentOrder_fulfilled` | 2 workers, balance and subscription orders with a rebate due, 1 fault, `FairSpec` | `PaidIsFulfilled`: a paid order is completed or put before the operator, unless its delivery was dropped (1.3 million states) |
| `PaymentRefund_safety` | 2 workers, order of 2 units, balance to 3, 2 faults, failing audit log, lost replies of gateway and database, legacy orders | one refund at a time, REFUNDED is paid back, pending refunds follow the gateway's outcome; while no audit statement failed and no committed statement on the balance was reported as an error, no double deduction, failed refunds are returned, the pending detail tells what is held; and refinement of `RefundPromise` (6.9 million states) |
| `IdempotentExecute_safety` | 3 calls (one detached) of two requests in any combination, any delays, TTL 4, lease 2, timely calls to 3, clock to 5 | `ReplayedOwnRequest`; `OnceWithinTTL`, an operation that took effect and returned no error is not run again, however late the calls are; `OneExecution` while they are timely (1.6 million states) |
| `SystemOperationLock_safety` | 4 operations, lease 6 renewed every 2, TTL 10, operations to 8, one failed renewal each, deaths, clock to 14 | `CreatorIsExclusive`, `RunningKeepsRow`, `EntriesAreLeaseApart` (1.6 million states) |
| `BatchImage_safety` | 1 job, nothing or 2 units frozen for others, 2 workers, hold 2, cost 1 or 3, deposit 4, 2 retries, all obstacles, 1 fault, `FairSpec` | `Conservation`, `CompletedIsCharged`, `ChargedIsDelivered`, `RefundedIsOver`, `InHandIsQueued`, `OneWorker`, refinement of `BatchImagePromise`, and `QueuedIsSettled`: a queued job's hold is captured or released unless an obstacle keeps it from its results (1.0 million states) |
| `TokenRefresh_rotation` | 2 calls in any of 2 processes, Claude and Grok, 1 administrator's call, 1 credential that comes due, 2 attempts, 1 fault, `FairSpec` | `OneRefresher`, `TokenIsKept`, `SentOnce`, `DisabledIsDead`, `DueIsSettled` (439 thousand states) |
| `PaymentOrder_staleLease`, `PaymentRefund_secondPending`, `SystemOperationLock_oneOperation`, `BatchImage_refundedRuns`, `BatchImage_billedOnce` | the smallest that show it; two jobs of one user in the last | section 5 |

Bounds. Two workers are enough for the races of this code: each conflict is
between a statement of one call and a check an earlier statement of another
made, and a call that ended can start again in any role, so the runs contain
any number of calls of which two overlap. (`PaymentOrder` without faults was
also checked once with three workers; the proofs cover every number.)
`MaxFaults` counts deaths and failing statements: three allow a worker to die in
a fulfilment, its successor to fail, and the third to die again. Two units are
the least amount with a partial refund; a balance above the order's amount lets a second deduction take more than
the first left.
Counters are not bounded otherwise: `credits` and `rebates` stay small because
the properties hold, and `request.id` grows only with pending refunds, of which
TLC reaches finitely many.

The clock of the record's runs passes one expiry (`IdempotentExecute`)
or one lease, one failed renewal and the longest operation
(`SystemOperationLock`), in units chosen so that the order of the code's
durations is kept: claims or acquisitions are shorter than a renewal interval,
that is a third of the lease, operations are longer than a lease and shorter
than the TTL. Three operations are needed for the lock: one to leave the record
behind, one to reclaim it, one to enter; with a fourth the first may release late under
the third. The `id` of the row grows only when a
record expired.

Batch images: the jobs of a user share the balance and the frozen amount, and nothing
else. So the long run has one job beside an amount frozen for others, as large as a
hold or none, which is what any of its statements can see of them; `BatchImage_billedOnce` has two jobs
of which the second stays at its reservation (`Bystander`); the theorems cover
any number. Two workers, one of which may be a straggler; a cost below the
hold leaves a remainder to give back and one above it is cut to the hold; two retries
distinguish the last from the others. One fault because of the size, and obstacles
beside it without a bound; the theorems cover any number of faults.

Token refresh: two calls and two processes give both kinds of race, within a
process (local lock) and between two (Redis lock). One credential that comes due is
enough for a rotation, a second is one that follows a rotation: the safety properties were
also checked once with two (2.0 million states). One fault per
behaviour, but an outage of the token endpoint may last over the retries. The
administrator makes one call; what the others do afterwards is all modelled.

Deadlock is not checked: time is bounded, and a failed or refunded order that no call looks at stays
as it is.

Fairness (`FairSpec`). A call that has started goes on (`WF` of `Step(w)`,
goroutines are scheduled). A provider redelivers an unacknowledged webhook and
every delivery gets a goroutine of its own (`SF` of `DeliverAgain`: the model's
two workers may be busy in between, which the server's are not). Time passes
(`WF` of `LeaseExpires`). `FairSpec` also assumes that the five-minute lease
does not run out under a fulfilment that is alive: without this two slow calls
may take the lease from each other for ever. No safety property uses these
assumptions, in `Spec` a lease runs out at any time. There is no fairness of
administrators' retries, reconciliation, or payment, and a delivery may be dropped at any time.

`BatchImage`: live workers go on, the delayed mover, the recovery of stale active jobs
and the lock's expiry are timers, and the provider ends a batch at some
time. Nobody has to submit, cancel, replay or delete, or to go on with it. `QueuedIsSettled` speaks of a
job that was put into the queue, and not of one whose heartbeat was late or that has met an
obstacle: the code requeues that for ever and its hold stays frozen (section 5).

`TokenRefresh`: calls go on or run out of time (`WaitTimesOut`), the background cycle
comes round (`WF` of starting it in some process), the lock's time to live and the
cooldown pass. Strong fairness is not assumed, so requests that keep arriving may take the lock for
ever: `DueIsSettled` excludes them (`RequestRuns`).

## 4. What is proved

`PaymentOrderProofs`, for any set of workers, any order types and number of
faults: `TypeCorrect`, `Invariance`, `CreditedAtMostOnce`,
`CompletedOnlySettled`, `NothingGrantedForFree`, `PaymentIsKept`,
`CompletionIsFinal`, `ImplementsPromise` and `AcknowledgedOnlySettled`, of the deliveries
that a call acknowledged for what it had done.

The safety properties are not inductive. `CreditedOnce` holds because of two idempotency keys:
the redeem code is `used`, or the audit row of the assignment exists, exactly
when the goods were granted (`CreditsAccounted`); so a second worker whose check
is stale fails in its own transaction. `CompletedIsSettled` needs that a worker
that reaches `complete` has seen the goods granted and the rebate settled
(`WorkersAreSettled`), facts no other worker can undo, which is why even a stale
owner may complete the order. `NothingForFree` needs that only workers past
`confirmPayment` go on (`WorkersArePaid`), that the provider's `paid` is stable,
and that the user cannot pay before the provider call returned (`CreatingFirst`).
`IndInv` is the conjunction; `IndStep` proves one step per action. Refinement and finality follow action by action from
`IndInv`. `AckInv` adds what an acknowledgement rests on: an order that `toPaid`
did not take was no longer cancellable.

`PaymentRefundProofs`, for any amounts, any number of workers and any loss of
audit entries and replies: `TypeCorrect`, `SingleRefundInFlight`,
`RefundStaysFinal`, `DeductedAtMostOnce`, `FailureIsReturned`, `DetailIsHeld`,
`RefundIsPaidBack`, `ConvergesByOutcome` and `ImplementsPromise`. The invariant
`ClaimInv` says that a call past its claim finds the order REFUNDING and is
alone; every unconditional update of `ExecuteRefund` rests on it. `RefundInv`
adds the rest: the refund request that is neither refused nor forgotten is the
order's last one (`RequestInv`); a call that finalises a pending refund speaks
of that request, or the entry REFUND_FAILED is there and keeps it from acting
(`FinalizerInv`); what a call or a detail may give back was taken before and
fits below what the order credited (`MoneyInv`, the reason why the balance has a
type); and, while no audit statement failed, what is held is known at every step
of the call in flight (`AccountInv`). `ImplementsPromise` is the refinement of
`RefundPromise`, which has no calls and no plans: the status becomes a phase,
the deduction what is taken, the marker REFUND_ROLLBACK_FAILED a flag, the
gateway's request a debt that is decided once. Its actions are what can go wrong
turned into guards: taking needs that nothing is held, giving up that nothing is
held or the mark set, asking the gateway that it owes no decision, REFUNDED that
it has paid, the end of a pending refund its decision. Each guard is a part of
`RefundInv`; the first two do not bind once an audit entry or the outcome of a deduction was
lost, the others always do. A refund that the gateway left open without the service hearing of
it is a variable of its own (`unheard`): nothing keeps it from being asked for again,
and the promise is that all refunds stay within the order and that it is decided
whatever the order does meanwhile. That no refund is of nothing (`AmountInv`) is the one fact it needs
beside.

`IdempotentExecuteProofs`, for any number of calls and requests and any failures:
`TypeCorrect`, `ReplayIsOwn`, `EffectOnce`, and `OneAtATime` under the assumption
`Timed`. Claims and marks find the record by its id and status; that this is enough for a
replay is `OwnInv`: whoever knows the id of the present record has the request it was
created with, because an id is never used again (`KnownInv`). `EffectOnce` needs no
timeliness: every claim writes an expiry of at least the first claim's TTL, so within it
nobody finds the record expired, the call that executes is alone, and after an
operation that took effect and returned no error the record never again says that the failure may be retried, not even when recording
the outcome fails (`WindowInv`). It says nothing of an operation that returned an error: the code
runs that again whatever it had done. `OneAtATime` has to survive expiry: `LeaseInv`
says how long the record of a running call lives, a TTL from the `now` of a
call that is not detached, and from the next renewal of a detached one at least
the renewals that may still fail; and that whoever read the record as expired before it was
claimed finds it locked. `Timed` is what this needs: `ClaimTime < Lease`,
`CallTime < TTL` and `ClaimTime + RenewEvery * (1 + MaxFailures) < TTL`, in the
code at most seconds against 30 s, and minutes against a day.

`SystemOperationLockProofs`, for any number of operations and failed renewals
and all durations with `AcquireTime <= RunTime` and
`RunTime + AcquireTime < TTL` (in the code 15 minutes against an hour):
`TypeCorrect`, `RowSurvives` and `EntriesApart`. That the row of a running operation is not
deleted does not follow from its own renewals, which may not work, nor is the
row its own to write: late releases and renewals of other operations reach it by
id. `IndInv` says that whoever writes the row leaves it an expiry of a TTL
from a time at most `AcquireTime` old (`RowWrites`), which outlasts the
operation (`TimesInv`). `EntriesApart` needs the same of `locked_until`: a row
that is processing under a running operation is locked for a lease from that
operation's `now`, up to `AcquireTime`, whoever wrote it last (`RowInv`).
`CreatorExcludes` holds under `RenewalsReach`,
`AcquireTime + RenewEvery * (1 + MaxFailures) < Lease`, which the 30 s lease and
the 10 s renewals of the code meet for one failed renewal: nobody else knows the
id of a row that a running operation has created, because only who reads the row
when it is not busy learns it, and the row stays locked for as long as renewals
that may still fail need (`CreatorInv`).

`BatchImageProofs`, for any number of jobs, workers, faults, retries and all
amounts: `TypeCorrect`, `MoneyIsConserved`, `CompletionIsCharged`,
`WorkersExclude`, `InHandStaysQueued`. Conservation and types are proved together, because that no
amount falls below zero is what the guards of the statements give. A completed
job was charged because a worker about to mark it has seen its capture succeed
(`ChargeInv`), and no statement takes a claim back (`ClaimsGrow`). The worker lock
excludes because a worker past it is its owner until a heartbeat was late
(`HolderHasLock`); a release compares the owner. A job leaves the queue only when a
worker acknowledges it (`QueuedStays`), which a worker does only with a job that is
over. The case that is not obvious is a worker that reads a job in settlement on the
path that would acknowledge it: the read before it found the job elsewhere, and
nobody but the owner of the lock begins to settle (`QueueInv`).

The other theorems are about the bill of a job: `RefundsAreOver`,
`ChargesAreDelivered` and `ImplementsPromise` (the model implements
`BatchImagePromise`), without a condition and for any number of jobs. That a job is not both
charged and refunded is not among them, since the code does it for users with several jobs
(section 5): the bill "both" is part of the promise, which has the frozen amount as a
variable and says that the second of the two takes as much of it as the first. `OneJobBilledOnce`
proves that this is the only way: the one job of a user with nothing frozen elsewhere
leaves the second nothing to take (`PoolInv`). A claim is a row of another table than the job, so
nothing but the order of the statements ties them. The invariant `LifeInv` has
four parts. `RowInv`: a job that was sent has its hold. `PlanInv`: which steps a handler
may still have to take, and that a submission that will release has not sent, a cancel or a
recovery that will release has ended the job. `WorkInv`: what a worker has seen when it
comes to a step, of a job that other handlers still write: past `settle` the job
is settled or over whatever happens. `BillInv`: captured jobs are past the
settlement's start, and one that is refunded and not charged is over, never sent, or at
the end of its retries. `LifeMoves` says which moves of a row are left then and by whom.
`DeliverInv` adds, while nothing lapsed, that nobody who could fail the job
works on it during its settlement. The refinement rests on `LedgerActs` (a step of
the ledger leaves the rows alone) and `RowsMoveAlone` (a step writes one row). A free
job (hold 0) has no claim row: the promise counts it as held from the start.

`TokenRefreshProofs`, for any number of calls, processes, due credentials, retries
and faults: `TypeCorrect`, `RefreshersExclude`, `TokenKept` and `TokenSentOnce`. The Redis key is
deleted by whoever once acquired it, so exclusion needs that while nothing was
impaired a call that has `locked` set is the one in the key (`LockInv`), and
beyond that rests on the local lock of each process (`MutexInv`). `TokenKept` does
not need exclusion: it holds because freshly issued credentials are in nobody's
hands but those of the call that got them (`FreshInv`), so none but that call can
consume or store them, and because a call that writes them leaves valid ones in
the database. This is also why it holds for calls that take no lock, like the
administrator's. `TokenSentOnce` needs both: while the lock protects the calls and
nothing was lost nobody else is about to store credentials, so those that a
call rereads are good, and nobody can consume them before it does.

`TokenDisabledProofs`: `DisabledOnlyDead`, that is `DisabledIsDead`, by two
arguments. Without a login or a manual refresh at most one credential is good,
the one that all read from the database or the one about to be stored, so when
the lock protects the calls a refusal means that nobody has a good one or will
get it, an edit that writes back what it read included (`ChainInv`: `Doom`
implies `Blind`, and `Blind` stays). With a login beside it a Grok account is safe
because the statements that store and disable compare the credentials: what a
refused call sent is not good and no call about to store compares with it
(`GrokInv`).

Assumptions: the named `ASSUME`s of the modules, which TLC evaluates.

Model-checked only: liveness (`PaidIsFulfilled`, `QueuedIsSettled`, `DueIsSettled`:
ENABLED and fairness are out of this prover's reach).

## 5. Where the code departs from its own words

* `PaymentOrder_staleLease`: the lease version is read in a second statement, so
  a stale worker can hold the version of the new owner and mark the order
  failed. The other theorems show that no money is lost: the order is retried.
* `PaymentRefund_secondPending`: an order whose refund was pending, failed and is
  pending again cannot store the second pending entry and stays REFUNDING. No fault is needed.
* `SystemOperationLock_oneOperation`: `TryReclaim` keeps the fingerprint of the
  operation that inserted the row, and renewals look for their own. So only
  the first operation after a cleanup renews its lock; a later one loses it
  after 30 s, and another update may start beside it. `CreatorIsExclusive` is
  what holds.
* `BatchImage_billedOnce`: a capture that commits and loses its reply on the last retry is
  followed by the release that `docs/BATCH_IMAGE_MVP.md:170` speaks of. Capture and release
  are kept apart by request ids of their own and by the frozen amount of the user, not of
  the job: with nothing else frozen the pool is empty, the release is refused at every further
  round and the job stays in settlement; with two it takes what the other job
  has frozen, and the charged job is failed.
* `BatchImage_refundedRuns`: `Cancel` reads the job before the submission has
  stored its provider job, cancels the row and releases the hold; the submission
  goes on and the job runs at the provider. No fault is needed. The comment of
  the recovery scan says why this must not happen, and only the recovery scan
  guards against it.

Other behaviours are in the models, and the properties say what holds in spite of
them, or exclude them by name:

* A payment after expiry plus five minutes is acknowledged and stays EXPIRED with
  an audit entry (the second case of `AckedIsSettled`), although
  `docs/PAYMENT.md:261` promises reconciliation; a wrong amount keeps an order
  PENDING for ever (`payment_order_lifecycle.go:128`).
* A webhook whose provider lookup fails is answered with success by every provider but
  WeChat (`LookupFails`, `payment_webhook_handler.go:90-98`), and an error reading the
  order may be answered like a success (`SwallowError`); the provider does not deliver
  again. `AckedIsSettled` speaks of the other acknowledgements, and `PaidIsFulfilled` of the
  deliveries that were not dropped; what is left to the order is the expiry sweep's query and the
  operator.
* The audit entry that prevents a second deduction is best effort, and a deduction that
  committed and was reported as an error restores the order to be refunded, and deducted
  from, again (`ReplyLost`, `payment_refund.go:319-322, 866-868`); the accounting
  properties of the refund hold while neither happened.
* A lost reply of the gateway is treated as a refusal (`payment_refund.go:386-390`): of a
  refund that was executed the user gets the money and the balance; one that was accepted as
  pending goes on without the order, and the next attempt may ask for another
  (`GatewayReplyLost`, `GatewaySettlesUnseen`). `RefundPromise` has these as `unheard`; only the
  gateway keeps all of them within what was paid.
* An operation that returns an error is run again by the next call with the key, also when it
  had taken effect in part (`partial`; `idempotency.go:413, 423-439`):
  `admin.accounts.create` has created the account when binding its groups fails
  (`admin_account.go:538-546`), and the retry creates another. `OnceWithinTTL` speaks of operations that
  returned no error.
* `Release` of the system lock writes by the id of the row: an operation that lost the lock
  ends the lease of its successor, and a third may enter at once. `EntriesAreLeaseApart` names
  this case, `CreatorIsExclusive` is not affected by it.
* Two retries that both read an expired success may both execute, one after the
  other: the second reclaims the outcome the first has just recorded, since
  `TryReclaim` compares the status but not the expiry; `OnceWithinTTL` and
  `OneExecution` are what holds.
* A cancellation before the hold is reserved uses up the request id of the
  release; the hold reserved afterwards stays frozen ("void", which
  `QueuedIsSettled` excludes). A process that ends between storing the provider's job
  and enqueuing it leaves a job no scan looks for.
* A worker whose lock lapsed acknowledges the job of its successor by id;
  `InHandIsQueued` speaks of behaviours without a late heartbeat.
* A job that meets an obstacle (section 2) is requeued for ever and its hold stays frozen: a Gemini
  batch that answers with its images, an output that is not there, an account that
  was deleted. There is no limit of attempts outside settlement. `QueuedIsSettled` names
  these jobs.
* `SetError` of a Claude account is unconditional: an account whose user logged
  in again during the refused call is disabled (the last case of `DisabledIsDead`).
* An edit of an account that read the row before a rotation writes the consumed
  token back (`loss` in `UpdateAccountWrite`).

## 6. Not modelled

Requests without an idempotency key and the redaction of stored answers;
clocks of several instances that disagree; signature checks and message formats; currencies and rounding; notification
mails; provider instance selection; subscription refunds (planned); top-ups
during a refund (spending is the adverse direction: the balance is only read by
`Available`); negative balances; the clock beyond the comparisons the code makes. An order
is independent of other orders except for the limits of creation, the balance
and the inviter's quota. Of batch images: validation, prices, input and output
files, listing and downloads; several jobs at once are in the theorems and in one run. Of the token refresh: refusals other
than invalid_grant (`access_denied`, client and entitlement errors disable the account too or
contain its provider, so `DisabledIsDead` is about invalid_grant), the cache
of access tokens and its invalidation, the Grok request path, rate gates, circuit
breaker and cycle timeout, the other platforms' refreshers, proxies, and more than
one administrator's call. Orders in REFUNDING whose call died stay there in code and model.

## 7. Plan

1. Subscription refunds.
2. `SchedulerOutbox`: sequence numbers against commit order, watermark, cleanup,
   rebuild. Liveness: every committed event reaches the snapshot.
3. `ConcurrencySlots`: slots with expiry over several instances; theorem: never over the limit.
4. `UsageBilling` (the charge of a request) and `BalanceCache`, then their
   composition with the holds of several batch jobs.
5. `OrderLimits`: several orders of one user; `PaymentLedger`: orders, refunds
   and balance composed, total credited minus refunded equals the balance.
