---------------------------- MODULE PaymentOrder ----------------------------
(***************************************************************************)
(* One payment order of the payment service, from its creation to          *)
(* COMPLETED, as the database, the payment provider and the concurrent     *)
(* request handlers see it.                                                *)
(*                                                                         *)
(* A worker is one running call of the service: a webhook delivery, a      *)
(* reconciliation or a verification by the user, a cancellation, one       *)
(* order of the expiry sweep, or a retry by an administrator.  It has a    *)
(* program counter, and every database statement (or transaction) and      *)
(* every provider call is one step, so that workers interleave exactly     *)
(* between statements.  A worker can die at any point (process crash,      *)
(* cancelled request context, database error returned to the caller).      *)
(*                                                                         *)
(* The order's updated_at column is the fulfilment lease: the code only    *)
(* compares it for equality with the value a worker read, and asks whether *)
(* it is at least five minutes old.  So the model keeps `holders', the     *)
(* workers whose remembered version equals the current one, and `aged'.    *)
(* ent refreshes updated_at on every update of the row: WriteOrder.        *)
(***************************************************************************)
EXTENDS Naturals, FiniteSets

CONSTANTS
    Workers,      \* identifiers of concurrent calls
    OrderTypes,   \* order_type values a stored order may have
    RebatesDue,   \* whether a rebate may be due for an order: values of rebateDue
    MaxFaults     \* bound on the number of worker deaths and failing steps

TypesKnown == {"balance", "subscription", "unsupported"}

ASSUME WorkersAssumption == "none" \notin Workers
ASSUME OrderTypesAssumption == OrderTypes \subseteq TypesKnown
ASSUME RebatesDueAssumption == RebatesDue \subseteq BOOLEAN
ASSUME MaxFaultsAssumption == MaxFaults \in Nat

VARIABLES
    orderType,  \* order_type, fixed when the order is created
    rebateDue,  \* the order has an amount a rebate is computed from
    status,     \* status
    aged,       \* updated_at is at least five minutes old
    holders,    \* workers whose lease version equals updated_at
    owner,      \* history: the last worker that claimed the lease, no step reads it
    tradeNo,    \* payment_trade_no: "none" or the provider's, "upstream"
    paidAt,     \* paid_at is set
    timedOut,   \* expires_at has passed
    creating,   \* CreateOrder has not yet returned from the provider
    code,       \* the redeem code of the order: "none", "unused", "used"
    credits,    \* how often the goods were granted
    rebates,    \* how often the inviter's rebate was accrued
    audit,      \* actions in payment_audit_logs (unique per order)
    upstream,   \* the provider's order
    delivery,   \* the provider's webhook: "none", "due", "acked" once a call
                \* answered success for what it did, "dropped" while success
                \* was only answered for a call that could do nothing
    pc,         \* next step of each worker
    task,       \* the call each worker serves
    snap,       \* payment_trade_no in the order object a worker has read
    faults      \* deaths and failing steps so far

orderVars   == <<status, aged, holders, owner, tradeNo, paidAt>>
goodsVars   == <<code, credits, rebates, audit>>
gatewayVars == <<upstream, delivery>>
workerVars  == <<pc, task, snap>>
timeVars    == <<orderType, rebateDue, timedOut, creating>>
vars == <<orderVars, goodsVars, gatewayVars, workerVars, timeVars, faults>>

Statuses == {"PENDING", "PAID", "RECHARGING", "COMPLETED",
             "EXPIRED", "CANCELLED", "FAILED"}
Tasks == {"none", "notify", "retry", "cancel", "expire", "verify"}
\* The steps that run under a fulfilment lease; an error in one of them
\* leads to markFailed.
LeasedSteps == {"lookup", "create", "redeem", "assign", "assignTx",
                "rebate", "complete", "completeMiss"}
Steps == LeasedSteps \cup
         {"idle", "query", "persist", "cancelPay", "cancelCas", "confirm",
          "toPaid", "already", "fulfil", "acquire", "leaseMiss", "reload",
          "markFailed"}
AuditActions == {"PAYMENT_AFTER_EXPIRY", "SUBSCRIPTION_ASSIGNED",
                 "AFFILIATE_REBATE_APPLIED", "AFFILIATE_REBATE_SKIPPED"}

TypeOK ==
    /\ orderType \in OrderTypes
    /\ rebateDue \in RebatesDue
    /\ status \in Statuses
    /\ aged \in BOOLEAN
    /\ holders \subseteq Workers
    /\ owner \in Workers \cup {"none"}
    /\ tradeNo \in {"none", "upstream"}
    /\ paidAt \in BOOLEAN
    /\ timedOut \in BOOLEAN
    /\ creating \in BOOLEAN
    /\ code \in {"none", "unused", "used"}
    /\ credits \in Nat
    /\ rebates \in Nat
    /\ audit \subseteq AuditActions
    /\ upstream \in {"none", "payable", "paid", "paidWrong", "closed"}
    /\ delivery \in {"none", "due", "acked", "dropped"}
    /\ pc \in [Workers -> Steps]
    /\ task \in [Workers -> Tasks]
    /\ snap \in [Workers -> {"none", "upstream"}]
    /\ faults \in 0..MaxFaults

\* createOrderInTx has committed the row; CreateOrder is about to call the
\* provider.
Init ==
    /\ orderType \in OrderTypes
    /\ rebateDue \in RebatesDue
    /\ status = "PENDING"
    /\ aged = FALSE
    /\ holders = {}
    /\ owner = "none"
    /\ tradeNo = "none"
    /\ paidAt = FALSE
    /\ timedOut = FALSE
    /\ creating = TRUE
    /\ code = "none"
    /\ credits = 0
    /\ rebates = 0
    /\ audit = {}
    /\ upstream = "none"
    /\ delivery = "none"
    /\ pc = [w \in Workers |-> "idle"]
    /\ task = [w \in Workers |-> "none"]
    /\ snap = [w \in Workers |-> "none"]
    /\ faults = 0

-----------------------------------------------------------------------------
(* Building blocks *)

Supported == orderType # "unsupported"

RebateClaimed ==
    audit \cap {"AFFILIATE_REBATE_APPLIED", "AFFILIATE_REBATE_SKIPPED"} # {}

\* Every ent update of the row refreshes updated_at, whatever it sets.
WriteOrder(s) ==
    /\ status' = s
    /\ aged' = FALSE
    /\ holders' = {}
    /\ owner' = IF s = "RECHARGING" THEN owner ELSE "none"

Goto(w, step) ==
    /\ pc' = [pc EXCEPT ![w] = step]
    /\ UNCHANGED <<task, snap>>

Begin(w, t, step) ==
    /\ pc[w] = "idle"
    /\ pc' = [pc EXCEPT ![w] = step]
    /\ task' = [task EXCEPT ![w] = t]
    /\ snap' = [snap EXCEPT ![w] = tradeNo]

Leave(w) ==
    /\ pc' = [pc EXCEPT ![w] = "idle"]
    /\ task' = [task EXCEPT ![w] = "none"]
    /\ snap' = [snap EXCEPT ![w] = "none"]

\* The call returns; a webhook call that returns nil is answered with the
\* provider's success response, an error makes the provider deliver again.
Return(w, ok) ==
    /\ Leave(w)
    /\ delivery' = IF task[w] = "notify" /\ ok THEN "acked" ELSE delivery
    /\ UNCHANGED upstream

DropLease(w) ==
    /\ holders' = holders \ {w}
    /\ UNCHANGED <<status, aged, owner, tradeNo, paidAt>>

-----------------------------------------------------------------------------
(* The provider, the user and the clock *)

\* CreateOrder: the provider accepted the payment; it may already hand out a
\* trade number, and the row is updated with the payment details.
InvokeProviderOk ==
    /\ creating
    /\ creating' = FALSE
    /\ upstream' = "payable"
    /\ tradeNo' \in {tradeNo, "upstream"}
    /\ WriteOrder(status)
    /\ UNCHANGED <<paidAt, goodsVars, delivery, workerVars, orderType,
                   rebateDue, timedOut, faults>>

\* CreateOrder: the provider call failed, or it was accepted and its answer or
\* the update with the payment details was not; the status is set without
\* looking at the one the row has by now, and a failure to set it is ignored.
InvokeProviderFail ==
    /\ creating
    /\ creating' = FALSE
    /\ \/ WriteOrder("FAILED")
       \/ UNCHANGED <<status, aged, holders, owner>>
    /\ upstream' \in {upstream, "payable"}
    /\ UNCHANGED <<tradeNo, paidAt, goodsVars, delivery, workerVars,
                   orderType, rebateDue, timedOut, faults>>

\* The user pays at the provider: the exact price, or another amount.
UserPays ==
    /\ upstream = "payable"
    /\ upstream' \in {"paid", "paidWrong"}
    /\ delivery' = "due"
    /\ UNCHANGED <<orderVars, goodsVars, workerVars, timeVars, faults>>

TimeOut ==
    /\ ~timedOut
    /\ timedOut' = TRUE
    /\ UNCHANGED <<orderVars, goodsVars, gatewayVars, workerVars, orderType,
                   rebateDue, creating, faults>>

\* Five minutes pass since the last update of the row.
FiveMinutesPass ==
    /\ ~aged
    /\ aged' = TRUE
    /\ UNCHANGED <<status, holders, owner, tradeNo, paidAt, goodsVars,
                   gatewayVars, workerVars, timeVars, faults>>

-----------------------------------------------------------------------------
(* Entry points *)

\* handleNotify finds no provider for the delivery (a database error, a pinned
\* instance that is gone, several enabled instances and no order to choose by)
\* and answers success for every provider but WeChat: the delivery is over.
LookupFails ==
    /\ delivery = "due"
    /\ delivery' = "dropped"
    /\ UNCHANGED <<orderVars, goodsVars, upstream, workerVars, timeVars, faults>>

\* A (possibly repeated) success webhook; HandlePaymentNotification has found
\* the order.
StartNotify(w) ==
    /\ delivery # "none"
    /\ Begin(w, "notify", "confirm")
    /\ UNCHANGED <<orderVars, goodsVars, gatewayVars, timeVars, faults>>

\* CancelOrder, AdminCancelOrder.
StartCancel(w) ==
    /\ status = "PENDING"
    /\ Begin(w, "cancel", "query")
    /\ UNCHANGED <<orderVars, goodsVars, gatewayVars, timeVars, faults>>

\* ExpireTimedOutOrders has selected the order.
StartExpire(w) ==
    /\ status = "PENDING"
    /\ timedOut
    /\ Begin(w, "expire", "query")
    /\ UNCHANGED <<orderVars, goodsVars, gatewayVars, timeVars, faults>>

\* VerifyOrderByOutTradeNo, or ReconcilePendingPaymentOrders (which selects
\* a subset of these orders: pending and not timed out).
StartVerify(w) ==
    /\ status \in {"PENDING", "EXPIRED"}
    /\ Begin(w, "verify", "query")
    /\ UNCHANGED <<orderVars, goodsVars, gatewayVars, timeVars, faults>>

\* RetryFulfillment by an administrator.
StartRetry(w) ==
    /\ paidAt
    /\ status \in {"FAILED", "PAID", "RECHARGING"}
    /\ Supported
    /\ Begin(w, "retry", "fulfil")
    /\ UNCHANGED <<orderVars, goodsVars, gatewayVars, timeVars, faults>>

-----------------------------------------------------------------------------
(* checkPaidWithOptions and cancelCore *)

Cancelling(w) == task[w] \in {"cancel", "expire"}

\* QueryOrder answers that the order is paid.
QueryPaid(w) ==
    /\ pc[w] = "query"
    /\ upstream \in {"paid", "paidWrong"}
    /\ Goto(w, "persist")
    /\ UNCHANGED <<orderVars, goodsVars, gatewayVars, timeVars, faults>>

\* QueryOrder answers that it is not.
QueryUnpaid(w) ==
    /\ pc[w] = "query"
    /\ upstream \notin {"paid", "paidWrong"}
    /\ IF Cancelling(w)
       THEN Goto(w, "cancelPay") /\ UNCHANGED gatewayVars
       ELSE Return(w, TRUE)
    /\ UNCHANGED <<orderVars, goodsVars, timeVars, faults>>

\* No provider, a failing query or an unusable amount: checkPaid returns "",
\* and cancelCore goes on to cancel.
QueryFails(w) ==
    /\ pc[w] = "query"
    /\ IF Cancelling(w)
       THEN Goto(w, "cancelCas") /\ UNCHANGED gatewayVars
       ELSE Return(w, TRUE)
    /\ UNCHANGED <<orderVars, goodsVars, timeVars, faults>>

\* The trade number is stored when the order object read at the start has
\* another one, with no condition on the row's status.  It is not stored when
\* it is the reference the order was queried by; a failing update is ignored.
PersistTradeNo(w) ==
    /\ pc[w] = "persist"
    /\ \/ UNCHANGED orderVars
       \/ /\ snap[w] = "none"
          /\ WriteOrder(status)
          /\ tradeNo' = "upstream"
          /\ UNCHANGED paidAt
    /\ Goto(w, "confirm")
    /\ UNCHANGED <<goodsVars, gatewayVars, timeVars, faults>>

\* CancelPayment closes an unpaid order at the provider, if it can.
CancelUpstream(w) ==
    /\ pc[w] = "cancelPay"
    /\ upstream' \in {upstream, IF upstream = "payable" THEN "closed"
                                ELSE upstream}
    /\ Goto(w, "cancelCas")
    /\ UNCHANGED <<orderVars, goodsVars, delivery, timeVars, faults>>

\* Mutant: the audit action is stored as the status.
CancelTargetIsAction(w) ==
    IF task[w] = "expire" THEN "ORDER_EXPIRED" ELSE "ORDER_CANCELLED"

CancelTarget(w) == IF task[w] = "expire" THEN "EXPIRED" ELSE "CANCELLED"

\* Mutant: the update has no condition on the status.
CancelsAnything == TRUE

StillPending == status = "PENDING"

CancelCas(w) ==
    /\ pc[w] = "cancelCas"
    /\ IF StillPending
       THEN WriteOrder(CancelTarget(w)) /\ UNCHANGED <<tradeNo, paidAt>>
       ELSE UNCHANGED orderVars
    /\ Return(w, TRUE)
    /\ UNCHANGED <<goodsVars, timeVars, faults>>

-----------------------------------------------------------------------------
(* confirmPayment, toPaid, alreadyProcessed *)

\* Mutant: any paid amount is accepted.
AnyAmount == upstream \in {"paid", "paidWrong"}

AmountMatches == upstream = "paid"

\* The paid amount is compared with the order's; a mismatch is an error.
ConfirmPayment(w) ==
    /\ pc[w] = "confirm"
    /\ IF AmountMatches
       THEN Goto(w, "toPaid") /\ UNCHANGED gatewayVars
       ELSE Return(w, FALSE)
    /\ UNCHANGED <<orderVars, goodsVars, timeVars, faults>>

Payable == \/ status \in {"PENDING", "CANCELLED"}
           \/ status = "EXPIRED" /\ ~aged

ToPaid(w) ==
    /\ pc[w] = "toPaid"
    /\ IF Payable
       THEN /\ WriteOrder("PAID")
            /\ paidAt' = TRUE
            /\ tradeNo' = "upstream"
            /\ Goto(w, "fulfil")
       ELSE UNCHANGED orderVars /\ Goto(w, "already")
    /\ UNCHANGED <<goodsVars, gatewayVars, timeVars, faults>>

\* Mutant: an order that another call is working on counts as processed.
UnfinishedUnlessRecharging == status \in {"FAILED", "PAID"}

Unfinished == status \in {"FAILED", "PAID", "RECHARGING"}

AlreadyProcessed(w) ==
    /\ pc[w] = "already"
    /\ IF Unfinished
       THEN Goto(w, "fulfil") /\ UNCHANGED gatewayVars
       ELSE Return(w, TRUE)
    /\ audit' = IF status = "EXPIRED"
                THEN audit \cup {"PAYMENT_AFTER_EXPIRY"} ELSE audit
    /\ UNCHANGED <<orderVars, code, credits, rebates, timeVars, faults>>

\* The order read by confirmPayment, its reload by alreadyProcessed, or the
\* update of rejectUnsupportedOrderType fails; all report success, also to the
\* provider.
SwallowError(w) ==
    /\ \/ pc[w] \in {"confirm", "already"}
       \/ pc[w] = "fulfil" /\ ~Supported
    /\ Leave(w)
    /\ delivery' = IF task[w] = "notify" /\ delivery = "due" THEN "dropped"
                   ELSE delivery
    /\ UNCHANGED <<orderVars, goodsVars, upstream, timeVars, faults>>

-----------------------------------------------------------------------------
(* executeFulfillment and the lease *)

\* Order types the service does not know are failed and acknowledged.
RejectUnsupported(w) ==
    /\ pc[w] = "fulfil"
    /\ ~Supported
    /\ IF status \in {"PAID", "RECHARGING"}
       THEN WriteOrder("FAILED") /\ UNCHANGED <<tradeNo, paidAt>>
       ELSE UNCHANGED orderVars
    /\ Return(w, TRUE)
    /\ UNCHANGED <<goodsVars, timeVars, faults>>

Fulfil(w) ==
    /\ pc[w] = "fulfil"
    /\ Supported
    /\ IF status \in {"PAID", "FAILED", "RECHARGING"}
       THEN Goto(w, "acquire") /\ UNCHANGED gatewayVars
       ELSE Return(w, status = "COMPLETED")
    /\ UNCHANGED <<orderVars, goodsVars, timeVars, faults>>

\* Mutant: a lease is never taken over.
LeaseNeverExpires == status \in {"PAID", "FAILED"}

LeaseFree == \/ status \in {"PAID", "FAILED"}
             \/ status = "RECHARGING" /\ aged

AcquireLease(w) ==
    /\ pc[w] = "acquire"
    /\ IF LeaseFree
       THEN /\ status' = "RECHARGING"
            /\ aged' = FALSE
            /\ holders' = {}
            /\ owner' = w
            /\ UNCHANGED <<tradeNo, paidAt>>
            /\ Goto(w, "reload")
       ELSE UNCHANGED orderVars /\ Goto(w, "leaseMiss")
    /\ UNCHANGED <<goodsVars, gatewayVars, timeVars, faults>>

LeaseMissed(w) ==
    /\ pc[w] = "leaseMiss"
    /\ Return(w, status = "COMPLETED")
    /\ UNCHANGED <<orderVars, goodsVars, timeVars, faults>>

FirstDeliveryStep == IF orderType = "balance" THEN "lookup" ELSE "assign"

\* The version is whatever updated_at the row has at this second read.
ReloadLease(w) ==
    /\ pc[w] = "reload"
    /\ IF status = "RECHARGING"
       THEN /\ holders' = holders \cup {w}
            /\ Goto(w, FirstDeliveryStep)
            /\ UNCHANGED gatewayVars
       ELSE UNCHANGED holders /\ Return(w, FALSE)
    /\ UNCHANGED <<status, aged, owner, tradeNo, paidAt, goodsVars, timeVars,
                   faults>>

-----------------------------------------------------------------------------
(* doBalance: the redeem code makes the credit idempotent *)

\* Mutant: an existing code is taken for a redeemed one.
RedeemActionByExistence == IF code = "none" THEN "create" ELSE "rebate"

\* resolveRedeemAction, as the step that follows.
RedeemAction == CASE code = "none"   -> "create"
                  [] code = "unused" -> "redeem"
                  [] code = "used"   -> "rebate"

LookupCode(w) ==
    /\ pc[w] = "lookup"
    /\ Goto(w, RedeemAction)
    /\ UNCHANGED <<orderVars, goodsVars, gatewayVars, timeVars, faults>>

\* The code column is unique.
CreateCode(w) ==
    /\ pc[w] = "create"
    /\ IF code = "none"
       THEN code' = "unused" /\ Goto(w, "redeem")
       ELSE UNCHANGED code /\ Goto(w, "markFailed")
    /\ UNCHANGED <<orderVars, credits, rebates, audit, gatewayVars, timeVars,
                   faults>>

\* Mutant: the code is marked used whatever its status.
CodeExists == code # "none"

CodeUsable == code = "unused"

\* One transaction: the code is used if it still is unused, the balance grows.
Redeem(w) ==
    /\ pc[w] = "redeem"
    /\ IF CodeUsable
       THEN /\ code' = "used"
            /\ credits' = credits + 1
            /\ Goto(w, "rebate")
       ELSE UNCHANGED <<code, credits>> /\ Goto(w, "markFailed")
    /\ UNCHANGED <<orderVars, rebates, audit, gatewayVars, timeVars, faults>>

-----------------------------------------------------------------------------
(* doSub: the audit row makes the assignment idempotent *)

CheckAssigned(w) ==
    /\ pc[w] = "assign"
    /\ Goto(w, IF "SUBSCRIPTION_ASSIGNED" \in audit
               THEN "rebate" ELSE "assignTx")
    /\ UNCHANGED <<orderVars, goodsVars, gatewayVars, timeVars, faults>>

\* Mutant: the check made in an earlier statement is trusted.
NeverTaken == FALSE

AssignmentTaken == "SUBSCRIPTION_ASSIGNED" \in audit

\* The extension commits with the audit row, or not at all when another
\* worker's row is already there.
AssignSubscription(w) ==
    /\ pc[w] = "assignTx"
    /\ IF AssignmentTaken
       THEN UNCHANGED <<audit, credits>>
       ELSE /\ audit' = audit \cup {"SUBSCRIPTION_ASSIGNED"}
            /\ credits' = credits + 1
    /\ Goto(w, "rebate")
    /\ UNCHANGED <<orderVars, code, rebates, gatewayVars, timeVars, faults>>

-----------------------------------------------------------------------------
(* applyAffiliateRebateForOrder, markCompleted, markFailed *)

\* One transaction: claim the audit row, accrue, settle the row's action
\* (SKIPPED when no inviter earns anything).
ApplyRebate(w) ==
    /\ pc[w] = "rebate"
    /\ IF RebateClaimed \/ ~rebateDue
       THEN UNCHANGED <<audit, rebates>>
       ELSE \/ /\ audit' = audit \cup {"AFFILIATE_REBATE_APPLIED"}
               /\ rebates' = rebates + 1
            \/ /\ audit' = audit \cup {"AFFILIATE_REBATE_SKIPPED"}
               /\ UNCHANGED rebates
    /\ Goto(w, "complete")
    /\ UNCHANGED <<orderVars, code, credits, gatewayVars, timeVars, faults>>

HoldsLease(w) == status = "RECHARGING" /\ w \in holders

MarkCompleted(w) ==
    /\ pc[w] = "complete"
    /\ IF HoldsLease(w)
       THEN /\ WriteOrder("COMPLETED")
            /\ UNCHANGED <<tradeNo, paidAt>>
            /\ Return(w, TRUE)
       ELSE UNCHANGED <<orderVars, gatewayVars>> /\ Goto(w, "completeMiss")
    /\ UNCHANGED <<goodsVars, timeVars, faults>>

CompletionMissed(w) ==
    /\ pc[w] = "completeMiss"
    /\ IF status = "COMPLETED"
       THEN DropLease(w) /\ Return(w, TRUE)
       ELSE UNCHANGED <<orderVars, gatewayVars>> /\ Goto(w, "markFailed")
    /\ UNCHANGED <<goodsVars, timeVars, faults>>

\* Mutant: the update has no condition on status and version.
MarkFailedAnyway(w) ==
    /\ pc[w] = "markFailed"
    /\ WriteOrder("FAILED")
    /\ UNCHANGED <<tradeNo, paidAt>>
    /\ Return(w, FALSE)
    /\ UNCHANGED <<goodsVars, timeVars, faults>>

MarkFailed(w) ==
    /\ pc[w] = "markFailed"
    /\ IF HoldsLease(w)
       THEN WriteOrder("FAILED") /\ UNCHANGED <<tradeNo, paidAt>>
       ELSE DropLease(w)
    /\ Return(w, FALSE)
    /\ UNCHANGED <<goodsVars, timeVars, faults>>

-----------------------------------------------------------------------------
(* Failures *)

\* A step under the lease fails (after its own transaction was rolled back,
\* or between two steps, or the subscription's group is not active): the
\* handler goes on to markFailed.
StepFails(w) ==
    /\ faults < MaxFaults
    /\ faults' = faults + 1
    /\ pc[w] \in LeasedSteps
    /\ Goto(w, "markFailed")
    /\ UNCHANGED <<orderVars, goodsVars, gatewayVars, timeVars>>

\* The call ends here: the process dies, the request context is cancelled, or
\* a database error is returned to the caller.
Die(w) ==
    /\ faults < MaxFaults
    /\ faults' = faults + 1
    /\ pc[w] # "idle"
    /\ DropLease(w)
    /\ Return(w, FALSE)
    /\ UNCHANGED <<goodsVars, timeVars>>

-----------------------------------------------------------------------------

Environment ==
    \/ LookupFails
    \/ InvokeProviderOk
    \/ InvokeProviderFail
    \/ UserPays
    \/ TimeOut
    \/ FiveMinutesPass

Entry(w) ==
    \/ StartNotify(w)
    \/ StartCancel(w)
    \/ StartExpire(w)
    \/ StartVerify(w)
    \/ StartRetry(w)

Step(w) ==
    \/ QueryPaid(w)
    \/ QueryUnpaid(w)
    \/ QueryFails(w)
    \/ PersistTradeNo(w)
    \/ CancelUpstream(w)
    \/ CancelCas(w)
    \/ ConfirmPayment(w)
    \/ ToPaid(w)
    \/ AlreadyProcessed(w)
    \/ RejectUnsupported(w)
    \/ Fulfil(w)
    \/ AcquireLease(w)
    \/ LeaseMissed(w)
    \/ ReloadLease(w)
    \/ LookupCode(w)
    \/ CreateCode(w)
    \/ Redeem(w)
    \/ CheckAssigned(w)
    \/ AssignSubscription(w)
    \/ ApplyRebate(w)
    \/ MarkCompleted(w)
    \/ CompletionMissed(w)
    \/ MarkFailed(w)

Failure(w) ==
    \/ SwallowError(w)
    \/ StepFails(w)
    \/ Die(w)

Next ==
    \/ Environment
    \/ \E w \in Workers : Entry(w) \/ Step(w) \/ Failure(w)

Spec == Init /\ [][Next]_vars

(***************************************************************************)
(* Liveness.  A started call runs on; the provider keeps delivering a      *)
(* webhook that was not acknowledged, and the HTTP server gives every      *)
(* delivery a goroutine, so other calls cannot starve it; time passes.     *)
(* The lease is sized so that a fulfilment that does not die finishes      *)
(* within it; without that, two slow calls could steal the lease from each *)
(* other for ever.  Safety does not rest on it.                            *)
(***************************************************************************)
DeliverAgain == delivery = "due" /\ \E w \in Workers : StartNotify(w)

InLease(w) == pc[w] \in LeasedSteps \cup {"reload", "markFailed"}

LeaseExpires == FiveMinutesPass /\ \A w \in Workers : ~InLease(w)

Fairness ==
    /\ \A w \in Workers : WF_vars(Step(w))
    /\ SF_vars(DeliverAgain)
    /\ WF_vars(LeaseExpires)

FairSpec ==
    Init /\ [][Next /\ (FiveMinutesPass => LeaseExpires)]_vars /\ Fairness

-----------------------------------------------------------------------------
(* Properties *)

\* The goods of an order are granted at most once and the inviter's rebate is
\* accrued at most once, however many webhooks, retries and stale workers run
\* the fulfilment concurrently and wherever they die (redeem code, audit row).
CreditedOnce == credits <= 1 /\ rebates <= 1

\* COMPLETED is only written when the goods were granted and the rebate, where
\* one is due, was settled, although another worker than the one completing the
\* order may have done both.
CompletedIsSettled ==
    status = "COMPLETED" => credits = 1 /\ (rebateDue => RebateClaimed)

\* Nothing is granted, and no order is called paid, unless the provider took
\* the exact price; in particular not through a retry, a cancellation racing a
\* payment or a verification.
NothingForFree ==
    (credits > 0 \/ paidAt \/ status \in {"PAID", "RECHARGING", "COMPLETED"})
        => upstream = "paid"

\* Once the payment is recorded, no cancellation, expiry or late CreateOrder
\* failure takes the order back: it is being fulfilled, completed, or failed
\* and open to a retry.
PaidIsKept ==
    paidAt => status \in {"PAID", "RECHARGING", "COMPLETED", "FAILED"}

\* A call that got as far as the order acknowledges its webhook, so that the
\* provider never sends it again, only when the goods were granted, the order's
\* type is unknown, or the late payment was recorded for the operator.  The two
\* acknowledgements behind which nothing was done, a provider lookup that
\* failed and an error that was swallowed, are "dropped" and not spoken of.
AckedIsSettled ==
    delivery = "acked" => \/ status = "COMPLETED"
                          \/ "PAYMENT_AFTER_EXPIRY" \in audit
                          \/ ~Supported /\ status = "FAILED"

\* No stale worker, failing late, takes a completed order out of COMPLETED.
CompletedIsFinal == [][status = "COMPLETED" => status' = "COMPLETED"]_vars

\* Every paid order is completed in the end, or the operator finds its late
\* payment in the audit log, or its webhook was acknowledged for nothing, which
\* ends the redelivery; deaths of workers and lost leases only delay it.  It
\* speaks of orders whose plan can be delivered: an attempt on a subscription
\* whose group was deleted or switched off fails, but not for ever (StepFails).
PaidIsFulfilled ==
    (upstream = "paid" /\ Supported)
        ~> \/ status = "COMPLETED"
           \/ "PAYMENT_AFTER_EXPIRY" \in audit
           \/ delivery = "dropped"

\* The abstract promise, with the goods, the provider and the order's final
\* status in the place of its variables.
Promise == INSTANCE PaymentPromise WITH
    paid <- upstream = "paid",
    delivered <- credits,
    done <- status = "COMPLETED"
KeepsPromise == Promise!PromiseSpec

-----------------------------------------------------------------------------
(* The inductive invariant of PaymentOrderProofs *)

\* A worker is past the comparison of the paid amount.
AfterConfirm == LeasedSteps \cup
    {"toPaid", "already", "fulfil", "acquire", "leaseMiss", "reload",
     "markFailed"}

\* The provider is called once, before the user can pay.
CreatingFirst == creating => upstream = "none"

\* Workers go on only with a payment the provider confirmed.
WorkersArePaid == \A w \in Workers : pc[w] \in AfterConfirm => upstream = "paid"

\* Fulfilment steps belong to the order's type.
StepsMatchType ==
    \A w \in Workers :
      /\ pc[w] \in {"acquire", "reload"} => Supported
      /\ pc[w] \in {"lookup", "create", "redeem"} => orderType = "balance"
      /\ pc[w] \in {"assign", "assignTx"} => orderType = "subscription"

\* The two idempotency keys tell exactly what was granted.
CreditsAccounted ==
    /\ orderType = "balance" => credits = IF code = "used" THEN 1 ELSE 0
    /\ orderType = "subscription" =>
         credits = IF "SUBSCRIPTION_ASSIGNED" \in audit THEN 1 ELSE 0
    /\ orderType = "unsupported" => credits = 0

RebatesAccounted ==
    rebates = IF "AFFILIATE_REBATE_APPLIED" \in audit THEN 1 ELSE 0

\* A worker about to complete the order, stale or not, has seen it granted.
WorkersAreSettled ==
    \A w \in Workers :
      /\ pc[w] \in {"rebate", "complete", "completeMiss"} => credits = 1
      /\ pc[w] \in {"complete", "completeMiss"} /\ rebateDue => RebateClaimed

\* TypeOK and all the facts that make the safety properties inductive: one
\* worker's statement never falsifies what another worker has read before.
IndInv ==
    /\ TypeOK
    /\ CreatingFirst
    /\ WorkersArePaid
    /\ StepsMatchType
    /\ CreditsAccounted
    /\ RebatesAccounted
    /\ WorkersAreSettled
    /\ CompletedIsSettled
    /\ NothingForFree
    /\ PaidIsKept

\* What AckedIsSettled rests on: only notifications acknowledge, an order that
\* toPaid did not take was not cancellable any more, and an unknown order type
\* is never fulfilled.
AckInv ==
    /\ AckedIsSettled
    /\ ~Supported => status \notin {"RECHARGING", "COMPLETED"}
    /\ \A w \in Workers :
         /\ pc[w] \in {"query", "persist", "cancelPay", "cancelCas"}
              => task[w] # "notify"
         /\ pc[w] = "already" => status \notin {"PENDING", "CANCELLED"}
         /\ pc[w] = "fulfil" /\ ~Supported => status \in {"PAID", "FAILED"}

-----------------------------------------------------------------------------
(* What the code's documents say and its behaviour contradicts *)

\* Comment on markFailed: the lease version prevents a stale worker from
\* overwriting a newer owner.  The worker that marks the order failed is then
\* the last one that claimed it.
StaleWorkerCannotFail ==
    [][\A w \in Workers :
         (pc[w] = "markFailed" /\ pc'[w] = "idle"
            /\ status = "RECHARGING" /\ status' = "FAILED") => owner = w]_vars
=============================================================================
