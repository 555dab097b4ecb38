---------------------------- MODULE PaymentRefund ----------------------------
(***************************************************************************)
(* The refund of one completed balance order: the user's request, the      *)
(* administrators' refunds (PrepareRefund and then ExecuteRefund, whose    *)
(* plan may be stale by then), the convergence of refunds the gateway left *)
(* pending (QueryAndFinalizeRefund), the user spending the balance         *)
(* meanwhile, and the gateway.                                             *)
(*                                                                         *)
(* A worker is one running call; each database statement or transaction    *)
(* and each gateway call is a step.  A worker can die at any point.        *)
(* payment_audit_logs has a unique index on (order_id, action) in the      *)
(* deployed schema, so the audit log is a set of actions, an insert inside *)
(* a transaction aborts it when the action is there, and writeAuditLog     *)
(* ignores the error.  Amounts are small integers.                         *)
(***************************************************************************)
EXTENDS Integers, FiniteSets

CONSTANTS
    Workers,       \* identifiers of concurrent calls
    OrderAmount,   \* what the order credited, in units
    MaxBalance,    \* bound on the user's balance
    MaxFaults,     \* bound on deaths and failing statements
    AuditMayFail,  \* whether best-effort audit statements may be among them
    RepliesMayGetLost,  \* whether a refund that was accepted, or a deduction
                        \* that was committed, may be reported as an error
    LegacyOrders   \* whether the order may come from an older version

ASSUME OrderAmountAssumption == OrderAmount \in Nat \ {0}
ASSUME MaxBalanceAssumption == MaxBalance \in Nat
ASSUME FaultsAssumption == MaxFaults \in Nat
ASSUME SwitchesAssumption ==
    {AuditMayFail, RepliesMayGetLost, LegacyOrders} \subseteq BOOLEAN

VARIABLES
    status,        \* status of the order
    refundAmount,  \* refund_amount column
    balance,       \* the user's balance
    audit,         \* actions in the audit log
    detail,        \* what the REFUND_PENDING entry says of the deduction
    hasTradeNo,    \* payment_trade_no is set
    request,       \* the request the gateway left pending, and its outcome
    unseen,        \* accepted as pending by the gateway, the answer was lost
    paidBack,      \* what the gateway has refunded
    deducted,      \* history: deducted from the balance and not returned
    pc,            \* next step of each worker
    plan,          \* RefundPlan of each worker
    faults,        \* deaths and failing statements so far
    lost           \* history: one of them was a best-effort audit statement, or
                   \* a deduction that had been committed

orderVars   == <<status, refundAmount, audit, detail, hasTradeNo>>
moneyVars   == <<balance, deducted>>
gatewayVars == <<request, unseen, paidBack>>
faultVars   == <<faults, lost>>
vars == <<orderVars, moneyVars, gatewayVars, pc, plan, faultVars>>

Refundable == {"COMPLETED", "REFUND_REQUESTED", "REFUND_FAILED"}
RefundedStatuses == {"REFUNDED", "PARTIALLY_REFUNDED"}
Statuses == Refundable \cup RefundedStatuses \cup {"REFUNDING", "REFUND_PENDING"}
\* The steps of ExecuteRefund after its claim of the order.
ExecutingSteps == {"checkMarker", "deduct", "gateway", "rollback",
                   "rollbackAudit", "restore", "failMark", "failAudit",
                   "markOk", "markPending"}
Steps == ExecutingSteps \cup
         {"idle", "lock", "queryRefund", "finOk", "finFail", "finFailNoReturn"}
Amounts == 0..OrderAmount
\* "held": balanceDeducted is amt and retained; entries of older versions:
\* "returned" (deductionRollbackOK) or "kept" (the rollback had failed).
Details == [state : {"none", "held", "returned", "kept"}, amt : Amounts]
NoDetail == [state |-> "none", amt |-> 0]
Requests == [state : {"none", "pending", "done", "failed"}, amt : Amounts,
             id : Nat]
\* amt: RefundAmount; take: BalanceToDeduct; orig: Order.Status; held:
\* deductionHeld; req: the request that the detail which was read names.
Plans == [amt : Amounts, take : Amounts, orig : Statuses, held : BOOLEAN,
          req : Nat]
NoPlan == [amt |-> 0, take |-> 0, orig |-> "COMPLETED", held |-> FALSE,
           req |-> 0]
AuditActions == {"REFUND_PENDING", "REFUND_FAILED", "REFUND_ROLLBACK_FAILED",
                 "REFUND_SUCCESS"}

TypeOK ==
    /\ status \in Statuses
    /\ refundAmount \in Amounts
    /\ balance \in 0..MaxBalance
    /\ audit \subseteq AuditActions
    /\ detail \in Details
    /\ hasTradeNo \in BOOLEAN
    /\ request \in Requests
    /\ unseen \in Amounts
    /\ paidBack \in Amounts
    /\ deducted \in Nat
    /\ pc \in [Workers -> Steps]
    /\ plan \in [Workers -> Plans]
    /\ faults \in 0..MaxFaults
    /\ lost \in BOOLEAN

\* A completed order, or one that an older version left in REFUND_PENDING.
Init ==
    /\ \/ /\ status = "COMPLETED"
          /\ refundAmount = 0
          /\ request = [state |-> "none", amt |-> 0, id |-> 0]
          /\ detail = NoDetail
          /\ hasTradeNo \in BOOLEAN
       \/ /\ LegacyOrders
          /\ status = "REFUND_PENDING"
          /\ refundAmount \in Amounts \ {0}
          /\ request = [state |-> "pending", amt |-> refundAmount, id |-> 0]
          /\ detail \in [state : {"none", "returned", "kept"}, amt : {0}]
          /\ hasTradeNo = TRUE
    /\ audit = CASE detail.state = "none"     -> {}
                 [] detail.state = "returned" -> {"REFUND_PENDING"}
                 [] OTHER -> {"REFUND_PENDING", "REFUND_ROLLBACK_FAILED"}
    /\ deducted = IF detail.state = "kept" THEN refundAmount ELSE 0
    /\ balance \in 0..MaxBalance
    /\ unseen = 0
    /\ paidBack = 0
    /\ pc = [w \in Workers |-> "idle"]
    /\ plan = [w \in Workers |-> NoPlan]
    /\ faults = 0
    /\ lost = FALSE

-----------------------------------------------------------------------------
(* Building blocks *)

Least(a, b) == IF a <= b THEN a ELSE b

Goto(w, step) ==
    /\ pc' = [pc EXCEPT ![w] = step]
    /\ UNCHANGED plan

Continue(w, step, take) ==
    /\ pc' = [pc EXCEPT ![w] = step]
    /\ plan' = [plan EXCEPT ![w].take = take]

Return(w) ==
    /\ pc' = [pc EXCEPT ![w] = "idle"]
    /\ plan' = [plan EXCEPT ![w] = NoPlan]

Fault ==
    /\ faults < MaxFaults
    /\ faults' = faults + 1
    /\ UNCHANGED lost

\* writeAuditLog only logs its error; hasAuditLog answers one with "no entry".
AuditFault ==
    /\ AuditMayFail
    /\ faults < MaxFaults
    /\ faults' = faults + 1
    /\ lost' = TRUE

\* The database commits a statement, the connection fails before it says so.
ReplyLost ==
    /\ RepliesMayGetLost
    /\ faults < MaxFaults
    /\ faults' = faults + 1
    /\ lost' = TRUE

\* Mutant: the statement takes the whole amount.
WholeAmount(amount) == amount

\* DeductAvailableBalance takes at most what is there, in one statement.
Available(amount) == Least(amount, balance)

TakeFromBalance(amount) ==
    /\ balance' = balance - amount
    /\ deducted' = deducted + amount

GiveBack(amount) ==
    /\ balance' = balance + amount
    /\ deducted' = deducted - amount

SetStatus(s) ==
    /\ status' = s
    /\ UNCHANGED <<refundAmount, audit, detail, hasTradeNo>>

FinalStatus(amt) ==
    IF amt < OrderAmount THEN "PARTIALLY_REFUNDED" ELSE "REFUNDED"

-----------------------------------------------------------------------------
(* The user *)

UserSpends ==
    /\ balance > 0
    /\ balance' = balance - 1
    /\ UNCHANGED <<orderVars, deducted, gatewayVars, pc, plan, faultVars>>

\* RequestRefund; the balance is only compared, nothing is reserved.
RequestRefund ==
    /\ status = "COMPLETED"
    /\ balance >= OrderAmount
    /\ status' = "REFUND_REQUESTED"
    /\ refundAmount' = OrderAmount
    /\ UNCHANGED <<audit, detail, hasTradeNo, moneyVars, gatewayVars, pc,
                   plan, faultVars>>

-----------------------------------------------------------------------------
(* PrepareRefund and ExecuteRefund *)

Prepare(w) ==
    /\ pc[w] = "idle"
    /\ status \in Refundable
    /\ \E amt \in Amounts \ {0}, deduct \in BOOLEAN, force \in BOOLEAN :
         /\ deduct => balance >= amt \/ force
         /\ plan' = [plan EXCEPT ![w] =
                       [amt  |-> amt,
                        take |-> IF deduct THEN Least(amt, balance) ELSE 0,
                        orig |-> status,
                        held |-> FALSE,
                        req  |-> 0]]
    /\ pc' = [pc EXCEPT ![w] = "lock"]
    /\ UNCHANGED <<orderVars, moneyVars, gatewayVars, faultVars>>

\* Mutant: a pending refund can be executed again.
RefundableOrPending == status \in Refundable \cup {"REFUND_PENDING"}

\* Mutant: the claim has no condition on the status.
RefundableAlways == TRUE

StillRefundable == status \in Refundable

Lock(w) ==
    /\ pc[w] = "lock"
    /\ IF StillRefundable
       THEN /\ SetStatus("REFUNDING")
            /\ Goto(w, IF plan[w].take > 0 THEN "checkMarker" ELSE "gateway")
       ELSE UNCHANGED orderVars /\ Return(w)
    /\ UNCHANGED <<moneyVars, gatewayVars, faultVars>>

\* Mutant: the marker of an earlier failed rollback is not looked for.
MarkerIgnored == FALSE

StillDeducted == "REFUND_ROLLBACK_FAILED" \in audit

\* hasAuditLog; its read error counts as "no such entry".
CheckMarker(w) ==
    /\ pc[w] = "checkMarker"
    /\ \/ /\ IF StillDeducted THEN Continue(w, "gateway", 0)
                              ELSE Goto(w, "deduct")
          /\ UNCHANGED faultVars
       \/ AuditFault /\ Goto(w, "deduct")
    /\ UNCHANGED <<orderVars, moneyVars, gatewayVars>>

\* A failing statement undoes the claim, also when it was committed.
Deduct(w) ==
    /\ pc[w] = "deduct"
    /\ LET amount == Available(plan[w].take) IN
         \/ /\ TakeFromBalance(amount)
            /\ Continue(w, "gateway", amount)
            /\ UNCHANGED faultVars
         \/ Fault /\ Goto(w, "restore") /\ UNCHANGED moneyVars
         \/ ReplyLost /\ Goto(w, "restore") /\ TakeFromBalance(amount)
    /\ UNCHANGED <<orderVars, gatewayVars>>

-----------------------------------------------------------------------------
(* gwRefund and the gateway.  The gateway never accepts more than was paid *)
(* for the order.  A call is a new refund request at Alipay and EasyPay;   *)
(* at WeChat, Stripe and Airwallex the request is named by the order and   *)
(* the amount, and a repeated one meets the refund that exists.            *)

Room(amount) ==
    LET owed == IF request.state = "pending" THEN request.amt ELSE 0
    IN  paidBack + unseen + owed + amount <= OrderAmount

GatewaySkipped(w) ==
    /\ pc[w] = "gateway"
    /\ ~hasTradeNo
    /\ Goto(w, "markOk")
    /\ UNCHANGED <<orderVars, moneyVars, gatewayVars, faultVars>>

GatewayRefunds(w) ==
    /\ pc[w] = "gateway"
    /\ hasTradeNo
    /\ Room(plan[w].amt)
    /\ paidBack' = paidBack + plan[w].amt
    /\ Goto(w, "markOk")
    /\ UNCHANGED <<orderVars, moneyVars, request, unseen, faultVars>>

\* Mutant: finishRefund takes a pending refund for a successful one.
PendingIsSuccess == "markOk"

AfterPending == "markPending"

GatewayLeavesPending(w) ==
    /\ pc[w] = "gateway"
    /\ hasTradeNo
    /\ Room(plan[w].amt)
    /\ request' = [state |-> "pending", amt |-> plan[w].amt,
                   id |-> request.id + 1]
    /\ Goto(w, AfterPending)
    /\ UNCHANGED <<orderVars, moneyVars, unseen, paidBack, faultVars>>

GatewayRefuses(w) ==
    /\ pc[w] = "gateway"
    /\ hasTradeNo
    /\ Goto(w, "rollback")
    /\ UNCHANGED <<orderVars, moneyVars, gatewayVars, faultVars>>

\* The refund is executed or accepted as pending, the reply is lost: the code
\* sees an error.
GatewayReplyLost(w) ==
    /\ RepliesMayGetLost
    /\ pc[w] = "gateway"
    /\ hasTradeNo
    /\ Room(plan[w].amt)
    /\ \/ paidBack' = paidBack + plan[w].amt /\ UNCHANGED unseen
       \/ unseen' = unseen + plan[w].amt /\ UNCHANGED paidBack
    /\ Goto(w, "rollback")
    /\ UNCHANGED <<orderVars, moneyVars, request, faultVars>>

\* A repeated request meets a refund whose answer was lost: one that was paid
\* is a success, one that is open is left pending.  The model keeps the sums of
\* such refunds, so the request may also meet several or a part.
GatewayRepeats(w) ==
    /\ pc[w] = "gateway"
    /\ hasTradeNo
    /\ \/ /\ plan[w].amt <= paidBack
          /\ Goto(w, "markOk")
          /\ UNCHANGED <<request, unseen>>
       \/ /\ plan[w].amt <= unseen
          /\ unseen' = unseen - plan[w].amt
          /\ request' = [state |-> "pending", amt |-> plan[w].amt,
                         id |-> request.id + 1]
          /\ Goto(w, AfterPending)
    /\ UNCHANGED <<orderVars, moneyVars, paidBack, faultVars>>

\* The gateway settles the request it left pending.
GatewaySettles ==
    /\ request.state = "pending"
    /\ \/ /\ request' = [request EXCEPT !.state = "done"]
          /\ paidBack' = paidBack + request.amt
       \/ request' = [request EXCEPT !.state = "failed"] /\ UNCHANGED paidBack
    /\ UNCHANGED <<orderVars, moneyVars, unseen, pc, plan, faultVars>>

\* The gateway settles refunds the service never heard of.
GatewaySettlesUnseen ==
    /\ \E amount \in 1..unseen :
         /\ unseen' = unseen - amount
         /\ paidBack' \in {paidBack, paidBack + amount}
    /\ UNCHANGED <<orderVars, moneyVars, request, pc, plan, faultVars>>

-----------------------------------------------------------------------------
(* handleGwFail, markRefundOk, markRefundPending *)

\* RollbackRefund; when returning the balance fails, or seems to, the marker is
\* written.
Rollback(w) ==
    /\ pc[w] = "rollback"
    /\ \/ /\ GiveBack(plan[w].take)
          /\ Goto(w, "restore")
          /\ UNCHANGED faultVars
       \/ /\ plan[w].take > 0
          /\ Fault
          /\ Goto(w, "rollbackAudit")
          /\ \/ UNCHANGED moneyVars
             \/ RepliesMayGetLost /\ GiveBack(plan[w].take)
    /\ UNCHANGED <<orderVars, gatewayVars>>

RollbackAudit(w) ==
    /\ pc[w] = "rollbackAudit"
    /\ \/ audit' = audit \cup {"REFUND_ROLLBACK_FAILED"} /\ UNCHANGED faultVars
       \/ AuditFault /\ UNCHANGED audit
    /\ Goto(w, "failMark")
    /\ UNCHANGED <<status, refundAmount, detail, hasTradeNo, moneyVars,
                   gatewayVars>>

\* restoreStatus: no condition on the row, the status of the stale plan.
Restore(w) ==
    /\ pc[w] = "restore"
    /\ SetStatus(IF plan[w].orig = "REFUND_REQUESTED"
                 THEN "REFUND_REQUESTED" ELSE "COMPLETED")
    /\ Return(w)
    /\ UNCHANGED <<moneyVars, gatewayVars, faultVars>>

FailMark(w) ==
    /\ pc[w] = "failMark"
    /\ SetStatus("REFUND_FAILED")
    /\ Goto(w, "failAudit")
    /\ UNCHANGED <<moneyVars, gatewayVars, faultVars>>

FailAudit(w) ==
    /\ pc[w] = "failAudit"
    /\ audit' = audit \cup {"REFUND_FAILED"}
    /\ Return(w)
    /\ UNCHANGED <<status, refundAmount, detail, hasTradeNo, moneyVars,
                   gatewayVars, faultVars>>

MarkOk(w) ==
    /\ pc[w] = "markOk"
    /\ status' = FinalStatus(plan[w].amt)
    /\ refundAmount' = plan[w].amt
    /\ audit' = audit \cup {"REFUND_SUCCESS"}
    /\ Return(w)
    /\ UNCHANGED <<detail, hasTradeNo, moneyVars, gatewayVars, faultVars>>

\* Mutant: the deduction is returned when the refund goes pending.
HeldNothing(w) == 0

Held(w) == plan[w].take

\* One transaction; the second REFUND_PENDING entry of an order violates the
\* unique index and the order stays in REFUNDING.
MarkPending(w) ==
    /\ pc[w] = "markPending"
    /\ IF "REFUND_PENDING" \in audit
       THEN UNCHANGED orderVars
       ELSE /\ status' = "REFUND_PENDING"
            /\ refundAmount' = plan[w].amt
            /\ audit' = audit \cup {"REFUND_PENDING"}
            /\ detail' = [state |-> "held", amt |-> Held(w)]
            /\ UNCHANGED hasTradeNo
    /\ Return(w)
    /\ UNCHANGED <<moneyVars, gatewayVars, faultVars>>

-----------------------------------------------------------------------------
(* QueryAndFinalizeRefund *)

\* Without an entry the deduction counts as returned.
StartFinalize(w) ==
    /\ pc[w] = "idle"
    /\ status = "REFUND_PENDING"
    /\ plan' = [plan EXCEPT ![w] =
                  [amt  |-> refundAmount,
                   take |-> CASE detail.state = "held" -> detail.amt
                              [] detail.state = "kept" -> 0
                              [] OTHER                 -> refundAmount,
                   orig |-> status,
                   held |-> detail.state = "held",
                   req  |-> request.id]]
    /\ pc' = [pc EXCEPT ![w] = "queryRefund"]
    /\ UNCHANGED <<orderVars, moneyVars, gatewayVars, faultVars>>

\* The gateway is asked for the request the detail names; when there is a newer
\* one by now, that one has failed.
QueryRefund(w) ==
    /\ pc[w] = "queryRefund"
    /\ LET known == plan[w].req = request.id IN
         \/ known /\ request.state = "done" /\ Goto(w, "finOk")
         \/ (~known \/ request.state = "failed") /\ Goto(w, "finFail")
         \/ known /\ request.state = "pending" /\ Return(w)
    /\ UNCHANGED <<orderVars, moneyVars, gatewayVars, faultVars>>

PendingClaimed == status = "REFUND_PENDING"

\* finalizePendingRefundSuccess, one transaction.
FinalizeOk(w) ==
    /\ pc[w] = "finOk"
    /\ IF PendingClaimed /\ "REFUND_SUCCESS" \notin audit
       THEN /\ status' = FinalStatus(plan[w].amt)
            /\ refundAmount' = plan[w].amt
            /\ audit' = audit \cup {"REFUND_SUCCESS"}
            /\ TakeFromBalance(IF plan[w].held THEN 0
                               ELSE Available(plan[w].take))
       ELSE UNCHANGED <<status, refundAmount, audit, moneyVars>>
    /\ Return(w)
    /\ UNCHANGED <<detail, hasTradeNo, gatewayVars, faultVars>>

\* Mutant: the retained deduction is not returned.
ReturnNothing(w) == 0

ToReturn(w) == IF plan[w].held THEN plan[w].take ELSE 0

\* finalizeRefundFailed, its first transaction: claim, return, audit.  When
\* only the return fails, the second transaction follows.
FinalizeFailed(w) ==
    /\ pc[w] = "finFail"
    /\ \/ /\ IF PendingClaimed /\ "REFUND_FAILED" \notin audit
             THEN /\ status' = "REFUND_FAILED"
                  /\ GiveBack(ToReturn(w))
                  /\ audit' = audit \cup {"REFUND_FAILED"}
             ELSE UNCHANGED <<status, audit, moneyVars>>
          /\ Return(w)
          /\ UNCHANGED faultVars
       \/ /\ PendingClaimed
          /\ plan[w].held /\ plan[w].take > 0
          /\ Fault
          /\ Goto(w, "finFailNoReturn")
          /\ UNCHANGED <<status, audit, moneyVars>>
    /\ UNCHANGED <<refundAmount, detail, hasTradeNo, gatewayVars>>

\* The second transaction: claim, marker, audit.
FinalizeFailedNoReturn(w) ==
    /\ pc[w] = "finFailNoReturn"
    /\ IF PendingClaimed
          /\ audit \cap {"REFUND_ROLLBACK_FAILED", "REFUND_FAILED"} = {}
       THEN /\ status' = "REFUND_FAILED"
            /\ audit' = audit \cup {"REFUND_ROLLBACK_FAILED", "REFUND_FAILED"}
       ELSE UNCHANGED <<status, audit>>
    /\ Return(w)
    /\ UNCHANGED <<refundAmount, detail, hasTradeNo, moneyVars,
                   gatewayVars, faultVars>>

-----------------------------------------------------------------------------

Die(w) ==
    /\ Fault
    /\ pc[w] # "idle"
    /\ Return(w)
    /\ UNCHANGED <<orderVars, moneyVars, gatewayVars>>

Execute(w) ==
    \/ Prepare(w)
    \/ Lock(w)
    \/ CheckMarker(w)
    \/ Deduct(w)
    \/ GatewaySkipped(w)
    \/ GatewayRefunds(w)
    \/ GatewayLeavesPending(w)
    \/ GatewayRefuses(w)
    \/ GatewayReplyLost(w)
    \/ GatewayRepeats(w)
    \/ Rollback(w)
    \/ RollbackAudit(w)
    \/ Restore(w)
    \/ FailMark(w)
    \/ FailAudit(w)
    \/ MarkOk(w)
    \/ MarkPending(w)

Finalize(w) ==
    \/ StartFinalize(w)
    \/ QueryRefund(w)
    \/ FinalizeOk(w)
    \/ FinalizeFailed(w)
    \/ FinalizeFailedNoReturn(w)

Next ==
    \/ UserSpends
    \/ RequestRefund
    \/ GatewaySettles
    \/ GatewaySettlesUnseen
    \/ \E w \in Workers : Execute(w) \/ Finalize(w) \/ Die(w)

Spec == Init /\ [][Next]_vars

-----------------------------------------------------------------------------
(* Properties *)

Executing(w) == pc[w] \in ExecutingSteps

\* At most one call is past its claim of the order, however many plans were
\* prepared, and unless it has just failed the order it is in REFUNDING: the
\* unconditional updates that follow the claim rest on this.
OneRefundInFlight ==
    /\ \A v, w \in Workers : Executing(v) /\ Executing(w)
                             /\ pc[w] # "failAudit" /\ pc[v] # "failAudit"
                                 => v = w
    /\ \A w \in Workers : Executing(w) /\ pc[w] # "failAudit"
                              => status = "REFUNDING"

\* Over all attempts, retries after failed rollbacks included, the user never
\* loses more than the order credited.
NoDoubleDeduction == ~lost => deducted <= OrderAmount

\* An order whose refund failed or was undone holds no deduction any more,
\* unless the marker that stops the next attempt from deducting is in the log.
FailedRefundIsReturned ==
    ~lost /\ status \in Refundable /\ "REFUND_ROLLBACK_FAILED" \notin audit
        => deducted = 0

\* While the gateway's decision is open, the detail from which the refund will
\* be finalised says exactly how much of the balance is held.
PendingDetailIsHeld ==
    ~lost /\ status = "REFUND_PENDING" /\ "REFUND_ROLLBACK_FAILED" \notin audit
        => deducted = (IF detail.state = "held" THEN detail.amt ELSE 0)

FollowsOutcome ==
    IF request.state = "done" THEN status' \in RefundedStatuses
                              ELSE status' = "REFUND_FAILED"

\* A pending refund only leaves this status by the outcome the gateway
\* reported: never by a new attempt, which would refund twice.
PendingConvergesByOutcome ==
    [][status = "REFUND_PENDING" /\ status' # status
         => request.state \in {"done", "failed"} /\ FollowsOutcome]_vars

\* An order is only called refunded, whichever call found out and however late,
\* when the gateway has refunded that amount (or was never paid through it).
RefundedIsPaidBack ==
    status \in RefundedStatuses /\ hasTradeNo => paidBack >= refundAmount

-----------------------------------------------------------------------------
(* The abstract specification *)

Phase ==
    CASE status \in Refundable       -> "open"
      [] status = "REFUNDING"        -> "executing"
      [] status = "REFUND_PENDING"   -> "pending"
      [] OTHER                       -> "refunded"

\* The recorded amount; the one of the user's request is a wish.
Given == IF Phase \in {"pending", "refunded"} THEN refundAmount ELSE 0

Promise == INSTANCE RefundPromise WITH
    Amount     <- OrderAmount,
    phase      <- Phase,
    taken      <- deducted,
    marked     <- "REFUND_ROLLBACK_FAILED" \in audit,
    lost       <- lost,
    viaGateway <- hasTradeNo,
    asked      <- [state |-> request.state, amt |-> request.amt],
    unheard    <- unseen,
    paid       <- paidBack,
    given      <- Given

\* All calls together, with their stale plans, deaths, rollbacks and late
\* answers, do what RefundPromise says of one order.  Among it: refunded is
\* final, only after the gateway paid; a refund known to be pending ends as the
\* gateway decides and no other is asked for meanwhile; nothing is taken while
\* something is held, and no attempt ends with the balance taken and unmarked.
\* A refund whose pending answer was lost may be asked for again: the promise
\* has it (unheard) and only bounds it by what was paid.
KeepsPromise == Promise!Spec

-----------------------------------------------------------------------------
(* What the code's comments say and its behaviour contradicts *)

\* Comment on markRefundPending: status and audit entry are written together
\* so that the refund can be finalised from what is held.  Without faults an
\* order in REFUNDING is then being worked on by some call.
PendingCanConverge ==
    status = "REFUNDING" => \E w \in Workers : Executing(w)
=============================================================================
