------------------------- MODULE PaymentRefundProofs -------------------------
(***************************************************************************)
(* Machine-checked proofs about PaymentRefund, for every set of workers,   *)
(* every amount and every number of faults, whether or not the audit log   *)
(* is reliable and the replies of the gateway and the database arrive.     *)
(***************************************************************************)
EXTENDS PaymentRefund, TLAPS

\* What the conditional claim of the order protects: the steps after it are
\* unconditional, and rest on this alone.
ClaimInv ==
    /\ pc \in [Workers -> Steps]
    /\ OneRefundInFlight

\* No call has the order at first.
LEMMA ClaimInit == Init => ClaimInv
<1> SUFFICES ASSUME Init PROVE ClaimInv
  OBVIOUS
<1>1. pc \in [Workers -> Steps]
  BY DEF Init, Steps
<1>2. \A w \in Workers : ~Executing(w)
  BY DEF Init, Executing, ExecutingSteps
<1> QED BY <1>1, <1>2 DEF ClaimInv, OneRefundInFlight

\* A step moves at most one worker, and past the claim only by the claim.
LEMMA ClaimStep == ClaimInv /\ [Next]_vars => ClaimInv'
<1> SUFFICES ASSUME ClaimInv, [Next]_vars PROVE ClaimInv'
  OBVIOUS
<1> USE DEF ClaimInv, OneRefundInFlight, Executing, ExecutingSteps, Steps,
        Refundable, orderVars, moneyVars, gatewayVars
<1>1. CASE UserSpends
  BY <1>1 DEF UserSpends
<1>2. CASE RequestRefund
  BY <1>2 DEF RequestRefund
<1>3. CASE GatewaySettles \/ GatewaySettlesUnseen
  BY <1>3 DEF GatewaySettles, GatewaySettlesUnseen
<1>4. ASSUME NEW w \in Workers, Execute(w) PROVE ClaimInv'
  <2>1. CASE Prepare(w)
    BY <2>1 DEF Prepare
  <2>2. CASE Lock(w)
    BY <2>2 DEF Lock, StillRefundable, SetStatus, Goto, Return
  <2>3. CASE CheckMarker(w)
    BY <2>3 DEF CheckMarker, Continue, Goto
  <2>4. CASE Deduct(w)
    BY <2>4 DEF Deduct, Continue, Goto
  <2>5. CASE GatewaySkipped(w)
    BY <2>5 DEF GatewaySkipped, Goto
  <2>6. CASE GatewayRefunds(w)
    BY <2>6 DEF GatewayRefunds, Goto
  <2>7. CASE GatewayLeavesPending(w)
    BY <2>7 DEF GatewayLeavesPending, AfterPending, Goto
  <2>8. CASE GatewayRefuses(w)
    BY <2>8 DEF GatewayRefuses, Goto
  <2>9. CASE GatewayReplyLost(w)
    BY <2>9 DEF GatewayReplyLost, Goto
  <2>10. CASE Rollback(w)
    BY <2>10 DEF Rollback, Goto
  <2>11. CASE RollbackAudit(w)
    BY <2>11 DEF RollbackAudit, Goto
  <2>12. CASE Restore(w)
    BY <2>12 DEF Restore, SetStatus, Return
  <2>13. CASE FailMark(w)
    BY <2>13 DEF FailMark, SetStatus, Goto
  <2>14. CASE FailAudit(w)
    BY <2>14 DEF FailAudit, Return
  <2>15. CASE MarkOk(w)
    BY <2>15 DEF MarkOk, Return
  <2>16. CASE MarkPending(w)
    BY <2>16 DEF MarkPending, Return
  <2>17. CASE GatewayRepeats(w)
    BY <2>17 DEF GatewayRepeats, AfterPending, Goto
  <2> QED BY <1>4, <2>1, <2>2, <2>3, <2>4, <2>5, <2>6, <2>7, <2>8, <2>9, <2>10,
             <2>11, <2>12, <2>13, <2>14, <2>15, <2>16, <2>17 DEF Execute
<1>5. ASSUME NEW w \in Workers, Finalize(w) PROVE ClaimInv'
  <2>1. CASE StartFinalize(w)
    BY <2>1 DEF StartFinalize
  <2>2. CASE QueryRefund(w)
    BY <2>2 DEF QueryRefund, Goto, Return
  <2>3. CASE FinalizeOk(w)
    BY <2>3 DEF FinalizeOk, PendingClaimed, Return
  <2>4. CASE FinalizeFailed(w)
    BY <2>4 DEF FinalizeFailed, PendingClaimed, Goto, Return
  <2>5. CASE FinalizeFailedNoReturn(w)
    BY <2>5 DEF FinalizeFailedNoReturn, PendingClaimed, Return
  <2> QED BY <1>5, <2>1, <2>2, <2>3, <2>4, <2>5 DEF Finalize
<1>6. ASSUME NEW w \in Workers, Die(w) PROVE ClaimInv'
  BY <1>6 DEF Die, Return
<1>7. CASE UNCHANGED vars
  BY <1>7 DEF vars
<1> QED BY <1>1, <1>2, <1>3, <1>4, <1>5, <1>6, <1>7 DEF Next

\* At most one refund of an order is between its claim and its outcome, however
\* many administrators prepared one and however stale their plans are.
THEOREM SingleRefundInFlight == Spec => []OneRefundInFlight
<1>1. ClaimInv => OneRefundInFlight
  BY DEF ClaimInv
<1> QED BY <1>1, ClaimInit, ClaimStep, PTL DEF Spec

\* No step of any call, however stale its plan, changes a finalised order.
LEMMA FinalRefundStep ==
    ClaimInv /\ [Next]_vars
      => (status \in RefundedStatuses => status' = status)
<1> SUFFICES ASSUME ClaimInv, [Next]_vars, status \in RefundedStatuses
             PROVE  status' = status
  OBVIOUS
<1>1. \A w \in Workers : Executing(w) => pc[w] = "failAudit"
  BY DEF ClaimInv, OneRefundInFlight, RefundedStatuses
<1> USE DEF RefundedStatuses, Refundable, ExecutingSteps, Executing, orderVars
<1>2. CASE UserSpends \/ RequestRefund \/ GatewaySettles \/ GatewaySettlesUnseen
  BY <1>2 DEF UserSpends, RequestRefund, GatewaySettles, GatewaySettlesUnseen
<1>3. ASSUME NEW w \in Workers, Execute(w) PROVE status' = status
  <2>1. CASE Prepare(w) \/ Lock(w)
    BY <2>1 DEF Prepare, Lock, StillRefundable
  <2>2. CASE CheckMarker(w) \/ Deduct(w) \/ FailAudit(w) \/ RollbackAudit(w) \/ Rollback(w)
    BY <2>2 DEF CheckMarker, Deduct, FailAudit, RollbackAudit, Rollback
  <2>3. CASE \/ GatewaySkipped(w) \/ GatewayRefunds(w) \/ GatewayLeavesPending(w)
             \/ GatewayRefuses(w) \/ GatewayReplyLost(w) \/ GatewayRepeats(w)
    BY <2>3 DEF GatewaySkipped, GatewayRefunds, GatewayLeavesPending,
       GatewayRefuses, GatewayReplyLost, GatewayRepeats
  <2>4. CASE Restore(w) \/ FailMark(w) \/ MarkOk(w) \/ MarkPending(w)
    BY <1>1, <2>4 DEF Restore, FailMark, MarkOk, MarkPending
  <2> QED BY <1>3, <2>1, <2>2, <2>3, <2>4 DEF Execute
<1>4. ASSUME NEW w \in Workers, Finalize(w) \/ Die(w) PROVE status' = status
  BY <1>4 DEF Finalize, StartFinalize, QueryRefund, FinalizeOk, FinalizeFailed,
     FinalizeFailedNoReturn, PendingClaimed, Die
<1>5. CASE UNCHANGED vars
  BY <1>5 DEF vars
<1> QED BY <1>2, <1>3, <1>4, <1>5 DEF Next

\* A finalised refund is final.
THEOREM RefundStaysFinal ==
    Spec => [][(status \in RefundedStatuses) => status' = status]_vars
<1>1. ClaimInv /\ [Next]_vars
        => [(status \in RefundedStatuses) => status' = status]_vars
  BY FinalRefundStep
<1> QED BY <1>1, ClaimInit, ClaimStep, PTL DEF Spec
-----------------------------------------------------------------------------
(* What the gateway was asked, and what the calls know of it.               *)

Open == {"REFUND_PENDING"} \cup RefundedStatuses

Finalizing(w) == pc[w] \in {"queryRefund", "finOk", "finFail", "finFailNoReturn"}

\* A request that is not refused is the last one of the order, and the call
\* that made it has nothing left to do but to record it.
RequestInv ==
    /\ request.state \in {"pending", "done"} =>
         /\ status \in Open \cup {"REFUNDING"}
         /\ \A w \in Workers : Executing(w) => pc[w] \in {"markPending", "failAudit"}
    /\ Room(0)
    /\ request.state = "done" => paidBack >= request.amt
    /\ status = "REFUND_PENDING" => request.state # "none" /\ request.amt = refundAmount
    /\ \A w \in Workers : pc[w] = "markPending" =>
         /\ request.state # "none" /\ request.amt = plan[w].amt
         /\ \A v \in Workers : Finalizing(v) => plan[v].req < request.id
    /\ \A w \in Workers : pc[w] = "markOk" /\ hasTradeNo => paidBack >= plan[w].amt
    /\ RefundedIsPaidBack

\* A call that finalises a request either speaks of the order's last one, or
\* the REFUND_FAILED entry keeps it from doing anything.
FinalizerInv ==
    /\ detail.state # "none" => "REFUND_PENDING" \in audit
    /\ \A w \in Workers : Finalizing(w) =>
         /\ plan[w].req <= request.id
         /\ plan[w].req < request.id \/ status \notin Open => "REFUND_FAILED" \in audit
         /\ plan[w].req = request.id =>
              /\ plan[w].amt = request.amt
              /\ request.state # "failed" => status \in Open
              /\ pc[w] \in {"finFail", "finFailNoReturn"} => request.state = "failed"
              /\ status = "REFUND_PENDING" =>
                   /\ plan[w].held <=> detail.state = "held"
                   /\ plan[w].take = CASE detail.state = "held" -> detail.amt
                                       [] detail.state = "kept" -> 0
                                       [] OTHER                 -> refundAmount
         /\ pc[w] = "finOk" => plan[w].req = request.id /\ request.state = "done"
         /\ pc[w] = "finFailNoReturn" => plan[w].held

\* What may be given back was taken, and fits.
MoneyInv ==
    /\ \A w \in Workers : pc[w] \in {"gateway", "rollback", "markPending"} =>
         plan[w].take <= deducted /\ balance + plan[w].take <= MaxBalance
    /\ status = "REFUND_PENDING" /\ detail.state = "held" =>
         detail.amt <= deducted /\ balance + detail.amt <= MaxBalance

Marked == "REFUND_ROLLBACK_FAILED" \in audit

\* The deduction, at every step of the call that has the order.
AccountInv ==
    ~lost =>
      /\ deducted <= OrderAmount
      /\ status \in Refundable => deducted = 0 \/ Marked
      /\ status = "REFUND_PENDING" =>
           /\ ~Marked => deducted = (IF detail.state = "held" THEN detail.amt ELSE 0)
           /\ Marked => detail.state \in {"kept", "held"}
      /\ \A w \in Workers :
           /\ pc[w] \in {"checkMarker", "restore"} => deducted = 0 \/ Marked
           /\ pc[w] = "deduct" => deducted = 0
           /\ pc[w] \in {"gateway", "rollback", "markPending"} =>
                deducted = plan[w].take \/ (Marked /\ plan[w].take = 0)
           /\ pc[w] = "failMark" => Marked

RefundInv == TypeOK /\ OneRefundInFlight /\ RequestInv /\ FinalizerInv /\ MoneyInv /\ AccountInv
-----------------------------------------------------------------------------
(* Types.                                                                   *)

\* Every step changes a plan by one of these three operators.
LEMMA PlansKeepType ==
    ASSUME TypeOK, NEW w \in Workers, NEW s,
           Goto(w, s) \/ Return(w) \/ \E t \in Amounts : Continue(w, s, t)
    PROVE  plan' \in [Workers -> Plans]
<1>1. NoPlan \in Plans
  BY OrderAmountAssumption DEF NoPlan, Plans, Amounts, Statuses, Refundable
<1>2. CASE Goto(w, s)
  BY <1>2 DEF TypeOK, Goto
<1>3. CASE Return(w)
  BY <1>1, <1>3 DEF TypeOK, Return
<1>4. ASSUME NEW t \in Amounts, Continue(w, s, t) PROVE plan' \in [Workers -> Plans]
  BY <1>4 DEF TypeOK, Continue, Plans
<1> QED BY <1>2, <1>3, <1>4

\* The fields of a plan.
LEMMA PlanTypes ==
    ASSUME TypeOK, NEW w \in Workers
    PROVE  /\ plan[w].amt \in Amounts /\ plan[w].take \in Amounts
           /\ plan[w].orig \in Statuses /\ plan[w].req \in Nat
BY DEF TypeOK, Plans

\* The fields of the request and of the detail.
LEMMA RecordTypes ==
    ASSUME TypeOK
    PROVE  /\ request.amt \in Amounts /\ request.id \in Nat
           /\ detail.state \in {"none", "held", "returned", "kept"} /\ detail.amt \in Amounts
BY DEF TypeOK, Requests, Details

\* A finalising call that may still do something speaks of the last request.
LEMMA LastRequest ==
    ASSUME RefundInv, NEW w \in Workers, Finalizing(w), "REFUND_FAILED" \notin audit
    PROVE  plan[w].req = request.id
<1>1. plan[w].req <= request.id /\ ~(plan[w].req < request.id)
  BY DEF RefundInv, FinalizerInv
<1>2. plan[w].req \in Nat /\ request.id \in Nat
  BY PlanTypes, RecordTypes DEF RefundInv
<1> QED BY <1>1, <1>2

\* Amounts stay within their bounds because what is given back was taken before.
LEMMA TypeStep ==
    ASSUME RefundInv, ClaimInv', [Next]_vars
    PROVE  TypeOK'
<1> USE OrderAmountAssumption, MaxBalanceAssumption, FaultsAssumption, SwitchesAssumption
        DEF RefundInv, ClaimInv, TypeOK, Statuses, Refundable, RefundedStatuses,
            orderVars, moneyVars, gatewayVars, faultVars
<1>1. CASE UserSpends
  BY <1>1 DEF UserSpends
<1>2. CASE RequestRefund
  BY <1>2 DEF RequestRefund, Amounts
<1>3. CASE GatewaySettles \/ GatewaySettlesUnseen
  <2>0. Room(0)
    BY DEF RequestInv
  <2>1. CASE GatewaySettles
    <3>1. request' \in Requests
      BY <2>1, RecordTypes DEF GatewaySettles, Requests
    <3>2. paidBack' \in Amounts
      BY <2>0, <2>1, RecordTypes DEF GatewaySettles, Amounts, Room
    <3> QED BY <2>1, <3>1, <3>2 DEF GatewaySettles
  <2>2. CASE GatewaySettlesUnseen
    <3>1. PICK amount \in 1..unseen :
            unseen' = unseen - amount /\ paidBack' \in {paidBack, paidBack + amount}
      BY <2>2 DEF GatewaySettlesUnseen
    <3>2. unseen' \in Amounts /\ paidBack' \in Amounts
      BY <2>0, <3>1, RecordTypes DEF Amounts, Room
    <3> QED BY <2>2, <3>2 DEF GatewaySettlesUnseen
  <2> QED BY <1>3, <2>1, <2>2
<1>4. ASSUME NEW w \in Workers, Execute(w) PROVE TypeOK'
  <2>1. CASE Prepare(w)
    <3>0. PICK amt \in Amounts \ {0}, deduct \in BOOLEAN :
            plan' = [plan EXCEPT ![w] =
                       [amt |-> amt, take |-> IF deduct THEN Least(amt, balance) ELSE 0,
                        orig |-> status, held |-> FALSE, req |-> 0]]
      BY <2>1 DEF Prepare
    <3> DEFINE t == IF deduct THEN Least(amt, balance) ELSE 0
    <3>1. t \in Amounts
      BY DEF Least, Amounts
    <3>2. plan' \in [Workers -> Plans]
      BY <3>0, <3>1 DEF Plans
    <3> QED BY <2>1, <3>2 DEF Prepare
  <2>2. CASE Lock(w)
    <3>1. plan' \in [Workers -> Plans]
      BY <2>2, PlansKeepType DEF Lock
    <3> QED BY <2>2, <3>1 DEF Lock, SetStatus, StillRefundable
  <2>3. CASE CheckMarker(w)
    <3>1. plan' \in [Workers -> Plans]
      <4>1. 0 \in Amounts
        BY DEF Amounts
      <4> QED BY <2>3, <4>1, PlansKeepType DEF CheckMarker
    <3>2. faults' \in 0..MaxFaults /\ lost' \in BOOLEAN
      <4>1. CASE AuditFault
        BY <4>1 DEF AuditFault
      <4>2. CASE UNCHANGED faultVars
        BY <4>2
      <4> QED BY <2>3, <4>1, <4>2 DEF CheckMarker
    <3>3. UNCHANGED <<orderVars, moneyVars, gatewayVars>>
      BY <2>3 DEF CheckMarker
    <3> QED BY <3>1, <3>2, <3>3
  <2>4. CASE Deduct(w)
    <3> DEFINE amount == Available(plan[w].take)
    <3>1. amount \in Amounts /\ amount <= balance
      BY PlanTypes DEF Available, Least, Amounts
    <3>2. plan' \in [Workers -> Plans]
      BY <2>4, <3>1, PlansKeepType DEF Deduct
    <3>3. balance' \in 0..MaxBalance /\ deducted' \in Nat
      <4>1. UNCHANGED moneyVars \/ TakeFromBalance(amount)
        BY <2>4 DEF Deduct
      <4> HIDE DEF amount
      <4> QED BY <3>1, <4>1 DEF TakeFromBalance, Amounts
    <3>4. faults' \in 0..MaxFaults /\ lost' \in BOOLEAN
      <4>1. faults' = faults \/ (faults < MaxFaults /\ faults' = faults + 1)
        BY <2>4 DEF Deduct, Fault, ReplyLost
      <4>2. lost' = lost \/ lost' = TRUE
        BY <2>4 DEF Deduct, Fault, ReplyLost
      <4>3. faults \in 0..MaxFaults /\ lost \in BOOLEAN
        OBVIOUS
      <4> HIDE DEF RefundInv, ClaimInv, TypeOK, amount
      <4>4. faults' \in 0..MaxFaults
        BY <4>1, <4>3
      <4>5. lost' \in BOOLEAN
        BY <4>2, <4>3
      <4> QED BY <4>4, <4>5
    <3> QED BY <2>4, <3>2, <3>3, <3>4 DEF Deduct
  <2>5. CASE GatewaySkipped(w)
    <3>1. plan' \in [Workers -> Plans]
      BY <2>5, PlansKeepType DEF GatewaySkipped
    <3> QED BY <2>5, <3>1 DEF GatewaySkipped
  <2>6. CASE GatewayRefunds(w)
    <3>1. plan' \in [Workers -> Plans]
      BY <2>6, PlansKeepType DEF GatewayRefunds
    <3>2. paidBack' \in Amounts
      BY <2>6, PlanTypes, RecordTypes DEF GatewayRefunds, Amounts, Room
    <3> QED BY <2>6, <3>1, <3>2 DEF GatewayRefunds
  <2>7. CASE GatewayLeavesPending(w)
    <3>1. plan' \in [Workers -> Plans]
      BY <2>7, PlansKeepType DEF GatewayLeavesPending
    <3>2. request' \in Requests
      BY <2>7, PlanTypes, RecordTypes DEF GatewayLeavesPending, Requests
    <3> QED BY <2>7, <3>1, <3>2 DEF GatewayLeavesPending
  <2>8. CASE GatewayRefuses(w)
    <3>1. plan' \in [Workers -> Plans]
      BY <2>8, PlansKeepType DEF GatewayRefuses
    <3> QED BY <2>8, <3>1 DEF GatewayRefuses
  <2>9. CASE GatewayReplyLost(w)
    <3>1. plan' \in [Workers -> Plans]
      BY <2>9, PlansKeepType DEF GatewayReplyLost
    <3>2. paidBack' \in Amounts /\ unseen' \in Amounts
      BY <2>9, PlanTypes, RecordTypes DEF GatewayReplyLost, Amounts, Room
    <3> QED BY <2>9, <3>1, <3>2 DEF GatewayReplyLost
  <2>10. CASE Rollback(w)
    <3>1. plan' \in [Workers -> Plans]
      BY <2>10, PlansKeepType DEF Rollback
    <3>2. balance' \in 0..MaxBalance /\ deducted' \in Nat
      BY <2>10, PlanTypes DEF Rollback, GiveBack, MoneyInv, Amounts
    <3>3. faults' \in 0..MaxFaults /\ UNCHANGED lost
      BY <2>10 DEF Rollback, Fault
    <3> QED BY <2>10, <3>1, <3>2, <3>3 DEF Rollback
  <2>11. CASE RollbackAudit(w)
    <3>1. plan' \in [Workers -> Plans]
      BY <2>11, PlansKeepType DEF RollbackAudit
    <3>2. audit' \subseteq AuditActions
      BY <2>11 DEF RollbackAudit, AuditActions
    <3>3. faults' \in 0..MaxFaults /\ lost' \in BOOLEAN
      <4>1. CASE AuditFault
        BY <4>1 DEF AuditFault
      <4>2. CASE UNCHANGED faultVars
        BY <4>2
      <4> QED BY <2>11, <4>1, <4>2 DEF RollbackAudit
    <3>4. UNCHANGED <<status, refundAmount, detail, hasTradeNo, moneyVars, gatewayVars>>
      BY <2>11 DEF RollbackAudit
    <3> QED BY <3>1, <3>2, <3>3, <3>4
  <2>12. CASE Restore(w)
    <3>1. plan' \in [Workers -> Plans]
      BY <2>12, PlansKeepType DEF Restore
    <3> QED BY <2>12, <3>1 DEF Restore, SetStatus
  <2>13. CASE FailMark(w)
    <3>1. plan' \in [Workers -> Plans]
      BY <2>13, PlansKeepType DEF FailMark
    <3> QED BY <2>13, <3>1 DEF FailMark, SetStatus
  <2>14. CASE FailAudit(w)
    <3>1. plan' \in [Workers -> Plans]
      BY <2>14, PlansKeepType DEF FailAudit
    <3>2. audit' \subseteq AuditActions
      BY <2>14 DEF FailAudit, AuditActions
    <3> QED BY <2>14, <3>1, <3>2 DEF FailAudit
  <2>15. CASE MarkOk(w)
    <3>1. plan' \in [Workers -> Plans]
      BY <2>15, PlansKeepType DEF MarkOk
    <3>2. audit' \subseteq AuditActions /\ refundAmount' \in Amounts
      BY <2>15, PlanTypes DEF MarkOk, AuditActions
    <3> QED BY <2>15, <3>1, <3>2 DEF MarkOk, FinalStatus
  <2>16. CASE MarkPending(w)
    <3>1. plan' \in [Workers -> Plans]
      BY <2>16, PlansKeepType DEF MarkPending
    <3>2. audit' \subseteq AuditActions /\ refundAmount' \in Amounts
      BY <2>16, PlanTypes DEF MarkPending, AuditActions
    <3>3. [state |-> "held", amt |-> Held(w)] \in Details
      BY PlanTypes DEF Held, Details
    <3>4. detail' \in Details
      BY <2>16, <3>3 DEF MarkPending
    <3> QED BY <2>16, <3>1, <3>2, <3>4 DEF MarkPending
  <2>17. CASE GatewayRepeats(w)
    <3>1. plan' \in [Workers -> Plans]
      BY <2>17, PlansKeepType DEF GatewayRepeats
    <3>2. request' \in Requests /\ unseen' \in Amounts
      BY <2>17, PlanTypes, RecordTypes DEF GatewayRepeats, Requests, Amounts
    <3> QED BY <2>17, <3>1, <3>2 DEF GatewayRepeats
  <2> QED BY <1>4, <2>1, <2>2, <2>3, <2>4, <2>5, <2>6, <2>7, <2>8, <2>9, <2>10,
             <2>11, <2>12, <2>13, <2>14, <2>15, <2>16, <2>17 DEF Execute
<1>5. ASSUME NEW w \in Workers, Finalize(w) PROVE TypeOK'
  <2>1. CASE StartFinalize(w)
    <3> DEFINE t == CASE detail.state = "held" -> detail.amt
                       [] detail.state = "kept" -> 0
                       [] OTHER                 -> refundAmount
    <3>1. t \in Amounts
      BY RecordTypes DEF Amounts
    <3>2. [amt |-> refundAmount, take |-> t, orig |-> status,
           held |-> detail.state = "held", req |-> request.id] \in Plans
      BY <3>1, RecordTypes DEF Plans
    <3>3. plan' \in [Workers -> Plans]
      BY <2>1, <3>2 DEF StartFinalize
    <3> QED BY <2>1, <3>3 DEF StartFinalize
  <2>2. CASE QueryRefund(w)
    <3>1. plan' \in [Workers -> Plans]
      BY <2>2, PlansKeepType DEF QueryRefund
    <3> QED BY <2>2, <3>1 DEF QueryRefund
  <2>3. CASE FinalizeOk(w)
    <3>1. plan' \in [Workers -> Plans]
      BY <2>3, PlansKeepType DEF FinalizeOk
    <3>2. audit' \subseteq AuditActions /\ refundAmount' \in Amounts
      BY <2>3, PlanTypes DEF FinalizeOk, AuditActions
    <3>3. balance' \in 0..MaxBalance /\ deducted' \in Nat
      <4>1. Available(plan[w].take) \in 0..balance
        BY PlanTypes DEF Available, Least, Amounts
      <4> QED BY <2>3, <4>1 DEF FinalizeOk, TakeFromBalance
    <3> QED BY <2>3, <3>1, <3>2, <3>3 DEF FinalizeOk, FinalStatus
  <2>4. CASE FinalizeFailed(w)
    <3>1. plan' \in [Workers -> Plans]
      BY <2>4, PlansKeepType DEF FinalizeFailed
    <3>2. audit' \subseteq AuditActions
      BY <2>4 DEF FinalizeFailed, AuditActions
    <3>3. balance' \in 0..MaxBalance /\ deducted' \in Nat
      <4>1. CASE status = "REFUND_PENDING" /\ "REFUND_FAILED" \notin audit
        <5>1. plan[w].req = request.id
          BY <2>4, <4>1, LastRequest DEF FinalizeFailed, Finalizing
        <5>2. ToReturn(w) \in 0..deducted /\ balance + ToReturn(w) <= MaxBalance
          BY <2>4, <4>1, <5>1, PlanTypes, RecordTypes
             DEF FinalizeFailed, ToReturn, FinalizerInv, Finalizing, MoneyInv, Amounts
        <5> QED BY <2>4, <5>2 DEF FinalizeFailed, GiveBack
      <4>2. CASE ~(status = "REFUND_PENDING" /\ "REFUND_FAILED" \notin audit)
        BY <2>4, <4>2 DEF FinalizeFailed, PendingClaimed
      <4> QED BY <4>1, <4>2
    <3>4. faults' \in 0..MaxFaults /\ UNCHANGED lost
      BY <2>4 DEF FinalizeFailed, Fault
    <3> QED BY <2>4, <3>1, <3>2, <3>3, <3>4 DEF FinalizeFailed
  <2>5. CASE FinalizeFailedNoReturn(w)
    <3>1. plan' \in [Workers -> Plans]
      BY <2>5, PlansKeepType DEF FinalizeFailedNoReturn
    <3>2. audit' \subseteq AuditActions
      BY <2>5 DEF FinalizeFailedNoReturn, AuditActions
    <3> QED BY <2>5, <3>1, <3>2 DEF FinalizeFailedNoReturn
  <2> QED BY <1>5, <2>1, <2>2, <2>3, <2>4, <2>5 DEF Finalize
<1>6. ASSUME NEW w \in Workers, Die(w) PROVE TypeOK'
  <2>1. plan' \in [Workers -> Plans]
    BY <1>6, PlansKeepType DEF Die
  <2> QED BY <1>6, <2>1 DEF Die, Fault
<1>7. CASE UNCHANGED vars
  BY <1>7 DEF vars
<1> QED BY <1>1, <1>2, <1>3, <1>4, <1>5, <1>6, <1>7 DEF Next

\* The gateway's side.
LEMMA RequestStep ==
    ASSUME RefundInv, [Next]_vars
    PROVE  RequestInv'
<1> USE OrderAmountAssumption, MaxBalanceAssumption, FaultsAssumption, SwitchesAssumption
        DEF RefundInv, RequestInv, FinalizerInv, RefundedIsPaidBack, Room, TypeOK, Plans,
            Requests, Amounts, OneRefundInFlight, Executing, ExecutingSteps,
            Finalizing, Open, Refundable, RefundedStatuses, orderVars, moneyVars,
            gatewayVars, faultVars
<1>1. CASE UserSpends
  BY <1>1 DEF UserSpends
<1>2. CASE RequestRefund
  BY <1>2 DEF RequestRefund
<1>3. CASE GatewaySettles \/ GatewaySettlesUnseen
  BY <1>3 DEF GatewaySettles, GatewaySettlesUnseen
<1>4. ASSUME NEW w \in Workers, Execute(w) PROVE RequestInv'
  <2>1. CASE Prepare(w)
    BY <2>1 DEF Prepare, Least
  <2>2. CASE Lock(w)
    BY <2>2 DEF Lock, Goto, Return, SetStatus, StillRefundable
  <2>3. CASE CheckMarker(w)
    BY <2>3 DEF CheckMarker, Goto, Continue, AuditFault, StillDeducted
  <2>4. CASE Deduct(w)
    BY <2>4 DEF Deduct, Least, Goto, Continue, Fault, ReplyLost, Available, TakeFromBalance
  <2>5. CASE GatewaySkipped(w)
    BY <2>5 DEF GatewaySkipped, Goto
  <2>6. CASE GatewayRefunds(w)
    BY <2>6 DEF GatewayRefunds, Goto
  <2>7. CASE GatewayLeavesPending(w)
    BY <2>7 DEF GatewayLeavesPending, Goto, AfterPending
  <2>8. CASE GatewayRefuses(w)
    BY <2>8 DEF GatewayRefuses, Goto
  <2>9. CASE GatewayReplyLost(w)
    BY <2>9 DEF GatewayReplyLost, Goto
  <2>10. CASE Rollback(w)
    BY <2>10 DEF Rollback, Goto, Fault, GiveBack
  <2>11. CASE RollbackAudit(w)
    BY <2>11 DEF RollbackAudit, Goto, AuditFault
  <2>12. CASE Restore(w)
    BY <2>12 DEF Restore, Return, SetStatus
  <2>13. CASE FailMark(w)
    BY <2>13 DEF FailMark, Goto, SetStatus
  <2>14. CASE FailAudit(w)
    BY <2>14 DEF FailAudit, Return
  <2>15. CASE MarkOk(w)
    BY <2>15 DEF MarkOk, Return, FinalStatus
  <2>16. CASE MarkPending(w)
    BY <2>16 DEF MarkPending, Return, Held
  <2>17. CASE GatewayRepeats(w)
    BY <2>17 DEF GatewayRepeats, AfterPending, Goto
  <2> QED BY <1>4, <2>1, <2>2, <2>3, <2>4, <2>5, <2>6, <2>7, <2>8, <2>9, <2>10,
             <2>11, <2>12, <2>13, <2>14, <2>15, <2>16, <2>17 DEF Execute
<1>5. ASSUME NEW w \in Workers, Finalize(w) PROVE RequestInv'
  <2>1. CASE StartFinalize(w)
    BY <2>1 DEF StartFinalize
  <2>2. CASE QueryRefund(w)
    BY <2>2 DEF QueryRefund, Goto, Return
  <2>3. CASE FinalizeOk(w)
    BY <2>3 DEF FinalizeOk, Least, Return, Available, TakeFromBalance, FinalStatus, PendingClaimed
  <2>4. CASE FinalizeFailed(w)
    <3>1. /\ UNCHANGED <<request, unseen, paidBack, refundAmount, hasTradeNo>>
          /\ pc[w] = "finFail" /\ pc'[w] \in {"idle", "finFailNoReturn"}
          /\ \A v \in Workers : v # w => pc'[v] = pc[v] /\ plan'[v] = plan[v]
          /\ plan'[w].req = plan[w].req \/ pc'[w] = "idle"
      BY <2>4 DEF FinalizeFailed, Return, Goto
    <3>2. CASE UNCHANGED status
      BY <3>1, <3>2
    <3>3. CASE status = "REFUND_PENDING" /\ "REFUND_FAILED" \notin audit /\ status' = "REFUND_FAILED"
      <4>1. request.state = "failed"
        <5>1. plan[w].req = request.id
          BY <3>1, <3>3, LastRequest
        <5> QED BY <3>1, <5>1
      <4> QED BY <3>1, <3>3, <4>1
    <3> QED BY <2>4, <3>2, <3>3 DEF FinalizeFailed, PendingClaimed
  <2>5. CASE FinalizeFailedNoReturn(w)
    <3>1. /\ UNCHANGED <<request, unseen, paidBack, refundAmount, hasTradeNo>>
          /\ pc' = [pc EXCEPT ![w] = "idle"] /\ plan' = [plan EXCEPT ![w] = NoPlan]
          /\ pc[w] = "finFailNoReturn"
      BY <2>5 DEF FinalizeFailedNoReturn, Return
    <3>2. CASE UNCHANGED status
      BY <3>1, <3>2
    <3>3. CASE status = "REFUND_PENDING" /\ "REFUND_FAILED" \notin audit /\ status' = "REFUND_FAILED"
      <4>1. request.state = "failed"
        <5>1. plan[w].req = request.id
          BY <3>1, <3>3, LastRequest
        <5> QED BY <3>1, <5>1
      <4> QED BY <3>1, <3>3, <4>1
    <3> QED BY <2>5, <3>2, <3>3 DEF FinalizeFailedNoReturn, PendingClaimed
  <2> QED BY <1>5, <2>1, <2>2, <2>3, <2>4, <2>5 DEF Finalize
<1>6. ASSUME NEW w \in Workers, Die(w) PROVE RequestInv'
  BY <1>6 DEF Die, Return, Fault
<1>7. CASE UNCHANGED vars
  BY <1>7 DEF vars
<1> QED BY <1>1, <1>2, <1>3, <1>4, <1>5, <1>6, <1>7 DEF Next

\* The finalising calls.
LEMMA FinalizerStep ==
    ASSUME RefundInv, [Next]_vars
    PROVE  FinalizerInv'
<1> USE OrderAmountAssumption, MaxBalanceAssumption, FaultsAssumption, SwitchesAssumption
        DEF RefundInv, FinalizerInv, RequestInv, TypeOK, Plans, Requests, Details,
            OneRefundInFlight, Executing, ExecutingSteps, Finalizing, Open,
            Refundable, RefundedStatuses, orderVars, moneyVars, gatewayVars,
            faultVars
<1>1. CASE UserSpends
  BY <1>1 DEF UserSpends
<1>2. CASE RequestRefund
  BY <1>2 DEF RequestRefund
<1>3. CASE GatewaySettles \/ GatewaySettlesUnseen
  BY <1>3 DEF GatewaySettles, GatewaySettlesUnseen
<1>4. ASSUME NEW w \in Workers, Execute(w) PROVE FinalizerInv'
  <2>1. CASE Prepare(w)
    BY <2>1 DEF Prepare, Least
  <2>2. CASE Lock(w)
    BY <2>2 DEF Lock, Goto, Return, SetStatus, StillRefundable
  <2>3. CASE CheckMarker(w)
    BY <2>3 DEF CheckMarker, Goto, Continue, AuditFault, StillDeducted
  <2>4. CASE Deduct(w)
    BY <2>4 DEF Deduct, Least, Goto, Continue, Fault, ReplyLost, Available, TakeFromBalance
  <2>5. CASE GatewaySkipped(w)
    BY <2>5 DEF GatewaySkipped, Goto
  <2>6. CASE GatewayRefunds(w)
    BY <2>6 DEF GatewayRefunds, Goto
  <2>7. CASE GatewayLeavesPending(w)
    BY <2>7 DEF GatewayLeavesPending, Goto, AfterPending
  <2>8. CASE GatewayRefuses(w)
    BY <2>8 DEF GatewayRefuses, Goto
  <2>9. CASE GatewayReplyLost(w)
    BY <2>9 DEF GatewayReplyLost, Goto
  <2>10. CASE Rollback(w)
    BY <2>10 DEF Rollback, Goto, Fault, GiveBack
  <2>11. CASE RollbackAudit(w)
    BY <2>11 DEF RollbackAudit, Goto, AuditFault
  <2>12. CASE Restore(w)
    BY <2>12 DEF Restore, Return, SetStatus
  <2>13. CASE FailMark(w)
    BY <2>13 DEF FailMark, Goto, SetStatus
  <2>14. CASE FailAudit(w)
    BY <2>14 DEF FailAudit, Return
  <2>15. CASE MarkOk(w)
    BY <2>15 DEF MarkOk, Return, FinalStatus
  <2>16. CASE MarkPending(w)
    BY <2>16 DEF MarkPending, Return, Held
  <2>17. CASE GatewayRepeats(w)
    BY <2>17 DEF GatewayRepeats, AfterPending, Goto
  <2> QED BY <1>4, <2>1, <2>2, <2>3, <2>4, <2>5, <2>6, <2>7, <2>8, <2>9, <2>10,
             <2>11, <2>12, <2>13, <2>14, <2>15, <2>16, <2>17 DEF Execute
<1>5. ASSUME NEW w \in Workers, Finalize(w) PROVE FinalizerInv'
  <2>1. CASE StartFinalize(w)
    <3> DEFINE t == CASE detail.state = "held" -> detail.amt
                       [] detail.state = "kept" -> 0
                       [] OTHER                 -> refundAmount
               p == [amt |-> refundAmount, take |-> t, orig |-> status,
                     held |-> detail.state = "held", req |-> request.id]
    <3>1. /\ UNCHANGED <<orderVars, request>> /\ status = "REFUND_PENDING"
          /\ pc' = [pc EXCEPT ![w] = "queryRefund"]
          /\ plan' = [plan EXCEPT ![w] = p]
      BY <2>1 DEF StartFinalize
    <3>2. /\ \A v \in Workers : v # w => pc'[v] = pc[v] /\ plan'[v] = plan[v]
          /\ pc'[w] = "queryRefund" /\ plan'[w] = p
      BY <3>1
    <3>3. /\ p.amt = request.amt /\ p.req = request.id /\ p.take = t
          /\ p.held <=> detail.state = "held"
      BY <3>1
    <3> HIDE DEF p
    <3>4. \A v \in Workers : v # w =>
            /\ Finalizing(v)' <=> Finalizing(v)
            /\ pc'[v] = pc[v] /\ plan'[v] = plan[v]
      BY <3>2
    <3> QED BY <3>1, <3>2, <3>3, <3>4, RecordTypes
  <2>2. CASE QueryRefund(w)
    BY <2>2 DEF QueryRefund, Goto, Return
  <2>3. CASE FinalizeOk(w)
    BY <2>3 DEF FinalizeOk, Least, Return, Available, TakeFromBalance, FinalStatus, PendingClaimed
  <2>4. CASE FinalizeFailed(w)
    BY <2>4 DEF FinalizeFailed, Goto, Return, Fault, GiveBack, PendingClaimed, ToReturn
  <2>5. CASE FinalizeFailedNoReturn(w)
    <3>1. /\ UNCHANGED <<request, detail, refundAmount>>
          /\ pc'[w] = "idle"
          /\ \A v \in Workers : v # w => pc'[v] = pc[v] /\ plan'[v] = plan[v]
      BY <2>5 DEF FinalizeFailedNoReturn, Return
    <3>2. CASE UNCHANGED <<status, audit>>
      BY <3>1, <3>2
    <3>3. CASE /\ "REFUND_FAILED" \notin audit /\ status' = "REFUND_FAILED"
               /\ audit' = audit \cup {"REFUND_ROLLBACK_FAILED", "REFUND_FAILED"}
      <4>1. request.state = "failed"
        <5>1. Finalizing(w) /\ pc[w] = "finFailNoReturn"
          BY <2>5 DEF FinalizeFailedNoReturn
        <5>2. plan[w].req = request.id
          BY <3>3, <5>1, LastRequest
        <5> QED BY <5>1, <5>2
      <4>2. "REFUND_FAILED" \in audit' /\ status' # "REFUND_PENDING"
        BY <3>3
      <4> QED BY <3>1, <3>3, <4>1, <4>2
    <3> QED BY <2>5, <3>2, <3>3 DEF FinalizeFailedNoReturn
  <2> QED BY <1>5, <2>1, <2>2, <2>3, <2>4, <2>5 DEF Finalize
<1>6. ASSUME NEW w \in Workers, Die(w) PROVE FinalizerInv'
  BY <1>6 DEF Die, Return, Fault
<1>7. CASE UNCHANGED vars
  BY <1>7 DEF vars
<1> QED BY <1>1, <1>2, <1>3, <1>4, <1>5, <1>6, <1>7 DEF Next

\* What can be given back.
LEMMA MoneyStep ==
    ASSUME RefundInv, [Next]_vars
    PROVE  MoneyInv'
<1> USE OrderAmountAssumption, MaxBalanceAssumption, FaultsAssumption, SwitchesAssumption
        DEF RefundInv, MoneyInv, FinalizerInv, TypeOK, Plans, Details, Amounts,
            OneRefundInFlight, Executing, ExecutingSteps, Finalizing, Open,
            Refundable, RefundedStatuses, orderVars, moneyVars, gatewayVars,
            faultVars
<1>1. CASE UserSpends
  BY <1>1 DEF UserSpends
<1>2. CASE RequestRefund
  BY <1>2 DEF RequestRefund
<1>3. CASE GatewaySettles \/ GatewaySettlesUnseen
  BY <1>3 DEF GatewaySettles, GatewaySettlesUnseen
<1>4. ASSUME NEW w \in Workers, Execute(w) PROVE MoneyInv'
  <2>1. CASE Prepare(w)
    BY <2>1 DEF Prepare, Least
  <2>2. CASE Lock(w)
    BY <2>2 DEF Lock, Goto, Return, SetStatus, StillRefundable
  <2>3. CASE CheckMarker(w)
    BY <2>3 DEF CheckMarker, Goto, Continue, AuditFault, StillDeducted
  <2>4. CASE Deduct(w)
    BY <2>4 DEF Deduct, Least, Goto, Continue, Fault, ReplyLost, Available, TakeFromBalance
  <2>5. CASE GatewaySkipped(w)
    BY <2>5 DEF GatewaySkipped, Goto
  <2>6. CASE GatewayRefunds(w)
    BY <2>6 DEF GatewayRefunds, Goto
  <2>7. CASE GatewayLeavesPending(w)
    BY <2>7 DEF GatewayLeavesPending, Goto, AfterPending
  <2>8. CASE GatewayRefuses(w)
    BY <2>8 DEF GatewayRefuses, Goto
  <2>9. CASE GatewayReplyLost(w)
    BY <2>9 DEF GatewayReplyLost, Goto
  <2>10. CASE Rollback(w)
    BY <2>10 DEF Rollback, Goto, Fault, GiveBack
  <2>11. CASE RollbackAudit(w)
    BY <2>11 DEF RollbackAudit, Goto, AuditFault
  <2>12. CASE Restore(w)
    BY <2>12 DEF Restore, Return, SetStatus
  <2>13. CASE FailMark(w)
    BY <2>13 DEF FailMark, Goto, SetStatus
  <2>14. CASE FailAudit(w)
    BY <2>14 DEF FailAudit, Return
  <2>15. CASE MarkOk(w)
    BY <2>15 DEF MarkOk, Return, FinalStatus
  <2>16. CASE MarkPending(w)
    BY <2>16 DEF MarkPending, Return, Held
  <2>17. CASE GatewayRepeats(w)
    BY <2>17 DEF GatewayRepeats, AfterPending, Goto
  <2> QED BY <1>4, <2>1, <2>2, <2>3, <2>4, <2>5, <2>6, <2>7, <2>8, <2>9, <2>10,
             <2>11, <2>12, <2>13, <2>14, <2>15, <2>16, <2>17 DEF Execute
<1>5. ASSUME NEW w \in Workers, Finalize(w) PROVE MoneyInv'
  <2>1. CASE StartFinalize(w)
    BY <2>1 DEF StartFinalize
  <2>2. CASE QueryRefund(w)
    BY <2>2 DEF QueryRefund, Goto, Return
  <2>3. CASE FinalizeOk(w)
    BY <2>3 DEF FinalizeOk, Least, Return, Available, TakeFromBalance, FinalStatus, PendingClaimed
  <2>4. CASE FinalizeFailed(w)
    BY <2>4 DEF FinalizeFailed, Goto, Return, Fault, GiveBack, PendingClaimed, ToReturn
  <2>5. CASE FinalizeFailedNoReturn(w)
    BY <2>5 DEF FinalizeFailedNoReturn, Return, PendingClaimed
  <2> QED BY <1>5, <2>1, <2>2, <2>3, <2>4, <2>5 DEF Finalize
<1>6. ASSUME NEW w \in Workers, Die(w) PROVE MoneyInv'
  BY <1>6 DEF Die, Return, Fault
<1>7. CASE UNCHANGED vars
  BY <1>7 DEF vars
<1> QED BY <1>1, <1>2, <1>3, <1>4, <1>5, <1>6, <1>7 DEF Next

\* What is deducted.
LEMMA AccountStep ==
    ASSUME RefundInv, [Next]_vars
    PROVE  AccountInv'
<1> USE OrderAmountAssumption, MaxBalanceAssumption, FaultsAssumption, SwitchesAssumption
        DEF RefundInv, AccountInv, FinalizerInv, RequestInv, TypeOK, Plans, Details,
            Amounts, Marked, OneRefundInFlight, Executing, ExecutingSteps,
            Finalizing, Open, Refundable, RefundedStatuses, orderVars, moneyVars,
            gatewayVars, faultVars
<1>1. CASE UserSpends
  BY <1>1 DEF UserSpends
<1>2. CASE RequestRefund
  BY <1>2 DEF RequestRefund
<1>3. CASE GatewaySettles \/ GatewaySettlesUnseen
  BY <1>3 DEF GatewaySettles, GatewaySettlesUnseen
<1>4. ASSUME NEW w \in Workers, Execute(w) PROVE AccountInv'
  <2>1. CASE Prepare(w)
    BY <2>1 DEF Prepare, Least
  <2>2. CASE Lock(w)
    BY <2>2 DEF Lock, Goto, Return, SetStatus, StillRefundable
  <2>3. CASE CheckMarker(w)
    BY <2>3 DEF CheckMarker, Goto, Continue, AuditFault, StillDeducted
  <2>4. CASE Deduct(w)
    BY <2>4 DEF Deduct, Least, Goto, Continue, Fault, ReplyLost, Available, TakeFromBalance
  <2>5. CASE GatewaySkipped(w)
    BY <2>5 DEF GatewaySkipped, Goto
  <2>6. CASE GatewayRefunds(w)
    BY <2>6 DEF GatewayRefunds, Goto
  <2>7. CASE GatewayLeavesPending(w)
    BY <2>7 DEF GatewayLeavesPending, Goto, AfterPending
  <2>8. CASE GatewayRefuses(w)
    BY <2>8 DEF GatewayRefuses, Goto
  <2>9. CASE GatewayReplyLost(w)
    BY <2>9 DEF GatewayReplyLost, Goto
  <2>10. CASE Rollback(w)
    BY <2>10 DEF Rollback, Goto, Fault, GiveBack
  <2>11. CASE RollbackAudit(w)
    BY <2>11 DEF RollbackAudit, Goto, AuditFault
  <2>12. CASE Restore(w)
    BY <2>12 DEF Restore, Return, SetStatus
  <2>13. CASE FailMark(w)
    BY <2>13 DEF FailMark, Goto, SetStatus
  <2>14. CASE FailAudit(w)
    BY <2>14 DEF FailAudit, Return
  <2>15. CASE MarkOk(w)
    BY <2>15 DEF MarkOk, Return, FinalStatus
  <2>16. CASE MarkPending(w)
    BY <2>16 DEF MarkPending, Return, Held
  <2>17. CASE GatewayRepeats(w)
    BY <2>17 DEF GatewayRepeats, AfterPending, Goto
  <2> QED BY <1>4, <2>1, <2>2, <2>3, <2>4, <2>5, <2>6, <2>7, <2>8, <2>9, <2>10,
             <2>11, <2>12, <2>13, <2>14, <2>15, <2>16, <2>17 DEF Execute
<1>5. ASSUME NEW w \in Workers, Finalize(w) PROVE AccountInv'
  <2>1. CASE StartFinalize(w)
    BY <2>1 DEF StartFinalize
  <2>2. CASE QueryRefund(w)
    BY <2>2 DEF QueryRefund, Goto, Return
  <2>3. CASE FinalizeOk(w)
    BY <2>3 DEF FinalizeOk, Least, Return, Available, TakeFromBalance, FinalStatus, PendingClaimed
  <2>4. CASE FinalizeFailed(w)
    <3>1. CASE status = "REFUND_PENDING" /\ "REFUND_FAILED" \notin audit /\ faults' = faults
      <4>1. plan[w].req = request.id
        BY <2>4, <3>1, LastRequest DEF FinalizeFailed
      <4>2. ToReturn(w) = IF detail.state = "held" THEN detail.amt ELSE 0
        BY <2>4, <3>1, <4>1 DEF FinalizeFailed, ToReturn
      <4>3. CASE lost
        BY <2>4, <3>1, <4>3 DEF FinalizeFailed, Fault
      <4>4. CASE ~lost
        <5>1. deducted' = deducted - ToReturn(w) /\ status' = "REFUND_FAILED" /\ ~lost'
              /\ audit' = audit \cup {"REFUND_FAILED"}
              /\ pc' = [pc EXCEPT ![w] = "idle"] /\ plan' = [plan EXCEPT ![w] = NoPlan]
          BY <2>4, <3>1, <4>4 DEF FinalizeFailed, Fault, PendingClaimed, GiveBack, Return
        <5>2. ToReturn(w) \in Nat /\ deducted \in Nat /\ deducted <= OrderAmount
          BY <4>2, <4>4, RecordTypes
        <5>3. deducted' <= OrderAmount /\ (deducted' = 0 \/ Marked')
          BY <3>1, <4>2, <4>4, <5>1, <5>2
        <5>4. \A v \in Workers : pc'[v] \notin ExecutingSteps \ {"failAudit"}
          BY <3>1, <5>1
        <5> QED BY <5>1, <5>3, <5>4
      <4> QED BY <4>3, <4>4
    <3>2. CASE ~(status = "REFUND_PENDING" /\ "REFUND_FAILED" \notin audit) \/ faults' # faults
      BY <2>4, <3>2 DEF FinalizeFailed, Goto, Return, Fault, PendingClaimed
    <3> QED BY <3>1, <3>2
  <2>5. CASE FinalizeFailedNoReturn(w)
    BY <2>5 DEF FinalizeFailedNoReturn, Return, PendingClaimed
  <2> QED BY <1>5, <2>1, <2>2, <2>3, <2>4, <2>5 DEF Finalize
<1>6. ASSUME NEW w \in Workers, Die(w) PROVE AccountInv'
  BY <1>6 DEF Die, Return, Fault
<1>7. CASE UNCHANGED vars
  BY <1>7 DEF vars
<1> QED BY <1>1, <1>2, <1>3, <1>4, <1>5, <1>6, <1>7 DEF Next

-----------------------------------------------------------------------------
(* The invariant, and what follows from it.                                 *)

\* RefundInv holds of a completed order and of what older versions left.
LEMMA RefundInit == Init => RefundInv
<1> SUFFICES ASSUME Init PROVE RefundInv
  OBVIOUS
<1> USE OrderAmountAssumption, MaxBalanceAssumption, FaultsAssumption, SwitchesAssumption
<1>1. \A w \in Workers : pc[w] = "idle" /\ plan[w] = NoPlan
  BY DEF Init
<1>2. TypeOK
  <2>1. NoPlan \in Plans
    BY DEF NoPlan, Plans, Amounts, Statuses, Refundable
  <2>2. plan \in [Workers -> Plans] /\ pc \in [Workers -> Steps]
    BY <2>1 DEF Init, Steps
  <2>0. 0 \in Amounts /\ 0 \in Nat
    BY DEF Amounts
  <2>3. request \in Requests /\ refundAmount \in Amounts /\ status \in Statuses /\ hasTradeNo \in BOOLEAN
    <3>1. CASE status = "COMPLETED"
      <4>1. /\ refundAmount = 0 /\ hasTradeNo \in BOOLEAN
            /\ request = [state |-> "none", amt |-> 0, id |-> 0]
        BY <3>1 DEF Init
      <4>2. request \in Requests
        BY <4>1, <2>0 DEF Requests
      <4> QED BY <3>1, <4>1, <4>2, <2>0 DEF Statuses, Refundable
    <3>2. CASE status = "REFUND_PENDING"
      <4>1. /\ refundAmount \in Amounts /\ hasTradeNo \in BOOLEAN
            /\ request = [state |-> "pending", amt |-> refundAmount, id |-> 0]
        BY <3>2 DEF Init
      <4>2. request \in Requests
        BY <4>1, <2>0 DEF Requests
      <4> QED BY <3>2, <4>1, <4>2 DEF Statuses, Refundable
    <3> QED BY <3>1, <3>2 DEF Init
  <2>4. detail \in Details
    BY DEF Init, Details, NoDetail, Amounts
  <2>5. audit \subseteq AuditActions
    BY DEF Init, AuditActions
  <2>6. deducted \in Nat
    <3>1. deducted = (IF detail.state = "kept" THEN refundAmount ELSE 0)
      BY DEF Init
    <3> QED BY <3>1, <2>3 DEF Amounts
  <2>7. balance \in 0..MaxBalance /\ paidBack \in Amounts /\ unseen \in Amounts
        /\ faults \in 0..MaxFaults
    <3>1. balance \in 0..MaxBalance /\ paidBack = 0 /\ unseen = 0 /\ faults = 0
      BY DEF Init
    <3> QED BY <3>1 DEF Amounts
  <2>8. lost \in BOOLEAN
    BY DEF Init
  <2> QED BY <2>2, <2>3, <2>4, <2>5, <2>6, <2>7, <2>8 DEF TypeOK
<1>3. OneRefundInFlight
  BY <1>1 DEF OneRefundInFlight, Executing, ExecutingSteps
<1>4. RequestInv
  BY <1>1 DEF Init, RequestInv, RefundedIsPaidBack, RefundedStatuses, Open, Executing, ExecutingSteps,
     Amounts, Room
<1>5. FinalizerInv
  BY <1>1 DEF Init, FinalizerInv, Finalizing, NoDetail
<1>6. MoneyInv
  BY <1>1 DEF Init, MoneyInv, NoDetail
<1>7. AccountInv
  <2>1. CASE status = "COMPLETED"
    BY <1>1, <2>1 DEF Init, AccountInv, NoDetail, Amounts
  <2>2. CASE status = "REFUND_PENDING"
    <3>1. deducted <= OrderAmount
      BY <2>2 DEF Init, Amounts
    <3>2. Marked <=> detail.state = "kept"
      BY <2>2 DEF Init, Marked
    <3>3. detail.state # "held" /\ (detail.state # "kept" => deducted = 0)
      BY <2>2 DEF Init
    <3> QED BY <1>1, <2>2, <3>1, <3>2, <3>3 DEF AccountInv, Refundable
  <2> QED BY <2>1, <2>2 DEF Init
<1> QED BY <1>2, <1>3, <1>4, <1>5, <1>6, <1>7 DEF RefundInv

\* RefundInv is inductive, for all amounts and any number of calls and faults.
LEMMA RefundStep == RefundInv /\ [Next]_vars => RefundInv'
<1> SUFFICES ASSUME RefundInv, [Next]_vars PROVE RefundInv'
  OBVIOUS
<1>1. ClaimInv'
  BY ClaimStep DEF RefundInv, TypeOK, ClaimInv
<1>2. OneRefundInFlight'
  BY <1>1 DEF ClaimInv
<1>3. TypeOK'
  BY <1>1, TypeStep
<1>4. RequestInv' /\ FinalizerInv'
  BY RequestStep, FinalizerStep
<1>5. MoneyInv' /\ AccountInv'
  BY MoneyStep, AccountStep
<1> QED BY <1>2, <1>3, <1>4, <1>5 DEF RefundInv

\* Every variable keeps its type: among them the balance, which no return of a
\* deduction takes above what it was.
THEOREM TypeCorrect == Spec => []TypeOK
<1>1. RefundInv => TypeOK
  BY DEF RefundInv
<1> QED BY <1>1, RefundInit, RefundStep, PTL DEF Spec

\* While no audit statement failed and no committed deduction was reported as an
\* error, all attempts together, with their retries, rollbacks and
\* finalisations, never take more than the order credited.
THEOREM DeductedAtMostOnce == Spec => []NoDoubleDeduction
<1>1. RefundInv => NoDoubleDeduction
  BY DEF RefundInv, AccountInv, NoDoubleDeduction
<1> QED BY <1>1, RefundInit, RefundStep, PTL DEF Spec

\* While no audit statement failed and no committed deduction was reported as an
\* error, an order that may be refunded again holds no deduction, or the marker
\* that keeps the next attempt from deducting.
THEOREM FailureIsReturned == Spec => []FailedRefundIsReturned
<1>1. RefundInv => FailedRefundIsReturned
  BY DEF RefundInv, AccountInv, FailedRefundIsReturned, Marked
<1> QED BY <1>1, RefundInit, RefundStep, PTL DEF Spec

\* While no audit statement failed and no committed deduction was reported as an
\* error, the detail of a pending refund names exactly what is held.
THEOREM DetailIsHeld == Spec => []PendingDetailIsHeld
<1>1. RefundInv => PendingDetailIsHeld
  BY DEF RefundInv, AccountInv, PendingDetailIsHeld, Marked
<1> QED BY <1>1, RefundInit, RefundStep, PTL DEF Spec

\* An order that is called refunded was refunded by the gateway, whatever was
\* lost and whichever call found out.
THEOREM RefundIsPaidBack == Spec => []RefundedIsPaidBack
<1>1. RefundInv => RefundedIsPaidBack
  BY DEF RefundInv, RequestInv
<1> QED BY <1>1, RefundInit, RefundStep, PTL DEF Spec

\* A step out of REFUND_PENDING is that of a finalising call that speaks of the
\* last request.
LEMMA OutcomeStep ==
    RefundInv /\ [Next]_vars =>
      (status = "REFUND_PENDING" /\ status' # status
         => request.state \in {"done", "failed"} /\ FollowsOutcome)
<1> SUFFICES ASSUME RefundInv, [Next]_vars, status = "REFUND_PENDING", status' # status
             PROVE  request.state \in {"done", "failed"} /\ FollowsOutcome
  OBVIOUS
<1> USE DEF orderVars
<1>1. \A w \in Workers : Executing(w) => pc[w] = "failAudit"
  BY DEF RefundInv, OneRefundInFlight
<1>2. ASSUME NEW w \in Workers, Execute(w) PROVE FALSE
  <2>1. CASE Prepare(w) \/ Lock(w)
    BY <2>1 DEF Prepare, Lock, StillRefundable, Refundable
  <2>2. CASE \/ CheckMarker(w) \/ Deduct(w) \/ FailAudit(w) \/ RollbackAudit(w) \/ Rollback(w)
             \/ GatewaySkipped(w) \/ GatewayRefunds(w) \/ GatewayLeavesPending(w)
             \/ GatewayRefuses(w) \/ GatewayReplyLost(w) \/ GatewayRepeats(w)
    BY <2>2 DEF CheckMarker, Deduct, FailAudit, RollbackAudit, Rollback, GatewaySkipped,
       GatewayRefunds, GatewayLeavesPending, GatewayRefuses, GatewayReplyLost,
       GatewayRepeats
  <2>3. CASE Restore(w) \/ FailMark(w) \/ MarkOk(w) \/ MarkPending(w)
    BY <1>1, <2>3 DEF Restore, FailMark, MarkOk, MarkPending, Executing, ExecutingSteps
  <2> QED BY <1>2, <2>1, <2>2, <2>3 DEF Execute
<1>3. ASSUME NEW w \in Workers, FinalizeOk(w)
      PROVE  request.state \in {"done", "failed"} /\ FollowsOutcome
  <2>1. request.state = "done"
    BY <1>3 DEF FinalizeOk, RefundInv, FinalizerInv, Finalizing
  <2> QED BY <1>3, <2>1 DEF FinalizeOk, FollowsOutcome, FinalStatus, RefundedStatuses
<1>4. ASSUME NEW w \in Workers, FinalizeFailed(w) \/ FinalizeFailedNoReturn(w)
      PROVE  request.state \in {"done", "failed"} /\ FollowsOutcome
  <2>1. /\ pc[w] \in {"finFail", "finFailNoReturn"} /\ "REFUND_FAILED" \notin audit
        /\ status' = "REFUND_FAILED"
    BY <1>4 DEF FinalizeFailed, FinalizeFailedNoReturn
  <2>2. Finalizing(w) /\ plan[w].req = request.id
    BY <2>1, LastRequest DEF Finalizing
  <2>3. request.state = "failed"
    BY <2>1, <2>2 DEF RefundInv, FinalizerInv
  <2> QED BY <2>1, <2>3 DEF FollowsOutcome
<1>5. CASE \/ UserSpends \/ RequestRefund \/ GatewaySettles \/ GatewaySettlesUnseen
          \/ UNCHANGED vars
  BY <1>5 DEF UserSpends, RequestRefund, GatewaySettles, GatewaySettlesUnseen, vars
<1>6. ASSUME NEW w \in Workers, StartFinalize(w) \/ QueryRefund(w) \/ Die(w) PROVE FALSE
  BY <1>6 DEF StartFinalize, QueryRefund, Die
<1> QED BY <1>2, <1>3, <1>4, <1>5, <1>6 DEF Next, Finalize

\* A pending refund ends as the gateway said, and only then.
THEOREM ConvergesByOutcome == Spec => PendingConvergesByOutcome
<1>1. RefundInv /\ [Next]_vars
        => [status = "REFUND_PENDING" /\ status' # status
              => request.state \in {"done", "failed"} /\ FollowsOutcome]_vars
  BY OutcomeStep
<1> QED BY <1>1, RefundInit, RefundStep, PTL DEF Spec, PendingConvergesByOutcome
-----------------------------------------------------------------------------
(* PaymentRefund implements RefundPromise.                                  *)

\* No call is about a refund of nothing.
AmountInv ==
    /\ \A w \in Workers : pc[w] # "idle" => plan[w].amt > 0
    /\ status = "REFUND_PENDING" => refundAmount > 0

LEMMA AmountInit == Init => AmountInv
<1> SUFFICES ASSUME Init PROVE AmountInv
  OBVIOUS
<1>1. \A w \in Workers : pc[w] = "idle"
  BY DEF Init
<1>2. status = "REFUND_PENDING" => refundAmount > 0
  BY OrderAmountAssumption DEF Init, Amounts
<1> QED BY <1>1, <1>2 DEF AmountInv

LEMMA AmountStep == RefundInv /\ AmountInv /\ [Next]_vars => AmountInv'
<1> SUFFICES ASSUME RefundInv, AmountInv, [Next]_vars PROVE AmountInv'
  OBVIOUS
<1> USE DEF AmountInv, orderVars
<1>1. /\ pc \in [Workers -> Steps] /\ plan \in [Workers -> Plans]
      /\ refundAmount \in Amounts
  BY DEF RefundInv, TypeOK
<1>2. CASE \/ UserSpends \/ RequestRefund \/ GatewaySettles \/ GatewaySettlesUnseen
          \/ UNCHANGED vars
  BY <1>2 DEF UserSpends, RequestRefund, GatewaySettles, GatewaySettlesUnseen, vars
<1>3. ASSUME NEW w \in Workers, NEW s \in Steps, pc[w] # "idle",
             Goto(w, s) \/ Return(w) \/ \E t \in Amounts : Continue(w, s, t)
      PROVE  \A v \in Workers : pc'[v] # "idle" => plan'[v].amt > 0
  <2>1. CASE Goto(w, s)
    BY <1>1, <1>3, <2>1 DEF Goto
  <2>2. CASE Return(w)
    BY <1>1, <1>3, <2>2 DEF Return
  <2>3. ASSUME NEW t \in Amounts, Continue(w, s, t)
        PROVE  \A v \in Workers : pc'[v] # "idle" => plan'[v].amt > 0
    BY <1>1, <1>3, <2>3 DEF Continue, Plans
  <2> QED BY <1>3, <2>1, <2>2, <2>3
<1>4. ASSUME NEW w \in Workers, Prepare(w) PROVE AmountInv'
  <2>1. plan'[w].amt \in Amounts \ {0} /\ \A v \in Workers \ {w} : plan'[v] = plan[v]
    BY <1>1, <1>4 DEF Prepare
  <2>2. \A v \in Workers \ {w} : pc'[v] = pc[v]
    BY <1>1, <1>4 DEF Prepare
  <2>3. \A v \in Workers : pc'[v] # "idle" => plan'[v].amt > 0
    BY <2>1, <2>2 DEF Amounts
  <2> QED BY <1>4, <2>3 DEF Prepare
<1>5. ASSUME NEW w \in Workers, StartFinalize(w) PROVE AmountInv'
  <2>1. plan'[w].amt = refundAmount /\ \A v \in Workers \ {w} : plan'[v] = plan[v]
    BY <1>1, <1>5 DEF StartFinalize
  <2>2. \A v \in Workers \ {w} : pc'[v] = pc[v]
    BY <1>1, <1>5 DEF StartFinalize
  <2>3. \A v \in Workers : pc'[v] # "idle" => plan'[v].amt > 0
    BY <1>5, <2>1, <2>2 DEF StartFinalize
  <2> QED BY <1>5, <2>3 DEF StartFinalize
<1>6. ASSUME NEW w \in Workers,
             \/ Lock(w) \/ CheckMarker(w) \/ Deduct(w) \/ GatewaySkipped(w)
             \/ GatewayRefunds(w) \/ GatewayLeavesPending(w) \/ GatewayRefuses(w)
             \/ GatewayReplyLost(w) \/ GatewayRepeats(w) \/ Rollback(w)
             \/ RollbackAudit(w) \/ Restore(w)
             \/ FailMark(w) \/ FailAudit(w) \/ MarkOk(w) \/ MarkPending(w)
             \/ QueryRefund(w) \/ FinalizeOk(w) \/ FinalizeFailed(w)
             \/ FinalizeFailedNoReturn(w) \/ Die(w)
      PROVE  AmountInv'
  <2>1. pc[w] # "idle"
    BY <1>6 DEF Lock, CheckMarker, Deduct, GatewaySkipped, GatewayRefunds,
       GatewayLeavesPending, GatewayRefuses, GatewayReplyLost, GatewayRepeats, Rollback,
       RollbackAudit, Restore, FailMark, FailAudit, MarkOk, MarkPending, QueryRefund, FinalizeOk,
       FinalizeFailed, FinalizeFailedNoReturn, Die
  <2>2. \E s \in Steps : \/ Goto(w, s) \/ Return(w)
                         \/ \E t \in Amounts : Continue(w, s, t)
    <3>1. 0 \in Amounts
      BY OrderAmountAssumption DEF Amounts
    <3>2. CASE Deduct(w)
      <4>1. TypeOK /\ balance \in Nat
        BY MaxBalanceAssumption DEF RefundInv, TypeOK
      <4>2. plan[w].take \in Amounts
        BY <4>1, PlanTypes
      <4>3. Available(plan[w].take) \in Amounts
        BY <4>1, <4>2, OrderAmountAssumption DEF Available, Least, Amounts
      <4> QED BY <3>2, <4>3 DEF Deduct, Steps, ExecutingSteps
    <3>3. CASE CheckMarker(w)
      BY <3>1, <3>3 DEF CheckMarker, Steps, ExecutingSteps
    <3>4. CASE Lock(w) \/ GatewayLeavesPending(w) \/ GatewayRepeats(w)
      BY <3>4 DEF Lock, GatewayLeavesPending, GatewayRepeats, AfterPending, Steps, ExecutingSteps
    <3>5. CASE \/ GatewaySkipped(w) \/ GatewayRefunds(w) \/ GatewayRefuses(w)
               \/ GatewayReplyLost(w) \/ Rollback(w) \/ RollbackAudit(w)
      BY <3>5 DEF GatewaySkipped, GatewayRefunds, GatewayRefuses, GatewayReplyLost,
         Rollback, RollbackAudit, Steps, ExecutingSteps
    <3>6. CASE \/ Restore(w) \/ FailMark(w) \/ FailAudit(w) \/ MarkOk(w)
               \/ MarkPending(w) \/ Die(w)
      BY <3>6 DEF Restore, FailMark, FailAudit, MarkOk, MarkPending, Die, Steps,
         ExecutingSteps
    <3>7. CASE \/ QueryRefund(w) \/ FinalizeOk(w) \/ FinalizeFailed(w)
               \/ FinalizeFailedNoReturn(w)
      BY <3>7 DEF QueryRefund, FinalizeOk, FinalizeFailed, FinalizeFailedNoReturn, Steps
    <3> QED BY <1>6, <3>2, <3>3, <3>4, <3>5, <3>6, <3>7
  <2>3. \A v \in Workers : pc'[v] # "idle" => plan'[v].amt > 0
    BY <1>3, <2>1, <2>2
  <2>4. status' = "REFUND_PENDING" => refundAmount' > 0
    <3>1. CASE MarkPending(w)
      BY <2>1, <3>1 DEF MarkPending
    <3>2. CASE MarkOk(w) \/ FinalizeOk(w)
      BY <3>2 DEF MarkOk, FinalizeOk, FinalStatus, orderVars
    <3>3. CASE \/ Lock(w) \/ Restore(w) \/ FailMark(w) \/ FinalizeFailed(w)
               \/ FinalizeFailedNoReturn(w)
      BY <3>3 DEF Lock, Restore, FailMark, FinalizeFailed, FinalizeFailedNoReturn, SetStatus
    <3>4. CASE \/ CheckMarker(w) \/ Deduct(w) \/ GatewaySkipped(w)
               \/ GatewayRefunds(w) \/ GatewayLeavesPending(w) \/ GatewayRefuses(w)
               \/ GatewayReplyLost(w) \/ GatewayRepeats(w) \/ Rollback(w)
               \/ RollbackAudit(w) \/ FailAudit(w) \/ QueryRefund(w) \/ Die(w)
      BY <3>4 DEF CheckMarker, Deduct, GatewaySkipped, GatewayRefunds,
         GatewayLeavesPending, GatewayRefuses, GatewayReplyLost, GatewayRepeats, Rollback,
         RollbackAudit, FailAudit, QueryRefund, Die
    <3> QED BY <1>6, <3>1, <3>2, <3>3, <3>4
  <2> QED BY <2>3, <2>4
<1> QED BY <1>2, <1>4, <1>5, <1>6 DEF Next, Execute, Finalize

\* The state of the promise, as RefundPromise sees it.
promiseVars ==
    <<Phase, deducted, Marked, lost, hasTradeNo,
      [state |-> request.state, amt |-> request.amt], unseen, paidBack, Given>>

LEMMA PromiseInit == Init => Promise!Init
<1> SUFFICES ASSUME Init PROVE Promise!Init
  OBVIOUS
<1>1. CASE status = "COMPLETED"
  <2>1. detail.state = "none" /\ audit = {} /\ deducted = 0 /\ request.state = "none"
        /\ request.amt = 0 /\ refundAmount = 0 /\ hasTradeNo \in BOOLEAN
    BY <1>1 DEF Init, NoDetail
  <2>2. Phase = "open" /\ Given = 0
    BY <1>1 DEF Phase, Given, Refundable
  <2> QED BY <1>1, <2>1, <2>2 DEF Init, Promise!Init, Promise!NotAsked
<1>2. CASE status = "REFUND_PENDING"
  <2>1. /\ refundAmount \in 1..OrderAmount /\ hasTradeNo = TRUE
        /\ request.state = "pending" /\ request.amt = refundAmount
        /\ detail.state \in {"none", "returned", "kept"}
    BY <1>2, OrderAmountAssumption DEF Init, Amounts
  <2>2. Phase = "pending" /\ Given = refundAmount
    BY <1>2 DEF Phase, Given, Refundable
  <2>3. \/ deducted = 0 /\ Marked = FALSE
        \/ deducted = refundAmount /\ Marked = TRUE
    BY <1>2, <2>1 DEF Init, Marked
  <2> QED BY <2>1, <2>2, <2>3 DEF Init, Promise!Init, Marked
<1> QED BY <1>1, <1>2 DEF Init

\* The steps of calls that change nothing of the promise's state.
LEMMA HiddenSteps ==
    ASSUME NEW w \in Workers,
           \/ Prepare(w) \/ GatewaySkipped(w) \/ GatewayRefuses(w) \/ FailAudit(w)
           \/ StartFinalize(w) \/ QueryRefund(w) \/ Die(w)
    PROVE  UNCHANGED promiseVars
<1> USE DEF promiseVars, Phase, Given, Marked, orderVars, moneyVars, gatewayVars, faultVars
<1>1. CASE Prepare(w) \/ GatewaySkipped(w) \/ GatewayRefuses(w)
  BY <1>1 DEF Prepare, GatewaySkipped, GatewayRefuses
<1>2. CASE FailAudit(w)
  BY <1>2 DEF FailAudit
<1>3. CASE StartFinalize(w) \/ QueryRefund(w) \/ Die(w)
  BY <1>3 DEF StartFinalize, QueryRefund, Die, Fault
<1> QED BY <1>1, <1>2, <1>3

\* The steps of a call that executes a refund.
LEMMA AttemptSteps ==
    ASSUME RefundInv, AmountInv, NEW w \in Workers,
           \/ Lock(w) \/ CheckMarker(w) \/ Deduct(w) \/ Rollback(w) \/ RollbackAudit(w)
           \/ Restore(w) \/ FailMark(w) \/ MarkOk(w) \/ MarkPending(w)
    PROVE  Promise!Next \/ UNCHANGED promiseVars
<1> USE DEF promiseVars, Phase, Marked, orderVars, moneyVars, gatewayVars, faultVars
<1>0. TypeOK /\ AccountInv /\ RequestInv /\ MoneyInv
  BY DEF RefundInv
<1>1. CASE Lock(w)
  <2>1. CASE StillRefundable
    <3>1. Phase = "open" /\ Phase' = "executing"
      BY <1>1, <2>1 DEF Lock, SetStatus, StillRefundable, Refundable
    <3>2. Promise!Begin
      BY <1>1, <2>1, <3>1 DEF Lock, SetStatus, Promise!Begin, Given
    <3> QED BY <3>2 DEF Promise!Next
  <2>2. CASE ~StillRefundable
    BY <1>1, <2>2 DEF Lock, Given
  <2> QED BY <2>1, <2>2
<1>2. ASSUME ~Lock(w)
      PROVE  Executing(w) /\ pc[w] # "failAudit" /\ status = "REFUNDING"
  <2>1. Executing(w) /\ pc[w] # "failAudit"
    BY <1>2 DEF CheckMarker, Deduct, Rollback, RollbackAudit, Restore, FailMark, MarkOk,
       MarkPending, Executing, ExecutingSteps
  <2> QED BY <2>1 DEF RefundInv, OneRefundInFlight
<1>3. CASE CheckMarker(w)
  <2>1. status = "REFUNDING" /\ Phase = "executing" /\ Given = 0
    BY <1>2, <1>3 DEF CheckMarker, Lock, Refundable, Given
  <2>2. CASE UNCHANGED faultVars
    BY <1>3, <2>2 DEF CheckMarker, Given
  <2>3. CASE AuditFault
    <3>1. Promise!Lose
      BY <1>3, <2>1, <2>3 DEF CheckMarker, AuditFault, Promise!Lose, Given
    <3> QED BY <3>1 DEF Promise!Next
  <2> QED BY <1>3, <2>2, <2>3 DEF CheckMarker
<1>4. CASE Deduct(w)
  <2>1. status = "REFUNDING" /\ Phase = "executing"
    BY <1>2, <1>4 DEF Deduct, Lock, Refundable
  <2>2. CASE Fault /\ UNCHANGED moneyVars
    BY <1>4, <2>2 DEF Deduct, Fault, Given
  <2>3. CASE TakeFromBalance(Available(plan[w].take)) /\ UNCHANGED faultVars
    <3>1. /\ plan[w].take \in 0..OrderAmount /\ balance \in Nat /\ deducted \in Nat
      BY <1>0, PlanTypes, MaxBalanceAssumption DEF TypeOK, Amounts
    <3>2. Available(plan[w].take) \in 0..OrderAmount
      BY <3>1, OrderAmountAssumption DEF Available, Least
    <3>3. deducted' = deducted + Available(plan[w].take)
      BY <2>3 DEF TakeFromBalance
    <3>4. lost \/ deducted = 0
      BY <1>0, <1>4 DEF AccountInv, Deduct
    <3>5. CASE Available(plan[w].take) = 0
      BY <1>4, <2>3, <3>1, <3>3, <3>5 DEF Deduct, Given
    <3>6. CASE Available(plan[w].take) # 0
      <4>1. \E a \in 1..OrderAmount : deducted' = deducted + a
        BY <3>2, <3>3, <3>6
      <4>2. Promise!Take
        BY <1>4, <2>1, <2>3, <3>4, <4>1 DEF Deduct, Promise!Take, Given
      <4> QED BY <4>2 DEF Promise!Next
    <3> QED BY <3>5, <3>6
  <2>4. CASE ReplyLost /\ TakeFromBalance(Available(plan[w].take))
    <3>1. /\ plan[w].take \in 0..OrderAmount /\ balance \in Nat /\ deducted \in Nat
      BY <1>0, PlanTypes, MaxBalanceAssumption DEF TypeOK, Amounts
    <3>2. Available(plan[w].take) \in 0..OrderAmount
      BY <3>1, OrderAmountAssumption DEF Available, Least
    <3>3. deducted' = deducted + Available(plan[w].take) /\ lost' = TRUE
      BY <2>4 DEF TakeFromBalance, ReplyLost
    <3>4. lost \/ deducted = 0
      BY <1>0, <1>4 DEF AccountInv, Deduct
    <3>5. CASE Available(plan[w].take) = 0
      <4>1. Promise!Lose
        BY <1>4, <2>1, <3>1, <3>3, <3>5 DEF Deduct, Promise!Lose, Given
      <4> QED BY <4>1 DEF Promise!Next
    <3>6. CASE Available(plan[w].take) # 0
      <4>1. \E a \in 1..OrderAmount : deducted' = deducted + a
        BY <3>2, <3>3, <3>6
      <4>2. Promise!Take
        BY <1>4, <2>1, <3>3, <3>4, <4>1 DEF Deduct, Promise!Take, Given
      <4> QED BY <4>2 DEF Promise!Next
    <3> QED BY <3>5, <3>6
  <2> QED BY <1>4, <2>2, <2>3, <2>4 DEF Deduct
<1>5. CASE Rollback(w)
  <2>1. status = "REFUNDING" /\ Phase = "executing"
    BY <1>2, <1>5 DEF Rollback, Lock, Refundable
  <2>2. CASE Fault /\ UNCHANGED moneyVars
    BY <1>5, <2>2 DEF Rollback, Fault, Given
  <2>3. CASE GiveBack(plan[w].take) /\ (UNCHANGED faultVars \/ Fault)
    <3>0. UNCHANGED lost
      BY <2>3 DEF Fault
    <3>1. plan[w].take \in 0..OrderAmount /\ deducted \in Nat
      BY <1>0, PlanTypes DEF TypeOK, Amounts
    <3>2. deducted' = deducted - plan[w].take /\ plan[w].take <= deducted
      BY <1>0, <1>5, <2>3 DEF GiveBack, Rollback, MoneyInv
    <3>3. lost \/ deducted = plan[w].take \/ plan[w].take = 0
      BY <1>0, <1>5 DEF AccountInv, Rollback
    <3>4. CASE plan[w].take = 0
      BY <1>5, <3>0, <3>1, <3>2, <3>4 DEF Rollback, Given
    <3>5. CASE plan[w].take # 0
      <4>1. deducted' \in 0..(deducted - 1) /\ (lost \/ deducted' = 0)
        BY <3>1, <3>2, <3>3, <3>5
      <4>2. Promise!GiveBack
        BY <1>5, <2>1, <3>0, <4>1 DEF Rollback, Promise!GiveBack, Given
      <4> QED BY <4>2 DEF Promise!Next
    <3> QED BY <3>4, <3>5
  <2> QED BY <1>5, <2>2, <2>3 DEF Rollback
<1>6. CASE RollbackAudit(w)
  <2>1. status = "REFUNDING" /\ Phase = "executing"
    BY <1>2, <1>6 DEF RollbackAudit, Lock, Refundable
  <2>2. CASE audit' = audit \cup {"REFUND_ROLLBACK_FAILED"} /\ UNCHANGED faultVars
    <3>1. Promise!Mark
      BY <1>6, <2>1, <2>2 DEF RollbackAudit, Promise!Mark, Given
    <3> QED BY <3>1 DEF Promise!Next
  <2>3. CASE AuditFault /\ UNCHANGED audit
    <3>1. Promise!Lose
      BY <1>6, <2>1, <2>3 DEF RollbackAudit, AuditFault, Promise!Lose, Given
    <3> QED BY <3>1 DEF Promise!Next
  <2> QED BY <1>6, <2>2, <2>3 DEF RollbackAudit
<1>7. CASE Restore(w) \/ FailMark(w)
  <2>1. status = "REFUNDING" /\ status' \in Refundable
    BY <1>2, <1>7 DEF Restore, FailMark, SetStatus, Lock, Refundable
  <2>2. Phase = "executing" /\ Phase' = "open" /\ Given = 0 /\ Given' = 0
    BY <2>1 DEF Refundable, Given
  <2>3. lost \/ Marked \/ deducted = 0
    BY <1>0, <1>7 DEF AccountInv, Restore, FailMark
  <2>4. Promise!Abandon
    BY <1>7, <2>2, <2>3 DEF Restore, FailMark, SetStatus, Promise!Abandon, Promise!Settled
  <2> QED BY <2>4 DEF Promise!Next
<1>8. CASE MarkOk(w)
  <2>1. status = "REFUNDING" /\ status' \in RefundedStatuses
    BY <1>2, <1>8 DEF MarkOk, Lock, FinalStatus, RefundedStatuses
  <2>2. Phase = "executing" /\ Phase' = "refunded" /\ Given' = refundAmount'
    BY <2>1 DEF Refundable, RefundedStatuses, Given
  <2>3. plan[w].amt \in 1..OrderAmount
    BY <1>0, <1>8, PlanTypes DEF MarkOk, AmountInv, Amounts
  <2>4. hasTradeNo => paidBack >= plan[w].amt
    BY <1>0, <1>8 DEF RequestInv, MarkOk
  <2>5. Promise!Succeed
    BY <1>8, <2>2, <2>3, <2>4 DEF MarkOk, Promise!Succeed
  <2> QED BY <2>5 DEF Promise!Next
<1>9. CASE MarkPending(w)
  <2>1. status = "REFUNDING"
    BY <1>2, <1>9 DEF MarkPending, Lock
  <2>2. CASE "REFUND_PENDING" \in audit
    BY <1>9, <2>2 DEF MarkPending, Given
  <2>3. CASE "REFUND_PENDING" \notin audit
    <3>1. status' = "REFUND_PENDING" /\ refundAmount' = plan[w].amt
      BY <1>9, <2>3 DEF MarkPending
    <3>2. Phase = "executing" /\ Phase' = "pending" /\ Given' = plan[w].amt
      BY <2>1, <3>1 DEF Refundable, Given
    <3>3. request.state # "none" /\ request.amt = plan[w].amt
      BY <1>0, <1>9 DEF RequestInv, MarkPending
    <3>4. Promise!Pend
      BY <1>9, <2>3, <3>2, <3>3 DEF MarkPending, Promise!Pend
    <3> QED BY <3>4 DEF Promise!Next
  <2> QED BY <2>2, <2>3
<1> QED BY <1>1, <1>3, <1>4, <1>5, <1>6, <1>7, <1>8, <1>9

\* The calls to the gateway: none while it owes a decision it told.
LEMMA GatewaySteps ==
    ASSUME RefundInv, AmountInv, NEW w \in Workers,
           \/ GatewayRefunds(w) \/ GatewayReplyLost(w)
           \/ GatewayLeavesPending(w) \/ GatewayRepeats(w)
    PROVE  Promise!Next \/ UNCHANGED promiseVars
<1> USE DEF Phase, Marked, orderVars, moneyVars, gatewayVars, faultVars
<1>1. TypeOK /\ RequestInv /\ OneRefundInFlight
  BY DEF RefundInv
<1>2. pc[w] = "gateway" /\ hasTradeNo = TRUE
  BY <1>1 DEF GatewayRefunds, GatewayReplyLost, GatewayLeavesPending, GatewayRepeats, TypeOK
<1>3. Executing(w)
  BY <1>2 DEF Executing, ExecutingSteps
<1>4. status = "REFUNDING" /\ Phase = "executing"
  BY <1>1, <1>2, <1>3 DEF OneRefundInFlight, Refundable
<1>5. request.state \notin {"pending", "done"}
  BY <1>1, <1>2, <1>3 DEF RequestInv
<1>6. /\ plan[w].amt \in 1..OrderAmount
      /\ paidBack \in 0..OrderAmount /\ unseen \in 0..OrderAmount
  BY <1>1, <1>2, PlanTypes DEF AmountInv, Amounts, TypeOK
<1>7. ASSUME Room(plan[w].amt)
      PROVE  paidBack + unseen + plan[w].amt <= OrderAmount
  BY <1>5, <1>6, <1>7 DEF Room
<1>8. CASE /\ GatewayRefunds(w) \/ GatewayReplyLost(w)
           /\ paidBack' = paidBack + plan[w].amt /\ UNCHANGED unseen
  <2>1. paidBack' \in paidBack..(OrderAmount - unseen)
    <3>1. paidBack + unseen + plan[w].amt <= OrderAmount
      BY <1>7, <1>8 DEF GatewayRefunds, GatewayReplyLost
    <3> HIDE DEF Phase
    <3> QED BY <1>6, <1>8, <3>1, OrderAmountAssumption
  <2>2. Promise!Pay
    BY <1>2, <1>4, <1>5, <1>8, <2>1 DEF GatewayRefunds, GatewayReplyLost, Promise!Pay,
       Promise!Undecided, Given
  <2> QED BY <2>2 DEF Promise!Next
<1>9. CASE /\ GatewayReplyLost(w)
           /\ unseen' = unseen + plan[w].amt /\ UNCHANGED paidBack
  <2>1. unseen' \in unseen..(OrderAmount - paidBack)
    <3>1. paidBack + unseen + plan[w].amt <= OrderAmount
      BY <1>7, <1>9 DEF GatewayReplyLost
    <3> HIDE DEF Phase
    <3> QED BY <1>6, <1>9, <3>1, OrderAmountAssumption
  <2>2. Promise!LeaveUnheard
    BY <1>2, <1>4, <1>5, <1>9, <2>1 DEF GatewayReplyLost, Promise!LeaveUnheard,
       Promise!Undecided, Given
  <2> QED BY <2>2 DEF Promise!Next
<1>10. CASE GatewayLeavesPending(w)
  <2>1. plan[w].amt \in 1..(OrderAmount - paidBack - unseen)
    <3>1. paidBack + unseen + plan[w].amt <= OrderAmount
      BY <1>7, <1>10 DEF GatewayLeavesPending
    <3> HIDE DEF Phase
    <3> QED BY <1>6, <3>1, OrderAmountAssumption
  <2>2. request'.state = "pending" /\ request'.amt = plan[w].amt
    BY <1>10 DEF GatewayLeavesPending
  <2>3. Promise!LeaveOpen
    BY <1>2, <1>4, <1>5, <1>10, <2>1, <2>2 DEF GatewayLeavesPending, Promise!LeaveOpen,
       Promise!Undecided, Given
  <2> QED BY <2>3 DEF Promise!Next
<1>11. CASE GatewayRepeats(w)
  <2>1. CASE UNCHANGED <<request, unseen>>
    BY <1>11, <2>1 DEF GatewayRepeats, promiseVars, Given
  <2>2. CASE /\ plan[w].amt <= unseen /\ unseen' = unseen - plan[w].amt
             /\ request' = [state |-> "pending", amt |-> plan[w].amt,
                            id |-> request.id + 1]
    <3>1. plan[w].amt \in 1..unseen
      BY <1>6, <2>2
    <3>2. request'.state = "pending" /\ request'.amt = plan[w].amt
      BY <2>2
    <3>3. Promise!HearOf
      BY <1>2, <1>4, <1>5, <1>11, <2>2, <3>1, <3>2 DEF GatewayRepeats, Promise!HearOf,
         Promise!Undecided, Given
    <3> QED BY <3>3 DEF Promise!Next
  <2> QED BY <1>11, <2>1, <2>2 DEF GatewayRepeats
<1> QED BY <1>8, <1>9, <1>10, <1>11 DEF GatewayRefunds, GatewayReplyLost

\* The gateway settles a refund nobody here heard of.
LEMMA GatewayDecidesUnseen ==
    ASSUME GatewaySettlesUnseen
    PROVE  Promise!Next
<1>1. Promise!DecideUnheard
  BY DEF GatewaySettlesUnseen, Promise!DecideUnheard, Phase, Given, orderVars, moneyVars,
     faultVars
<1> QED BY <1>1 DEF Promise!Next

\* The gateway decides.
LEMMA GatewayDecides ==
    ASSUME TypeOK, GatewaySettles
    PROVE  Promise!Next
<1>1. request.state = "pending" /\ request \in Requests
  BY DEF GatewaySettles, TypeOK
<1>2. /\ request'.amt = request.amt
      /\ \/ request'.state = "done" /\ paidBack' = paidBack + request.amt
         \/ request'.state = "failed" /\ UNCHANGED paidBack
  BY <1>1 DEF GatewaySettles, Requests
<1>3. Promise!Decide
  BY <1>1, <1>2 DEF GatewaySettles, Promise!Decide, Phase, Given, orderVars, moneyVars,
     faultVars
<1> QED BY <1>3 DEF Promise!Next

\* The end of a pending refund: as the gateway decided, with what the plan says
\* of the deduction, which is what is held.
LEMMA FinalSteps ==
    ASSUME RefundInv, [Next]_vars, NEW w \in Workers,
           FinalizeOk(w) \/ FinalizeFailed(w) \/ FinalizeFailedNoReturn(w)
    PROVE  Promise!Next \/ UNCHANGED promiseVars
<1> USE DEF promiseVars, Phase, Marked, orderVars, moneyVars, gatewayVars, faultVars
<1>1. TypeOK /\ RequestInv /\ FinalizerInv /\ MoneyInv /\ AccountInv
  BY DEF RefundInv
<1>2. CASE ~(status = "REFUND_PENDING" /\ status' # status)
  BY <1>2 DEF FinalizeOk, FinalizeFailed, FinalizeFailedNoReturn, PendingClaimed,
     FinalStatus, Fault, Given
<1>3. CASE status = "REFUND_PENDING" /\ status' # status
  <2>1. Phase = "pending" /\ Given = refundAmount
    BY <1>3 DEF Refundable, Given
  <2>2. request.state \in {"done", "failed"} /\ FollowsOutcome
    BY <1>3, OutcomeStep
  <2>3. Finalizing(w)
    BY DEF FinalizeOk, FinalizeFailed, FinalizeFailedNoReturn, Finalizing
  <2>4. CASE FinalizeOk(w)
    <3>1. /\ "REFUND_SUCCESS" \notin audit /\ pc[w] = "finOk"
          /\ status' = FinalStatus(plan[w].amt) /\ refundAmount' = plan[w].amt
          /\ audit' = audit \cup {"REFUND_SUCCESS"}
          /\ TakeFromBalance(IF plan[w].held THEN 0 ELSE Available(plan[w].take))
      BY <1>3, <2>4 DEF FinalizeOk
    <3>2. request.state = "done" /\ plan[w].req = request.id
      BY <1>1, <2>3, <3>1 DEF FinalizerInv
    <3>3. plan[w].amt = refundAmount /\ paidBack >= refundAmount
      BY <1>1, <1>3, <2>3, <3>2 DEF FinalizerInv, RequestInv
    <3>4. Phase' = "refunded" /\ Given' = refundAmount
      BY <3>1, <3>3 DEF FinalStatus, Refundable, Given
    <3>5. /\ plan[w].held <=> detail.state = "held"
          /\ plan[w].take = CASE detail.state = "held" -> detail.amt
                              [] detail.state = "kept" -> 0
                              [] OTHER                 -> refundAmount
      BY <1>1, <1>3, <2>3, <3>2 DEF FinalizerInv
    <3>6. refundAmount \in 0..OrderAmount /\ balance \in Nat /\ deducted \in Nat
      BY <1>1, MaxBalanceAssumption DEF TypeOK, Amounts
    <3>7. \/ deducted' = deducted
          \/ /\ lost \/ deducted = 0
             /\ \E a \in 1..refundAmount : deducted' = deducted + a
      <4>1. CASE plan[w].held
        BY <3>1, <3>6, <4>1 DEF TakeFromBalance
      <4>2. CASE detail.state = "kept"
        BY <3>1, <3>5, <3>6, <4>2 DEF TakeFromBalance, Available, Least
      <4>3. CASE detail.state \notin {"held", "kept"}
        <5>1. plan[w].take = refundAmount /\ ~plan[w].held
          BY <3>5, <4>3
        <5>2. lost \/ deducted = 0
          BY <1>1, <1>3, <4>3 DEF AccountInv
        <5>3. Available(refundAmount) \in 0..refundAmount
          BY <3>6 DEF Available, Least
        <5>4. deducted' = deducted + Available(refundAmount)
          BY <3>1, <5>1 DEF TakeFromBalance
        <5> QED BY <3>6, <5>2, <5>3, <5>4
      <4> QED BY <3>5, <4>1, <4>2, <4>3
    <3>8. Promise!Confirm
      BY <2>1, <2>4, <3>1, <3>2, <3>3, <3>4, <3>7 DEF FinalizeOk, Promise!Confirm
    <3> QED BY <3>8 DEF Promise!Next
  <2>5. CASE FinalizeFailed(w)
    <3>1. /\ "REFUND_FAILED" \notin audit /\ pc[w] = "finFail"
          /\ status' = "REFUND_FAILED" /\ GiveBack(ToReturn(w))
          /\ audit' = audit \cup {"REFUND_FAILED"} /\ UNCHANGED faultVars
      BY <1>3, <2>5 DEF FinalizeFailed
    <3>2. plan[w].req = request.id
      BY <2>3, <3>1, LastRequest
    <3>3. request.state = "failed"
      BY <1>1, <2>3, <3>1, <3>2 DEF FinalizerInv
    <3>4. /\ plan[w].held <=> detail.state = "held"
          /\ detail.state = "held" => plan[w].take = detail.amt
      BY <1>1, <1>3, <2>3, <3>2 DEF FinalizerInv
    <3>5. ToReturn(w) = IF detail.state = "held" THEN detail.amt ELSE 0
      BY <3>4 DEF ToReturn
    <3>6. /\ deducted \in Nat /\ detail.amt \in Nat /\ ToReturn(w) <= deducted
          /\ ToReturn(w) \in Nat
      BY <1>1, <1>3, <3>5, RecordTypes DEF TypeOK, Amounts, MoneyInv
    <3>7. deducted' = deducted - ToReturn(w)
      BY <3>1 DEF GiveBack
    <3>8. deducted' \in 0..deducted
      BY <3>6, <3>7
    <3>9. lost \/ Marked \/ deducted' = 0
      BY <1>1, <1>3, <3>5, <3>6, <3>7 DEF AccountInv
    <3>10. Phase' = "open" /\ Given' = 0 /\ Marked' = Marked
      BY <3>1 DEF Refundable, Given
    <3>11. Promise!Refuse
      BY <2>1, <2>5, <3>1, <3>3, <3>8, <3>9, <3>10 DEF FinalizeFailed, Promise!Refuse,
         Promise!Settled
    <3> QED BY <3>11 DEF Promise!Next
  <2>6. CASE FinalizeFailedNoReturn(w)
    <3>1. /\ status' = "REFUND_FAILED"
          /\ audit' = audit \cup {"REFUND_ROLLBACK_FAILED", "REFUND_FAILED"}
      BY <1>3, <2>6 DEF FinalizeFailedNoReturn
    <3>2. request.state = "failed"
      BY <2>2, <3>1 DEF FollowsOutcome, RefundedStatuses
    <3>3. Phase' = "open" /\ Given' = 0 /\ Marked' = TRUE
      BY <3>1 DEF Refundable, Given
    <3>4. deducted \in 0..deducted
      BY <1>1 DEF TypeOK
    <3>5. Promise!Refuse
      BY <2>1, <2>6, <3>2, <3>3, <3>4 DEF FinalizeFailedNoReturn, Promise!Refuse,
         Promise!Settled
    <3> QED BY <3>5 DEF Promise!Next
  <2> QED BY <2>4, <2>5, <2>6
<1> QED BY <1>2, <1>3

LEMMA PromiseStep ==
    RefundInv /\ AmountInv /\ [Next]_vars => Promise!Next \/ UNCHANGED promiseVars
<1> SUFFICES ASSUME RefundInv, AmountInv, [Next]_vars
             PROVE  Promise!Next \/ UNCHANGED promiseVars
  OBVIOUS
<1>1. ASSUME NEW w \in Workers, Execute(w) \/ Finalize(w) \/ Die(w)
      PROVE  Promise!Next \/ UNCHANGED promiseVars
  BY <1>1, HiddenSteps, AttemptSteps, GatewaySteps, FinalSteps DEF Execute, Finalize
<1>2. CASE GatewaySettles \/ GatewaySettlesUnseen
  BY <1>2, GatewayDecides, GatewayDecidesUnseen DEF RefundInv
<1>3. CASE UserSpends \/ RequestRefund \/ UNCHANGED vars
  BY <1>3 DEF UserSpends, RequestRefund, vars, promiseVars, Phase, Given, Marked,
     orderVars, moneyVars, gatewayVars, faultVars, Refundable
<1> QED BY <1>1, <1>2, <1>3 DEF Next

\* The refund does what RefundPromise says, for any amounts, balance, number of
\* calls and faults.
THEOREM ImplementsPromise == Spec => KeepsPromise
<1>1. RefundInv /\ AmountInv /\ [Next]_vars
        => [Promise!Next]_<<Phase, deducted, Marked, lost, hasTradeNo,
              [state |-> request.state, amt |-> request.amt], unseen, paidBack, Given>>
  BY PromiseStep DEF promiseVars
<1> QED BY <1>1, PromiseInit, RefundInit, RefundStep, AmountInit, AmountStep, PTL
        DEF Spec, KeepsPromise, Promise!Spec, Marked
=============================================================================
