------------------------- MODULE PaymentOrderProofs -------------------------
(***************************************************************************)
(* Machine-checked proofs about PaymentOrder, for every set of workers,    *)
(* every set of order types and every number of faults.                    *)
(***************************************************************************)
EXTENDS PaymentOrder, TLAPS

\* Every step keeps every variable in its type.
LEMMA TypeStep == TypeOK /\ [Next]_vars => TypeOK'
<1> SUFFICES ASSUME TypeOK, [Next]_vars PROVE TypeOK'
  OBVIOUS
<1> USE MaxFaultsAssumption
    DEF TypeOK, orderVars, goodsVars, gatewayVars, workerVars, timeVars,
        Statuses, Tasks, Steps, LeasedSteps, AuditActions
<1>1. CASE Environment
  <2>1. CASE InvokeProviderOk
    BY <2>1, ZenonT(60) DEF InvokeProviderOk, WriteOrder
  <2>2. CASE InvokeProviderFail
    <3>1. /\ status' \in Statuses /\ aged' \in BOOLEAN
          /\ holders' \subseteq Workers /\ owner' \in Workers \cup {"none"}
      BY <2>2 DEF InvokeProviderFail, WriteOrder
    <3>2. upstream' \in {"none", "payable", "paid", "paidWrong", "closed"}
      BY <2>2 DEF InvokeProviderFail
    <3> QED BY <2>2, <3>1, <3>2 DEF InvokeProviderFail
  <2>3. CASE UserPays
    BY <2>3 DEF UserPays
  <2>4. CASE TimeOut
    BY <2>4 DEF TimeOut
  <2>5. CASE FiveMinutesPass
    BY <2>5 DEF FiveMinutesPass
  <2>6. CASE LookupFails
    BY <2>6 DEF LookupFails
  <2> QED BY <1>1, <2>1, <2>2, <2>3, <2>4, <2>5, <2>6 DEF Environment
<1>2. ASSUME NEW w \in Workers, Entry(w) \/ Step(w) \/ Failure(w)
      PROVE  TypeOK'
  <2>1. CASE StartNotify(w)
    BY <2>1 DEF StartNotify, Begin
  <2>2. CASE StartCancel(w)
    BY <2>2 DEF StartCancel, Begin
  <2>3. CASE StartExpire(w)
    BY <2>3 DEF StartExpire, Begin
  <2>4. CASE StartVerify(w)
    BY <2>4 DEF StartVerify, Begin
  <2>5. CASE StartRetry(w)
    BY <2>5 DEF StartRetry, Begin
  <2>6. CASE QueryPaid(w)
    BY <2>6 DEF QueryPaid, Goto
  <2>7. CASE QueryUnpaid(w)
    BY <2>7 DEF QueryUnpaid, Goto, Return, Leave
  <2>8. CASE QueryFails(w)
    BY <2>8 DEF QueryFails, Goto, Return, Leave
  <2>9. CASE PersistTradeNo(w)
    <3>1. pc' \in [Workers -> Steps] /\ UNCHANGED <<task, snap>>
      BY <2>9 DEF PersistTradeNo, Goto
    <3>2. /\ status' \in Statuses /\ holders' \subseteq Workers
          /\ aged' \in BOOLEAN /\ paidAt' \in BOOLEAN
      BY <2>9 DEF PersistTradeNo, WriteOrder
    <3>3. /\ owner' \in Workers \cup {"none"}
          /\ tradeNo' \in {"none", "upstream"}
      BY <2>9 DEF PersistTradeNo, WriteOrder
    <3> QED BY <2>9, <3>1, <3>2, <3>3 DEF PersistTradeNo
  <2>10. CASE CancelUpstream(w)
    BY <2>10 DEF CancelUpstream, Goto
  <2>11. CASE CancelCas(w)
    <3>1. CASE StillPending
      BY <2>11, <3>1 DEF CancelCas, CancelTarget, WriteOrder, Return, Leave
    <3>2. CASE ~(StillPending)
      BY <2>11, <3>2 DEF CancelCas, CancelTarget, WriteOrder, Return, Leave
    <3> QED BY <3>1, <3>2
  <2>12. CASE ConfirmPayment(w)
    BY <2>12 DEF ConfirmPayment, Goto, Return, Leave
  <2>13. CASE ToPaid(w)
    <3>1. CASE Payable
      BY <2>13, <3>1 DEF ToPaid, Goto, WriteOrder
    <3>2. CASE ~(Payable)
      BY <2>13, <3>2 DEF ToPaid, Goto, WriteOrder
    <3> QED BY <3>1, <3>2
  <2>14. CASE AlreadyProcessed(w)
    BY <2>14 DEF AlreadyProcessed, Goto, Return, Leave
  <2>15. CASE RejectUnsupported(w)
    <3>1. CASE status \in {"PAID", "RECHARGING"}
      BY <2>15, <3>1 DEF RejectUnsupported, WriteOrder, Return, Leave
    <3>2. CASE ~(status \in {"PAID", "RECHARGING"})
      BY <2>15, <3>2 DEF RejectUnsupported, WriteOrder, Return, Leave
    <3> QED BY <3>1, <3>2
  <2>16. CASE Fulfil(w)
    BY <2>16 DEF Fulfil, Goto, Return, Leave
  <2>17. CASE AcquireLease(w)
    <3>1. CASE LeaseFree
      BY <2>17, <3>1, ZenonT(60) DEF AcquireLease, Goto
    <3>2. CASE ~(LeaseFree)
      BY <2>17, <3>2 DEF AcquireLease, Goto
    <3> QED BY <3>1, <3>2
  <2>18. CASE LeaseMissed(w)
    BY <2>18 DEF LeaseMissed, Return, Leave
  <2>19. CASE ReloadLease(w)
    BY <2>19 DEF ReloadLease, Goto, Return, Leave, FirstDeliveryStep
  <2>20. CASE LookupCode(w)
    BY <2>20 DEF LookupCode, Goto, RedeemAction
  <2>21. CASE CreateCode(w)
    BY <2>21 DEF CreateCode, Goto
  <2>22. CASE Redeem(w)
    BY <2>22 DEF Redeem, Goto
  <2>23. CASE CheckAssigned(w)
    BY <2>23 DEF CheckAssigned, Goto
  <2>24. CASE AssignSubscription(w)
    <3>1. audit' \subseteq AuditActions
      BY <2>24 DEF AssignSubscription
    <3>2. credits' \in Nat
      BY <2>24 DEF AssignSubscription
    <3> QED BY <2>24, <3>1, <3>2 DEF AssignSubscription, Goto
  <2>25. CASE ApplyRebate(w)
    <3>1. audit' \subseteq AuditActions
      BY <2>25 DEF ApplyRebate
    <3>2. rebates' \in Nat
      BY <2>25 DEF ApplyRebate
    <3> QED BY <2>25, <3>1, <3>2 DEF ApplyRebate, Goto
  <2>26. CASE MarkCompleted(w)
    <3>1. CASE HoldsLease(w)
      BY <2>26, <3>1, ZenonT(60) DEF MarkCompleted, Goto, Return, Leave, WriteOrder
    <3>2. CASE ~(HoldsLease(w))
      BY <2>26, <3>2 DEF MarkCompleted, Goto, Return, Leave, WriteOrder
    <3> QED BY <3>1, <3>2
  <2>27. CASE CompletionMissed(w)
    BY <2>27 DEF CompletionMissed, DropLease, Goto, Return, Leave
  <2>28. CASE MarkFailed(w)
    <3>1. CASE HoldsLease(w)
      BY <2>28, <3>1 DEF MarkFailed, WriteOrder, DropLease, Return, Leave
    <3>2. CASE ~(HoldsLease(w))
      BY <2>28, <3>2 DEF MarkFailed, WriteOrder, DropLease, Return, Leave
    <3> QED BY <3>1, <3>2
  <2>29. CASE SwallowError(w)
    BY <2>29 DEF SwallowError, Return, Leave
  <2>30. CASE StepFails(w)
    BY <2>30 DEF StepFails, Goto
  <2>31. CASE Die(w)
    BY <2>31 DEF Die, DropLease, Return, Leave
  <2> QED BY <1>2, <2>1, <2>2, <2>3, <2>4, <2>5, <2>6, <2>7, <2>8, <2>9, <2>10,
      <2>11, <2>12, <2>13, <2>14, <2>15, <2>16, <2>17, <2>18, <2>19, <2>20,
      <2>21, <2>22, <2>23, <2>24, <2>25, <2>26, <2>27, <2>28, <2>29, <2>30,
      <2>31 DEF Entry, Step, Failure
<1>3. CASE UNCHANGED vars
  BY <1>3 DEF vars
<1> QED BY <1>1, <1>2, <1>3 DEF Next

\* The initial states are well typed.
LEMMA TypeInit == Init => TypeOK
<1> SUFFICES ASSUME Init PROVE TypeOK
  OBVIOUS
<1>1. pc \in [Workers -> Steps] /\ task \in [Workers -> Tasks]
  BY DEF Init, Steps, Tasks
<1>2. status \in Statuses /\ audit \subseteq AuditActions
  BY DEF Init, Statuses
<1>3. faults \in 0..MaxFaults
  BY MaxFaultsAssumption DEF Init
<1> QED BY <1>1, <1>2, <1>3 DEF Init, TypeOK

\* Type correctness.
THEOREM TypeCorrect == Spec => []TypeOK
  BY TypeInit, TypeStep, PTL DEF Spec

\* Every step preserves the accounting and what the workers rely on.
LEMMA IndStep == IndInv /\ [Next]_vars => IndInv'
<1> SUFFICES ASSUME IndInv, [Next]_vars PROVE IndInv'
  OBVIOUS
<1>1. TypeOK /\ TypeOK'
  BY TypeStep DEF IndInv
<1>2. pc \in [Workers -> Steps] /\ credits \in Nat /\ rebates \in Nat
  BY <1>1 DEF TypeOK
<1>4. orderType \in TypesKnown /\ code \in {"none", "unused", "used"}
  BY <1>1, OrderTypesAssumption DEF TypeOK
<1> DEFINE Rest == /\ CreatingFirst /\ WorkersArePaid /\ StepsMatchType
                   /\ CreditsAccounted /\ RebatesAccounted /\ WorkersAreSettled
                   /\ CompletedIsSettled /\ NothingForFree /\ PaidIsKept
<1>3. Rest
  BY DEF IndInv
<1> USE DEF orderVars, goodsVars, gatewayVars, workerVars, timeVars,
    CreatingFirst,
        WorkersArePaid, StepsMatchType, CreditsAccounted, RebatesAccounted,
            WorkersAreSettled,
        CompletedIsSettled, NothingForFree, PaidIsKept, AfterConfirm,
            LeasedSteps, Supported, RebateClaimed
<1>7. CASE Environment
  <2>1. ASSUME InvokeProviderOk PROVE Rest'
    BY <1>2, <1>3, <2>1 DEF InvokeProviderOk, WriteOrder
  <2>2. ASSUME InvokeProviderFail PROVE Rest'
    BY <1>2, <1>3, <2>2 DEF InvokeProviderFail, WriteOrder
  <2>3. ASSUME UserPays PROVE Rest'
    BY <1>2, <1>3, <2>3 DEF UserPays
  <2>4. ASSUME TimeOut PROVE Rest'
    BY <1>2, <1>3, <2>4 DEF TimeOut
  <2>5. ASSUME FiveMinutesPass PROVE Rest'
    BY <1>2, <1>3, <2>5 DEF FiveMinutesPass
  <2>6. ASSUME LookupFails PROVE Rest'
    BY <1>2, <1>3, <2>6 DEF LookupFails
  <2> QED BY <1>1, <1>7, <2>1, <2>2, <2>3, <2>4, <2>5, <2>6
      DEF Environment, IndInv
<1>5. ASSUME NEW w \in Workers, Entry(w) \/ Step(w) \/ Failure(w)
      PROVE  Rest'
  <2>1. ASSUME StartNotify(w) PROVE Rest'
    BY <1>2, <1>3, <2>1 DEF StartNotify, Begin
  <2>2. ASSUME StartCancel(w) PROVE Rest'
    BY <1>2, <1>3, <2>2 DEF StartCancel, Begin
  <2>3. ASSUME StartExpire(w) PROVE Rest'
    BY <1>2, <1>3, <2>3 DEF StartExpire, Begin
  <2>4. ASSUME StartVerify(w) PROVE Rest'
    BY <1>2, <1>3, <2>4 DEF StartVerify, Begin
  <2>5. ASSUME StartRetry(w) PROVE Rest'
    BY <1>2, <1>3, <2>5 DEF StartRetry, Begin
  <2>6. ASSUME QueryPaid(w) PROVE Rest'
    BY <1>2, <1>3, <2>6 DEF QueryPaid, Goto
  <2>7. ASSUME QueryUnpaid(w) PROVE Rest'
    BY <1>2, <1>3, <2>7 DEF QueryUnpaid, Goto, Return, Leave
  <2>8. ASSUME QueryFails(w) PROVE Rest'
    BY <1>2, <1>3, <2>8 DEF QueryFails, Goto, Return, Leave
  <2>9. ASSUME PersistTradeNo(w) PROVE Rest'
    BY <1>2, <1>3, <2>9 DEF PersistTradeNo, Goto, WriteOrder
  <2>10. ASSUME CancelUpstream(w) PROVE Rest'
    BY <1>2, <1>3, <2>10 DEF CancelUpstream, Goto
  <2>11. ASSUME CancelCas(w) PROVE Rest'
    <3>1. CASE StillPending
      BY <1>2, <1>3, <2>11, <3>1 DEF CancelCas, StillPending, CancelTarget,
          WriteOrder, Return, Leave
    <3>2. CASE ~(StillPending)
      BY <1>2, <1>3, <2>11, <3>2 DEF CancelCas, StillPending, CancelTarget,
          WriteOrder, Return, Leave
    <3> QED BY <3>1, <3>2
  <2>12. ASSUME ConfirmPayment(w) PROVE Rest'
    BY <1>2, <1>3, <2>12 DEF ConfirmPayment, AmountMatches, Goto, Return, Leave
  <2>13. ASSUME ToPaid(w) PROVE Rest'
    BY <1>2, <1>3, <2>13 DEF ToPaid, Goto, WriteOrder
  <2>14. ASSUME AlreadyProcessed(w) PROVE Rest'
    BY <1>2, <1>3, <2>14 DEF AlreadyProcessed, Goto, Return, Leave
  <2>15. ASSUME RejectUnsupported(w) PROVE Rest'
    BY <1>2, <1>3, <2>15 DEF RejectUnsupported, WriteOrder, Return, Leave
  <2>16. ASSUME Fulfil(w) PROVE Rest'
    BY <1>2, <1>3, <2>16 DEF Fulfil, Goto, Return, Leave
  <2>17. ASSUME AcquireLease(w) PROVE Rest'
    BY <1>2, <1>3, <2>17 DEF AcquireLease, Goto
  <2>18. ASSUME LeaseMissed(w) PROVE Rest'
    BY <1>2, <1>3, <2>18 DEF LeaseMissed, Return, Leave
  <2>19. ASSUME ReloadLease(w) PROVE Rest'
    <3>1. CASE status = "RECHARGING"
      BY <1>2, <1>4, <1>3, <2>19, <3>1 DEF ReloadLease, Goto, Return, Leave,
          FirstDeliveryStep, TypesKnown
    <3>2. CASE ~(status = "RECHARGING")
      BY <1>2, <1>4, <1>3, <2>19, <3>2 DEF ReloadLease, Goto, Return, Leave,
          FirstDeliveryStep, TypesKnown
    <3> QED BY <3>1, <3>2
  <2>20. ASSUME LookupCode(w) PROVE Rest'
    BY <1>2, <1>4, <1>3, <2>20 DEF LookupCode, Goto, RedeemAction
  <2>21. ASSUME CreateCode(w) PROVE Rest'
    BY <1>2, <1>3, <2>21 DEF CreateCode, Goto
  <2>22. ASSUME Redeem(w) PROVE Rest'
    <3>1. CASE CodeUsable
      BY <1>2, <1>3, <2>22, <3>1 DEF Redeem, CodeUsable, Goto
    <3>2. CASE ~(CodeUsable)
      BY <1>2, <1>3, <2>22, <3>2 DEF Redeem, CodeUsable, Goto
    <3> QED BY <3>1, <3>2
  <2>23. ASSUME CheckAssigned(w) PROVE Rest'
    BY <1>2, <1>3, <2>23 DEF CheckAssigned, Goto
  <2>24. ASSUME AssignSubscription(w) PROVE Rest'
    <3>1. CASE AssignmentTaken
      BY <1>2, <1>3, <2>24, <3>1 DEF AssignSubscription, AssignmentTaken, Goto
    <3>2. CASE ~(AssignmentTaken)
      BY <1>2, <1>3, <2>24, <3>2 DEF AssignSubscription, AssignmentTaken, Goto
    <3> QED BY <3>1, <3>2
  <2>25. ASSUME ApplyRebate(w) PROVE Rest'
    BY <1>2, <1>3, <2>25 DEF ApplyRebate, Goto
  <2>26. ASSUME MarkCompleted(w) PROVE Rest'
    BY <1>2, <1>3, <2>26 DEF MarkCompleted, Goto, Return, Leave, WriteOrder
  <2>27. ASSUME CompletionMissed(w) PROVE Rest'
    BY <1>2, <1>3, <2>27 DEF CompletionMissed, DropLease, Goto, Return, Leave
  <2>28. ASSUME MarkFailed(w) PROVE Rest'
    BY <1>2, <1>3, <2>28 DEF MarkFailed, WriteOrder, DropLease, Return, Leave
  <2>29. ASSUME SwallowError(w) PROVE Rest'
    BY <1>2, <1>3, <2>29 DEF SwallowError, Return, Leave
  <2>30. ASSUME StepFails(w) PROVE Rest'
    BY <1>2, <1>3, <2>30 DEF StepFails, Goto
  <2>31. ASSUME Die(w) PROVE Rest'
    BY <1>2, <1>3, <2>31 DEF Die, DropLease, Return, Leave
  <2> QED BY <1>5, <2>1, <2>2, <2>3, <2>4, <2>5, <2>6, <2>7, <2>8, <2>9, <2>10,
      <2>11, <2>12, <2>13, <2>14, <2>15, <2>16, <2>17, <2>18, <2>19, <2>20,
      <2>21, <2>22, <2>23, <2>24, <2>25, <2>26, <2>27, <2>28, <2>29, <2>30,
      <2>31 DEF Entry, Step, Failure
<1>6. CASE UNCHANGED vars
  BY <1>1, <1>3, <1>6 DEF vars, IndInv
<1> QED BY <1>1, <1>5, <1>6, <1>7 DEF Next, IndInv

\* A completed order stays completed in every step.
LEMMA FinalStep == IndInv /\ [Next]_vars => (status = "COMPLETED" => status' = "COMPLETED")
<1> SUFFICES ASSUME IndInv, [Next]_vars, status = "COMPLETED"
             PROVE  status' = "COMPLETED"
  OBVIOUS
<1>1. ~creating /\ upstream = "paid"
  BY DEF IndInv, NothingForFree, CreatingFirst
<1> USE DEF orderVars
<1>2. CASE Environment
  BY <1>1, <1>2 DEF Environment, InvokeProviderOk, InvokeProviderFail, UserPays,
     TimeOut, FiveMinutesPass, LookupFails
<1>3. ASSUME NEW w \in Workers, Entry(w) \/ Step(w) \/ Failure(w)
      PROVE  status' = "COMPLETED"
  <2>1. CASE Entry(w)
    BY <2>1 DEF Entry, StartNotify, StartCancel, StartExpire, StartVerify,
        StartRetry
  <2>2. CASE Step(w)
    <3>1. CASE PersistTradeNo(w)
      BY <3>1 DEF PersistTradeNo, WriteOrder
    <3>2. CASE CancelCas(w)
      BY <3>2 DEF CancelCas, StillPending
    <3>3. CASE ToPaid(w)
      BY <3>3 DEF ToPaid, Payable
    <3>4. CASE AcquireLease(w)
      BY <3>4 DEF AcquireLease, LeaseFree
    <3>5. CASE MarkCompleted(w)
      BY <3>5 DEF MarkCompleted, HoldsLease
    <3>6. CASE MarkFailed(w)
      BY <3>6 DEF MarkFailed, HoldsLease, DropLease
    <3>7. CASE RejectUnsupported(w)
      BY <3>7 DEF RejectUnsupported
    <3> QED BY <2>2, <3>1, <3>2, <3>3, <3>4, <3>5, <3>6, <3>7 DEF Step,
        QueryPaid,
          QueryUnpaid, QueryFails, CancelUpstream, ConfirmPayment,
              AlreadyProcessed, Fulfil,
          LeaseMissed, ReloadLease, LookupCode, CreateCode, Redeem,
              CheckAssigned,
          AssignSubscription, ApplyRebate, CompletionMissed, DropLease
  <2>3. CASE Failure(w)
    BY <2>3 DEF Failure, SwallowError, StepFails, Die, DropLease
  <2> QED BY <1>3, <2>1, <2>2, <2>3
<1>4. CASE UNCHANGED vars
  BY <1>4 DEF vars
<1> QED BY <1>2, <1>3, <1>4 DEF Next

\* Every step of PaymentOrder is a step of the promise or none at all.
LEMMA PromiseStep == IndInv /\ [Next]_vars => [Promise!PromiseNext]_(Promise!pvars)
<1> SUFFICES ASSUME IndInv, [Next]_vars
             PROVE  [Promise!PromiseNext]_(Promise!pvars)
  OBVIOUS
<1> DEFINE Stutter == /\ (upstream' = "paid") = (upstream = "paid")
                      /\ credits' = credits
                      /\ (status' = "COMPLETED") = (status = "COMPLETED")
<1>1. status = "COMPLETED" => status' = "COMPLETED"
  BY FinalStep
<1>2. Stutter => [Promise!PromiseNext]_(Promise!pvars)
  BY DEF Promise!pvars
<1> HIDE DEF Stutter
<1>3. /\ credits \in Nat
      /\ creating => upstream = "none"
      /\ \A v \in Workers : pc[v] \in AfterConfirm => upstream = "paid"
      /\ CreditsAccounted /\ WorkersAreSettled /\ StepsMatchType
  BY DEF IndInv, TypeOK, CreatingFirst, WorkersArePaid
<1> USE DEF orderVars, goodsVars, gatewayVars
<1>4. CASE Environment
  <2>1. CASE UserPays
    BY <2>1, <1>2 DEF UserPays, Stutter, Promise!PromiseNext,
        Promise!PromisePay, Promise!pvars
  <2>2. CASE InvokeProviderOk
    BY <2>2, <1>2, <1>3 DEF InvokeProviderOk, WriteOrder, Stutter
  <2>3. CASE InvokeProviderFail
    BY <2>3, <1>1, <1>2, <1>3 DEF InvokeProviderFail, WriteOrder, Stutter
  <2> QED BY <1>2, <1>4, <2>1, <2>2, <2>3 DEF Environment, TimeOut,
      FiveMinutesPass, LookupFails, Stutter
<1>5. ASSUME NEW w \in Workers, Entry(w) \/ Step(w) \/ Failure(w)
      PROVE  [Promise!PromiseNext]_(Promise!pvars)
  <2>1. CASE Entry(w)
    BY <1>2, <2>1 DEF Entry, StartNotify, StartCancel, StartExpire, StartVerify,
       StartRetry, Stutter
  <2>2. CASE Step(w)
    <3>1. CASE Redeem(w)
      <4>1. upstream = "paid" /\ orderType = "balance"
        BY <1>3, <3>1 DEF Redeem, StepsMatchType, AfterConfirm, LeasedSteps
      <4>2. CASE CodeUsable
        BY <1>3, <3>1, <4>1, <4>2 DEF Redeem, CodeUsable, CreditsAccounted,
           Promise!PromiseNext, Promise!PromiseDeliver
      <4>3. CASE ~CodeUsable
        BY <1>2, <3>1, <4>3 DEF Redeem, Stutter
      <4> QED BY <4>2, <4>3
    <3>2. CASE AssignSubscription(w)
      <4>1. upstream = "paid" /\ orderType = "subscription"
        BY <1>3, <3>2 DEF AssignSubscription, StepsMatchType, AfterConfirm,
            LeasedSteps
      <4>2. CASE AssignmentTaken
        BY <1>2, <3>2, <4>2 DEF AssignSubscription, Stutter
      <4>3. CASE ~AssignmentTaken
        BY <1>3, <3>2, <4>1, <4>3 DEF AssignSubscription, AssignmentTaken,
           CreditsAccounted, Promise!PromiseNext, Promise!PromiseDeliver
      <4> QED BY <4>2, <4>3
    <3>3. CASE MarkCompleted(w)
      <4>1. credits = 1
        BY <1>3, <3>3 DEF MarkCompleted, WorkersAreSettled
      <4>2. CASE HoldsLease(w)
        BY <3>3, <4>1, <4>2 DEF MarkCompleted, HoldsLease, WriteOrder, Return, Leave,
           Promise!PromiseNext, Promise!PromiseComplete
      <4>3. CASE ~HoldsLease(w)
        BY <1>2, <3>3, <4>3 DEF MarkCompleted, Stutter
      <4> QED BY <4>2, <4>3
    <3>4. CASE CancelUpstream(w)
      BY <1>2, <3>4 DEF CancelUpstream, Stutter
    <3>5. CASE PersistTradeNo(w)
      BY <1>2, <3>5 DEF PersistTradeNo, WriteOrder, Stutter
    <3>6. CASE CancelCas(w)
      BY <1>1, <1>2, <3>6 DEF CancelCas, CancelTarget, WriteOrder, Return, Leave,
          Stutter
    <3>7. CASE ToPaid(w)
      BY <1>1, <1>2, <3>7 DEF ToPaid, WriteOrder, Stutter
    <3>8. CASE AcquireLease(w)
      BY <1>1, <1>2, <3>8 DEF AcquireLease, Stutter
    <3>9. CASE MarkFailed(w)
      BY <1>1, <1>2, <3>9 DEF MarkFailed, WriteOrder, DropLease, Return, Leave, Stutter
    <3>10. CASE RejectUnsupported(w)
      BY <1>1, <1>2, <3>10 DEF RejectUnsupported, WriteOrder, Return, Leave, Stutter
    <3>11. CASE CompletionMissed(w)
      BY <1>2, <3>11 DEF CompletionMissed, DropLease, Return, Leave, Stutter
    <3>12. CASE QueryPaid(w) \/ QueryUnpaid(w) \/ QueryFails(w) \/ ConfirmPayment(w)
      BY <1>2, <3>12 DEF QueryPaid, QueryUnpaid, QueryFails, ConfirmPayment,
          Return, Leave, Stutter
    <3>13. CASE AlreadyProcessed(w) \/ Fulfil(w) \/ LeaseMissed(w) \/ ReloadLease(w)
      BY <1>2, <3>13 DEF AlreadyProcessed, Fulfil, LeaseMissed, ReloadLease,
          Return, Leave, Stutter
    <3>14. CASE \/ LookupCode(w) \/ CreateCode(w) \/ CheckAssigned(w) \/ ApplyRebate(w)
      BY <1>2, <3>14 DEF LookupCode, CreateCode, CheckAssigned, ApplyRebate,
          Stutter
    <3> QED BY <2>2, <3>1, <3>2, <3>3, <3>4, <3>5, <3>6, <3>7, <3>8, <3>9,
        <3>10,
               <3>11, <3>12, <3>13, <3>14 DEF Step
  <2>3. CASE Failure(w)
    BY <1>2, <2>3 DEF Failure, SwallowError, StepFails, Die, DropLease, Return, Leave,
        Stutter
  <2> QED BY <1>5, <2>1, <2>2, <2>3
<1>6. CASE UNCHANGED vars
  BY <1>2, <1>6 DEF vars, Stutter
<1> QED BY <1>4, <1>5, <1>6 DEF Next

\* The whole invariant holds in every reachable state.
THEOREM Invariance == Spec => []IndInv
<1>1. Init => IndInv
  <2> SUFFICES ASSUME Init PROVE IndInv
    OBVIOUS
  <2>1. TypeOK
    BY TypeInit
  <2> QED BY <2>1 DEF Init, IndInv, CreatingFirst, WorkersArePaid,
      StepsMatchType,
          CreditsAccounted, RebatesAccounted, WorkersAreSettled,
              CompletedIsSettled,
          NothingForFree, PaidIsKept, AfterConfirm, LeasedSteps
<1> QED BY <1>1, IndStep, PTL DEF Spec

\* However many webhooks, retries and stale workers run the fulfilment, and
\* wherever they die, goods and rebate are granted at most once.
THEOREM CreditedAtMostOnce == Spec => []CreditedOnce
<1>1. IndInv => CreditedOnce
  BY OrderTypesAssumption DEF IndInv, TypeOK, TypesKnown, CreditsAccounted,
     RebatesAccounted, CreditedOnce
<1> QED BY <1>1, Invariance, PTL

\* COMPLETED is written only when goods and rebate are settled.
THEOREM CompletedOnlySettled == Spec => []CompletedIsSettled
<1>1. IndInv => CompletedIsSettled
  BY DEF IndInv
<1> QED BY <1>1, Invariance, PTL

\* Nothing is granted unless the provider took the exact price.
THEOREM NothingGrantedForFree == Spec => []NothingForFree
<1>1. IndInv => NothingForFree
  BY DEF IndInv
<1> QED BY <1>1, Invariance, PTL

\* A recorded payment is never taken back by a cancellation or an expiry.
THEOREM PaymentIsKept == Spec => []PaidIsKept
<1>1. IndInv => PaidIsKept
  BY DEF IndInv
<1> QED BY <1>1, Invariance, PTL

\* No stale worker, failing late, takes an order out of COMPLETED.
THEOREM CompletionIsFinal == Spec => CompletedIsFinal
<1>1. IndInv /\ [Next]_vars => [status = "COMPLETED" => status' = "COMPLETED"]_vars
  BY FinalStep
<1> QED BY <1>1, Invariance, PTL DEF Spec, CompletedIsFinal

\* The payment component implements the abstract promise.
THEOREM ImplementsPromise == Spec => KeepsPromise
<1>1. Init => Promise!PromiseInit
  BY DEF Init, Promise!PromiseInit
<1> QED BY <1>1, PromiseStep, Invariance, PTL DEF Spec, KeepsPromise,
    Promise!PromiseSpec

\* Every step preserves what acknowledgements rest on.
LEMMA AckStep == IndInv /\ AckInv /\ [Next]_vars => AckInv'
<1> SUFFICES ASSUME IndInv, AckInv, [Next]_vars PROVE AckInv'
  OBVIOUS
<1>1. /\ pc \in [Workers -> Steps] /\ task \in [Workers -> Tasks]
      /\ status \in Statuses /\ code \in {"none", "unused", "used"}
      /\ audit \subseteq AuditActions
      /\ StepsMatchType
      /\ creating => status \notin {"RECHARGING", "COMPLETED", "PAID"}
  BY DEF IndInv, TypeOK, CreatingFirst, NothingForFree
<1>2. status = "COMPLETED" => status' = "COMPLETED"
  BY FinalStep
<1>3. AckInv
  OBVIOUS
<1> USE DEF AckInv, AckedIsSettled, orderVars, goodsVars, gatewayVars,
    workerVars,
        timeVars, Supported, StepsMatchType
<1>4. CASE Environment
  <2>1. CASE InvokeProviderOk
    BY <1>1, <1>2, <1>3, <2>1 DEF InvokeProviderOk, WriteOrder
  <2>2. CASE InvokeProviderFail
    BY <1>1, <1>2, <1>3, <2>2 DEF InvokeProviderFail, WriteOrder
  <2>3. CASE UserPays
    BY <1>1, <1>2, <1>3, <2>3 DEF UserPays
  <2>4. CASE TimeOut
    BY <1>1, <1>2, <1>3, <2>4 DEF TimeOut
  <2>5. CASE FiveMinutesPass
    BY <1>1, <1>2, <1>3, <2>5 DEF FiveMinutesPass
  <2>6. CASE LookupFails
    BY <1>1, <1>2, <1>3, <2>6 DEF LookupFails
  <2> QED BY <1>4, <2>1, <2>2, <2>3, <2>4, <2>5, <2>6 DEF Environment
<1>5. ASSUME NEW w \in Workers, Entry(w) \/ Step(w) \/ Failure(w)
      PROVE  AckInv'
  <2>1. CASE StartNotify(w)
    BY <1>1, <1>2, <1>3, <2>1 DEF StartNotify, Begin
  <2>2. CASE StartCancel(w)
    BY <1>1, <1>2, <1>3, <2>2 DEF StartCancel, Begin
  <2>3. CASE StartExpire(w)
    BY <1>1, <1>2, <1>3, <2>3 DEF StartExpire, Begin
  <2>4. CASE StartVerify(w)
    BY <1>1, <1>2, <1>3, <2>4 DEF StartVerify, Begin
  <2>5. CASE StartRetry(w)
    BY <1>1, <1>2, <1>3, <2>5 DEF StartRetry, Begin
  <2>6. CASE QueryPaid(w)
    BY <1>1, <1>2, <1>3, <2>6 DEF QueryPaid, Goto
  <2>7. CASE QueryUnpaid(w)
    BY <1>1, <1>2, <1>3, <2>7 DEF QueryUnpaid, Goto, Return, Leave, Cancelling
  <2>8. CASE QueryFails(w)
    BY <1>1, <1>2, <1>3, <2>8 DEF QueryFails, Goto, Return, Leave, Cancelling
  <2>9. CASE PersistTradeNo(w)
    BY <1>1, <1>2, <1>3, <2>9 DEF PersistTradeNo, Goto, WriteOrder
  <2>10. CASE CancelUpstream(w)
    BY <1>1, <1>2, <1>3, <2>10 DEF CancelUpstream, Goto
  <2>11. CASE CancelCas(w)
    BY <1>1, <1>2, <1>3, <2>11 DEF CancelCas, CancelTarget, WriteOrder, Return, Leave,
        StillPending, Statuses
  <2>12. CASE ConfirmPayment(w)
    BY <1>1, <1>2, <1>3, <2>12 DEF ConfirmPayment, Goto, Return, Leave, AmountMatches
  <2>13. CASE ToPaid(w)
    BY <1>1, <1>2, <1>3, <2>13 DEF ToPaid, Goto, WriteOrder, Payable, Statuses
  <2>14. CASE AlreadyProcessed(w)
    BY <1>1, <1>2, <1>3, <2>14 DEF AlreadyProcessed, Goto, Return, Leave, Unfinished,
        Statuses
  <2>15. CASE RejectUnsupported(w)
    BY <1>1, <1>2, <1>3, <2>15 DEF RejectUnsupported, WriteOrder, Return, Leave
  <2>16. CASE Fulfil(w)
    BY <1>1, <1>2, <1>3, <2>16 DEF Fulfil, Goto, Return, Leave
  <2>17. CASE AcquireLease(w)
    BY <1>1, <1>2, <1>3, <2>17 DEF AcquireLease, Goto, LeaseFree
  <2>18. CASE LeaseMissed(w)
    BY <1>1, <1>2, <1>3, <2>18 DEF LeaseMissed, Return, Leave
  <2>19. CASE ReloadLease(w)
    BY <1>1, <1>2, <1>3, <2>19 DEF ReloadLease, Goto, Return, Leave,
        FirstDeliveryStep, LeasedSteps
  <2>20. CASE LookupCode(w)
    BY <1>1, <1>2, <1>3, <2>20 DEF LookupCode, Goto, RedeemAction
  <2>21. CASE CreateCode(w)
    BY <1>1, <1>2, <1>3, <2>21 DEF CreateCode, Goto
  <2>22. CASE Redeem(w)
    BY <1>1, <1>2, <1>3, <2>22 DEF Redeem, Goto
  <2>23. CASE CheckAssigned(w)
    BY <1>1, <1>2, <1>3, <2>23 DEF CheckAssigned, Goto
  <2>24. CASE AssignSubscription(w)
    BY <1>1, <1>2, <1>3, <2>24 DEF AssignSubscription, Goto
  <2>25. CASE ApplyRebate(w)
    BY <1>1, <1>2, <1>3, <2>25 DEF ApplyRebate, Goto
  <2>26. CASE MarkCompleted(w)
    BY <1>1, <1>2, <1>3, <2>26 DEF MarkCompleted, Goto, Return, Leave, WriteOrder,
        HoldsLease
  <2>27. CASE CompletionMissed(w)
    BY <1>1, <1>2, <1>3, <2>27 DEF CompletionMissed, DropLease, Goto, Return, Leave
  <2>28. CASE MarkFailed(w)
    BY <1>1, <1>2, <1>3, <2>28 DEF MarkFailed, WriteOrder, DropLease, Return, Leave,
        HoldsLease
  <2>29. CASE SwallowError(w)
    BY <1>1, <1>2, <1>3, <2>29 DEF SwallowError, Return, Leave
  <2>30. CASE StepFails(w)
    BY <1>1, <1>2, <1>3, <2>30 DEF StepFails, Goto
  <2>31. CASE Die(w)
    BY <1>1, <1>2, <1>3, <2>31 DEF Die, DropLease, Return, Leave
  <2> QED BY <1>5, <2>1, <2>2, <2>3, <2>4, <2>5, <2>6, <2>7, <2>8, <2>9, <2>10,
      <2>11, <2>12, <2>13, <2>14, <2>15, <2>16, <2>17, <2>18, <2>19, <2>20,
      <2>21, <2>22, <2>23, <2>24, <2>25, <2>26, <2>27, <2>28, <2>29, <2>30,
      <2>31 DEF Entry, Step, Failure
<1>6. CASE UNCHANGED vars
  BY <1>3, <1>6 DEF vars
<1> QED BY <1>4, <1>5, <1>6 DEF Next

\* A call that got as far as the order acknowledges its webhook only when the
\* order is settled, whatever dies, is swallowed, or runs besides.
THEOREM AcknowledgedOnlySettled == Spec => []AckedIsSettled
<1>1. Init => AckInv
  BY DEF Init, AckInv, AckedIsSettled
<1>2. IndInv /\ AckInv /\ [Next]_vars => AckInv'
  BY AckStep
<1>3. AckInv => AckedIsSettled
  BY DEF AckInv
<1> QED BY <1>1, <1>2, <1>3, Invariance, PTL DEF Spec
=============================================================================
