-------------------------- MODULE BatchImageProofs --------------------------
(***************************************************************************)
(* Machine-checked proofs about BatchImage, for every set of jobs and      *)
(* workers, all holds, costs and retry limits, and any number of faults of *)
(* any kind.  Each small lemma says what one kind of statement does to one *)
(* part of the state; the steps of the handlers and of the workers are put *)
(* together from them.                                                     *)
(***************************************************************************)
EXTENDS BatchImage, TLAPS

-----------------------------------------------------------------------------
(* What the statements do to the parts of the state.                        *)

LEMMA WriteType ==
    ASSUME job \in [Jobs -> JobRow], NEW j \in Jobs, NEW row \in JobRow, Write(j, row)
    PROVE  job' \in [Jobs -> JobRow]
BY DEF Write, JobRow

LEMMA TransitionType ==
    ASSUME job \in [Jobs -> JobRow], NEW j \in Jobs, NEW to \in Status, NEW ok,
           Transition(j, to, ok)
    PROVE  job' \in [Jobs -> JobRow]
<1>1. [job[j] EXCEPT !.status = to] \in JobRow
  BY DEF JobRow
<1> QED BY <1>1, WriteType DEF Transition

LEMMA CountRetryType ==
    ASSUME job \in [Jobs -> JobRow], NEW j \in Jobs, NEW ok, CountRetry(j, ok)
    PROVE  job' \in [Jobs -> JobRow]
<1> DEFINE n == IF job[j].retries < MaxRetries THEN job[j].retries + 1 ELSE job[j].retries
<1>1. n \in 0..MaxRetries
  BY BatchImageAssumption DEF JobRow
<1>2. [job[j] EXCEPT !.retries = n, !.failing = TRUE] \in JobRow
  BY <1>1 DEF JobRow
<1> QED BY <1>2, WriteType DEF CountRetry

LEMMA FaultType ==
    ASSUME faults \in 0..MaxFaults, late \in BOOLEAN, NEW kind, Fault(kind)
    PROVE  faults' \in 0..MaxFaults /\ late' \in BOOLEAN
BY BatchImageAssumption DEF Fault

LEMMA LedgerMoves ==
    ASSUME LedgerTypeOK, Conservation, NEW j \in Jobs, NEW ok \in BOOLEAN,
           \/ Reserve(j, ok) \/ Release(j, ok) \/ \E c \in Costs : Capture(j, c, ok)
           \/ UNCHANGED ledger
    PROVE  LedgerTypeOK' /\ Conservation'
<1> USE HoldAssumption, BatchImageAssumption DEF LedgerTypeOK, Conservation, ledger
<1>0. Hold[j] \in Nat
  OBVIOUS
<1>1. CASE Reserve(j, ok)
  BY <1>0, <1>1 DEF Reserve, ClaimAs, Claim
<1>2. CASE Release(j, ok)
  BY <1>0, <1>2 DEF Release, ClaimAs, Claim
<1>3. ASSUME NEW c \in Costs, Capture(j, c, ok) PROVE LedgerTypeOK' /\ Conservation'
  BY <1>0, <1>3 DEF Capture, ClaimAs, Claim
<1>4. CASE UNCHANGED ledger
  BY <1>4
<1> QED BY <1>1, <1>2, <1>3, <1>4

LEMMA ThenType ==
    ASSUME todo \in [Jobs -> [Handler -> Seq(Step)]], NEW j \in Jobs, NEW h \in Handler,
           NEW rest \in Seq(Step), Then(j, h, rest)
    PROVE  todo' \in [Jobs -> [Handler -> Seq(Step)]]
BY DEF Then

LEMMA AdvanceType ==
    ASSUME todo \in [Jobs -> [Handler -> Seq(Step)]], NEW j \in Jobs, NEW h \in Handler,
           NEW s, At(j, h, s), Advance(j, h)
    PROVE  todo' \in [Jobs -> [Handler -> Seq(Step)]]
<1>1. todo[j][h] \in Seq(Step) /\ todo[j][h] # <<>>
  BY DEF At
<1>2. Tail(todo[j][h]) \in Seq(Step)
  BY <1>1
<1> QED BY <1>2, ThenType DEF Advance

\* The plans a handler may be given.
LEMMA PlanType ==
    /\ <<>> \in Seq(Step)
    /\ SubmitSteps \in Seq(Step)
    /\ <<"enqueue">> \in Seq(Step)
    /\ <<"abort">> \in Seq(Step)
    /\ <<"queueFailed">> \in Seq(Step)
    /\ <<"release">> \in Seq(Step)
    /\ <<"retry">> \in Seq(Step)
    /\ <<"record", "hide">> \in Seq(Step)
    /\ <<"record", "retry">> \in Seq(Step)
    /\ <<"release", "record", "hide">> \in Seq(Step)
    /\ <<"providerCancel", "enqueue">> \in Seq(Step)
    /\ <<"transition", "release">> \in Seq(Step)
BY DEF Step, SubmitSteps

LEMMA JobMoves ==
    ASSUME job \in [Jobs -> JobRow], NEW j \in Jobs,
           \/ \E to \in Status, ok \in BOOLEAN : Transition(j, to, ok)
           \/ \E st \in Status : \/ Write(j, [job[j] EXCEPT !.status = st])
                                 \/ Write(j, [job[j] EXCEPT !.status = st, !.submitted = TRUE])
                                 \/ Write(j, [job[j] EXCEPT !.status = st, !.failing = FALSE])
           \/ Write(j, [job[j] EXCEPT !.hidden = TRUE])
           \/ Write(j, [job[j] EXCEPT !.failing = FALSE])
           \/ \E c \in Costs : Write(j, [job[j] EXCEPT !.cost = c])
           \/ \E ok \in BOOLEAN : CountRetry(j, ok)
           \/ UNCHANGED job
    PROVE  job' \in [Jobs -> JobRow]
<1>1. /\ \A st \in Status : [job[j] EXCEPT !.status = st] \in JobRow
      /\ \A st \in Status : [job[j] EXCEPT !.status = st, !.submitted = TRUE] \in JobRow
      /\ \A st \in Status : [job[j] EXCEPT !.status = st, !.failing = FALSE] \in JobRow
      /\ [job[j] EXCEPT !.hidden = TRUE] \in JobRow
      /\ [job[j] EXCEPT !.failing = FALSE] \in JobRow
      /\ \A c \in Costs : [job[j] EXCEPT !.cost = c] \in JobRow
  BY DEF JobRow
<1> QED BY <1>1, WriteType, TransitionType, CountRetryType

LEMMA GotoType ==
    ASSUME worker \in [Workers -> WorkerState], NEW w \in Workers, NEW pc \in WorkerPc,
           Goto(w, pc)
    PROVE  worker' \in [Workers -> WorkerState]
BY DEF Goto, WorkerState

LEMMA WorkerMoves ==
    ASSUME worker \in [Workers -> WorkerState], NEW w \in Workers, NEW pc \in WorkerPc,
           \/ \E j \in Jobs : worker' = [worker EXCEPT ![w].pc = pc, ![w].job = j]
           \/ \E u \in UpstreamState : worker' = [worker EXCEPT ![w].pc = pc, ![w].saw = u]
    PROVE  worker' \in [Workers -> WorkerState]
<1>1. /\ \A j \in Jobs : [worker[w] EXCEPT !.pc = pc, !.job = j] \in WorkerState
      /\ \A u \in UpstreamState : [worker[w] EXCEPT !.pc = pc, !.saw = u] \in WorkerState
  BY DEF WorkerState
<1> QED BY <1>1

LEMMA QueueMoves ==
    ASSUME Q!QueueTypeOK, NEW j \in Jobs, NEW w \in Workers \cup {NoWorker},
           \/ Q!Enqueue(j) \/ Q!ReserveReady(j) \/ Q!RequeueAfter(j) \/ Q!Ack(j)
           \/ Q!MoveDueDelayedToReady(j) \/ Q!RecoverStaleActive(j)
           \/ Q!TakeLock(j, w) \/ Q!DropLock(j, w) \/ Q!ExpireLock(j) \/ UNCHANGED queue
    PROVE  Q!QueueTypeOK'
<1> USE DEF Q!QueueTypeOK
<1>1. CASE Q!Enqueue(j)
  BY <1>1 DEF Q!Enqueue, Q!PushReady
<1>2. CASE Q!ReserveReady(j)
  BY <1>2 DEF Q!ReserveReady
<1>3. CASE Q!RequeueAfter(j) \/ Q!Ack(j)
  BY <1>3 DEF Q!RequeueAfter, Q!Ack
<1>4. CASE Q!MoveDueDelayedToReady(j) \/ Q!RecoverStaleActive(j)
  BY <1>4 DEF Q!MoveDueDelayedToReady, Q!RecoverStaleActive, Q!PushReady
<1>5. CASE Q!TakeLock(j, w) \/ Q!DropLock(j, w) \/ Q!ExpireLock(j)
  BY <1>5 DEF Q!TakeLock, Q!DropLock, Q!ExpireLock
<1>6. CASE UNCHANGED queue
  BY <1>6 DEF queue
<1> QED BY <1>1, <1>2, <1>3, <1>4, <1>5, <1>6

LEMMA ReplaceItemsType ==
    ASSUME job \in [Jobs -> JobRow], NEW j \in Jobs, NEW c \in Costs, NEW ok,
           ReplaceItems(j, c, ok)
    PROVE  job' \in [Jobs -> JobRow]
<1>1. [job[j] EXCEPT !.cost = c] \in JobRow
  BY DEF JobRow
<1> QED BY <1>1, WriteType DEF ReplaceItems

LEMMA AnswerType ==
    \A s \in DOMAIN Answer : Answer[s].to \in Status /\ Answer[s].pc \in WorkerPc
BY DEF Answer, Status, Terminal, WorkerPc

-----------------------------------------------------------------------------
(* Types and the sum of the money, one step per action.                     *)

Inv == TypeOK /\ Conservation

LEMMA InvInit == Init => Inv
<1> SUFFICES ASSUME Init PROVE Inv
  OBVIOUS
<1> USE HoldAssumption, BatchImageAssumption
<1>1. LedgerTypeOK /\ Conservation
  BY DEF Init, LedgerInit, LedgerTypeOK, Conservation, Claim
<1>2. Q!QueueTypeOK
  BY DEF Init, Q!QueueInit, Q!QueueTypeOK
<1>3. job \in [Jobs -> JobRow]
  <2>1. (CHOOSE c \in Costs : TRUE) \in Costs
    OBVIOUS
  <2> QED BY <2>1 DEF Init, JobRow, Status
<1>4. todo \in [Jobs -> [Handler -> Seq(Step)]]
  BY DEF Init
<1>5. worker \in [Workers -> WorkerState]
  <2>1. (CHOOSE j \in Jobs : TRUE) \in Jobs
    OBVIOUS
  <2> QED BY <2>1 DEF Init, WorkerState, WorkerPc, UpstreamState
<1>6. upstream \in [Jobs -> UpstreamState]
  BY DEF Init, UpstreamState
<1>7. obstacle \in [Jobs -> ObstacleKind \cup {"none"}]
  BY DEF Init
<1>8. faults \in 0..MaxFaults
  BY DEF Init
<1>9. late \in BOOLEAN
  BY DEF Init
<1> QED BY <1>1, <1>2, <1>3, <1>4, <1>5, <1>6, <1>7, <1>8, <1>9 DEF Inv, TypeOK

LEMMA SubmitPreserves ==
    ASSUME Inv, NEW j \in Jobs,
           SubmitStep(j)
    PROVE  Inv'
<1> USE DEF Inv, TypeOK, Handler, faultVars, outside, ledger, queue, LedgerTypeOK,
        Q!QueueTypeOK,
        Conservation
<1>1. CASE ReserveHold(j)
  BY <1>1, LedgerMoves, AdvanceType, ThenType, PlanType, FaultType DEF ReserveHold,
       Call
<1>2. CASE CreatePendingItems(j)
  BY <1>2, AdvanceType, ThenType, PlanType, FaultType DEF CreatePendingItems
<1>3. CASE StartUpload(j)
  <2>1. job' \in [Jobs -> JobRow]
    BY <1>3, TransitionType DEF StartUpload, Call, Status, Terminal
  <2> QED
    BY <1>3, <2>1, AdvanceType, ThenType, PlanType, FaultType DEF StartUpload, Call,
         Status, Terminal
<1>4. CASE SubmitToProvider(j)
  BY <1>4, AdvanceType, ThenType, PlanType, FaultType DEF SubmitToProvider,
       UpstreamState
<1>5. CASE RecordProviderJob(j)
  <2>1. job' \in [Jobs -> JobRow]
    BY <1>5, JobMoves DEF RecordProviderJob, Call, Status, Terminal
  <2> QED
    BY <1>5, <2>1, AdvanceType, ThenType, PlanType, FaultType DEF RecordProviderJob,
         Call, Status, Terminal
<1>6. CASE AbortOrphan(j)
  BY <1>6, AdvanceType, ThenType, PlanType DEF AbortOrphan, StopUpstream,
       UpstreamState
<1>7. CASE RecordFailure(j)
  <2>1. job' \in [Jobs -> JobRow]
    BY <1>7, JobMoves DEF RecordFailure, Call, Status, Terminal
  <2> QED
    BY <1>7, <2>1, AdvanceType, ThenType, PlanType, FaultType DEF RecordFailure,
         Call, Status, Terminal
<1>8. CASE HideFailure(j)
  <2>1. job' \in [Jobs -> JobRow]
    BY <1>8, JobMoves DEF HideFailure, Call
  <2> QED
    BY <1>8, <2>1, AdvanceType, ThenType, PlanType, FaultType DEF HideFailure, Call
<1>9. CASE RecordQueueFailure(j)
  <2>1. job' \in [Jobs -> JobRow]
    BY <1>9, JobMoves DEF RecordQueueFailure, Call
  <2> QED
    BY <1>9, <2>1, AdvanceType, ThenType, PlanType, FaultType DEF
         RecordQueueFailure, Call
<1> QED BY <1>1, <1>2, <1>3, <1>4, <1>5, <1>6, <1>7, <1>8, <1>9 DEF SubmitStep

LEMMA StaleType ==
    ASSUME job \in [Jobs -> JobRow], NEW j \in Jobs, job' = [job EXCEPT ![j].stale = TRUE]
    PROVE  job' \in [Jobs -> JobRow]
<1>1. [job[j] EXCEPT !.stale = TRUE] \in JobRow
  BY DEF JobRow
<1> QED BY <1>1

LEMMA JobPreserves ==
    ASSUME Inv, NEW j \in Jobs,
           \/ CreateJob(j) \/ ReplaySubmit(j) \/ ReadForCancel(j) \/ CancelAtProvider(j)
           \/ CancelJob(j) \/ GrowStale(j) \/ FailStaleUnsubmitted(j) \/ UpstreamRuns(j)
           \/ UpstreamEnds(j) \/ UpstreamEndsUnreadable(j) \/ LoseAccount(j)
           \/ DeleteOutputs(j) \/ MoveDueDelayed(j)
           \/ RecoverStaleActive(j) \/ LockExpires(j)
    PROVE  Inv'
<1> USE DEF Inv, TypeOK, Handler, faultVars, outside, ledger, queue, LedgerTypeOK,
        Q!QueueTypeOK,
        Conservation
<1>1. CASE CreateJob(j)
  <2>1. job' \in [Jobs -> JobRow]
    BY <1>1, JobMoves DEF CreateJob, Status, Terminal
  <2> QED
    BY <1>1, <2>1, AdvanceType, ThenType, PlanType DEF CreateJob, Status, Terminal
<1>2. CASE ReplaySubmit(j)
  BY <1>2, AdvanceType, ThenType, PlanType DEF ReplaySubmit
<1>3. CASE ReadForCancel(j)
  BY <1>3, AdvanceType, ThenType, PlanType DEF ReadForCancel, CancelSteps
<1>4. CASE CancelAtProvider(j)
  BY <1>4, AdvanceType, ThenType, PlanType DEF CancelAtProvider, StopUpstream,
       UpstreamState
<1>5. CASE CancelJob(j)
  <2>1. job' \in [Jobs -> JobRow]
    BY <1>5, TransitionType DEF CancelJob, Call, Status, Terminal
  <2> QED
    BY <1>5, <2>1, AdvanceType, ThenType, PlanType, FaultType DEF CancelJob, Call,
         Status, Terminal
<1>6. CASE GrowStale(j)
  <2>1. job' \in [Jobs -> JobRow]
    BY <1>6, StaleType DEF GrowStale
  <2> QED BY <1>6, <2>1, FaultType DEF GrowStale
<1>7. CASE FailStaleUnsubmitted(j)
  <2>1. job' \in [Jobs -> JobRow]
    BY <1>7, JobMoves DEF FailStaleUnsubmitted, Call, Status, Terminal
  <2> QED
    BY <1>7, <2>1, AdvanceType, ThenType, PlanType, FaultType DEF
         FailStaleUnsubmitted, Call, Status, Terminal
<1>8. CASE UpstreamRuns(j)
  BY <1>8 DEF UpstreamRuns, UpstreamState
<1>9. CASE UpstreamEnds(j) \/ UpstreamEndsUnreadable(j) \/ LoseAccount(j)
  BY <1>9 DEF UpstreamEnds, UpstreamEndsUnreadable, LoseAccount, UpstreamState,
       ObstacleKind
<1>10. CASE DeleteOutputs(j)
  <2>1. job' \in [Jobs -> JobRow]
    BY <1>10, JobMoves DEF DeleteOutputs, Status, Terminal
  <2> QED
    BY <1>10, <2>1 DEF DeleteOutputs, Status, Terminal
<1>11. CASE MoveDueDelayed(j)
  BY <1>11, QueueMoves DEF MoveDueDelayed
<1>12. CASE RecoverStaleActive(j)
  BY <1>12, QueueMoves, FaultType DEF RecoverStaleActive, LapsesIf
<1>13. CASE LockExpires(j)
  BY <1>13, QueueMoves, FaultType DEF LockExpires, LapsesIf
<1> QED BY <1>1, <1>2, <1>3, <1>4, <1>5, <1>6, <1>7, <1>8, <1>9, <1>10, <1>11,
    <1>12, <1>13

LEMMA HandlerPreserves ==
    ASSUME Inv, NEW j \in Jobs, NEW h \in Handler,
           EnqueueJob(j, h) \/ ReleaseHold(j, h) \/ HandlerDies(j, h)
    PROVE  Inv'
<1> USE DEF Inv, TypeOK, Handler, faultVars, outside, ledger, queue, LedgerTypeOK,
        Q!QueueTypeOK,
        Conservation
<1>1. CASE EnqueueJob(j, h)
  BY <1>1, QueueMoves, AdvanceType, ThenType, PlanType, FaultType DEF EnqueueJob,
       Call
<1>2. CASE ReleaseHold(j, h)
  BY <1>2, LedgerMoves, AdvanceType, ThenType, PlanType, FaultType DEF ReleaseHold,
       Call
<1>3. CASE HandlerDies(j, h)
  BY <1>3, AdvanceType, ThenType, PlanType, FaultType DEF HandlerDies
<1> QED BY <1>1, <1>2, <1>3

LEMMA ProcessPreserves ==
    ASSUME Inv, NEW w \in Workers, NEW j \in Jobs,
           ProcessStep(w, j)
    PROVE  Inv'
<1> USE DEF Inv, TypeOK, Handler, faultVars, outside, ledger, queue, LedgerTypeOK,
        Q!QueueTypeOK,
        Conservation
<1>1. CASE ReadForPipeline(w, j)
  BY <1>1, GotoType, FaultType DEF ReadForPipeline, WorkerPc, ReadFails
<1>2. CASE ReadForProcess(w, j)
  BY <1>2, GotoType, FaultType DEF ReadForProcess, WorkerPc, ReadFails,
       AfterProcessRead
<1>3. CASE GetFromProvider(w, j)
  BY <1>3, GotoType, FaultType, WorkerMoves DEF GetFromProvider, WorkerPc, ReadFails
<1>4. CASE ApplyProviderState(w, j)
  <2>1. job' \in [Jobs -> JobRow]
    BY <1>4, TransitionType, AnswerType DEF ApplyProviderState, Call
  <2>2. worker' \in [Workers -> WorkerState]
    <3>1. "requeue" \in WorkerPc
      BY DEF WorkerPc
    <3>2. \E pc \in WorkerPc : Goto(w, pc)
      BY <1>4, <3>1, AnswerType DEF ApplyProviderState, OrRequeue
    <3> QED BY <3>2, GotoType
  <2>3. faults' \in 0..MaxFaults /\ late' \in BOOLEAN
    BY <1>4, FaultType DEF ApplyProviderState, Call
  <2> QED BY <1>4, <2>1, <2>2, <2>3 DEF ApplyProviderState
<1>5. CASE IndexResults(w, j)
  <2>1. job' \in [Jobs -> JobRow]
    BY <1>5, TransitionType, ReplaceItemsType DEF IndexResults, Call, Status,
         Terminal
  <2> QED
    BY <1>5, <2>1, GotoType, FaultType DEF IndexResults, Call, WorkerPc, OrRequeue,
         Status, Terminal
<1>6. CASE StartSettling(w, j)
  <2>1. job' \in [Jobs -> JobRow]
    BY <1>6, TransitionType DEF StartSettling, Call, Status, Terminal
  <2> QED
    BY <1>6, <2>1, GotoType, FaultType DEF StartSettling, Call, WorkerPc, Status,
         Terminal
<1>7. CASE ReleaseTerminalHold(w, j)
  BY <1>7, LedgerMoves, GotoType, FaultType DEF ReleaseTerminalHold, Call, WorkerPc,
       OrRequeue
<1> QED BY <1>1, <1>2, <1>3, <1>4, <1>5, <1>6, <1>7 DEF ProcessStep

LEMMA SettlePreserves ==
    ASSUME Inv, NEW w \in Workers, NEW j \in Jobs,
           SettleStep(w, j)
    PROVE  Inv'
<1> USE DEF Inv, TypeOK, Handler, faultVars, outside, ledger, queue, LedgerTypeOK,
        Q!QueueTypeOK,
        Conservation
<1>1. CASE ReadForSettle(w, j)
  BY <1>1, GotoType, FaultType DEF ReadForSettle, WorkerPc, ReadFails,
       AfterSettleRead
<1>2. CASE CaptureHold(w, j)
  BY <1>2, LedgerMoves, GotoType, FaultType DEF CaptureHold, Call, WorkerPc, JobRow
<1>3. CASE MarkJobSettled(w, j)
  <2>1. job' \in [Jobs -> JobRow]
    BY <1>3, JobMoves DEF MarkJobSettled, Call, MarkSettled, Status, Terminal
  <2> QED
    BY <1>3, <2>1, GotoType, FaultType DEF MarkJobSettled, Call, WorkerPc,
         OrRequeue, Status, Terminal
<1>4. CASE RecordSettlementFailure(w, j)
  <2>1. job' \in [Jobs -> JobRow]
    BY <1>4, JobMoves DEF RecordSettlementFailure, Call
  <2> QED
    BY <1>4, <2>1, GotoType, FaultType DEF RecordSettlementFailure, Call, WorkerPc
<1>5. CASE ReleaseExhausted(w, j)
  BY <1>5, LedgerMoves, GotoType, FaultType DEF ReleaseExhausted, Call, WorkerPc
<1>6. CASE RecordReleaseFailure(w, j)
  <2>1. job' \in [Jobs -> JobRow]
    BY <1>6, JobMoves DEF RecordReleaseFailure, Call
  <2> QED
    BY <1>6, <2>1, GotoType, FaultType DEF RecordReleaseFailure, Call, WorkerPc
<1>7. CASE FailExhaustedJob(w, j)
  <2>1. job' \in [Jobs -> JobRow]
    BY <1>7, TransitionType DEF FailExhaustedJob, Call, Status, Terminal
  <2> QED
    BY <1>7, <2>1, GotoType, FaultType DEF FailExhaustedJob, Call, WorkerPc,
         OrRequeue, Status, Terminal
<1>8. CASE Recheck(w, j)
  BY <1>8, GotoType, FaultType DEF Recheck, WorkerPc, OrRequeue, ReadFails
<1> QED BY <1>1, <1>2, <1>3, <1>4, <1>5, <1>6, <1>7, <1>8 DEF SettleStep

LEMMA RoundPreserves ==
    ASSUME Inv, NEW w \in Workers, NEW j \in Jobs,
           \/ ReserveReady(w, j) \/ TryAcquireJobLock(w, j) \/ AckJob(w, j)
           \/ RequeueJob(w, j) \/ ReleaseLock(w, j)
    PROVE  Inv'
<1> USE DEF Inv, TypeOK, Handler, faultVars, outside, ledger, queue, LedgerTypeOK,
        Q!QueueTypeOK,
        Conservation
<1>1. CASE ReserveReady(w, j)
  BY <1>1, QueueMoves, WorkerMoves DEF ReserveReady, WorkerPc
<1>2. CASE TryAcquireJobLock(w, j)
  BY <1>2, QueueMoves, GotoType, FaultType DEF TryAcquireJobLock, Call, WorkerPc
<1>3. CASE AckJob(w, j)
  BY <1>3, QueueMoves, GotoType, FaultType DEF AckJob, Call, WorkerPc
<1>4. CASE RequeueJob(w, j)
  BY <1>4, QueueMoves, GotoType, FaultType DEF RequeueJob, Call, WorkerPc
<1>5. CASE ReleaseLock(w, j)
  BY <1>5, QueueMoves, GotoType, FaultType DEF ReleaseLock, Call, WorkerPc
<1> QED BY <1>1, <1>2, <1>3, <1>4, <1>5

LEMMA DeathPreserves ==
    ASSUME Inv, NEW w \in Workers, WorkerDies(w) PROVE Inv'
BY GotoType, FaultType
   DEF WorkerDies, WorkerPc, Inv, TypeOK, ledger, queue, outside, LedgerTypeOK,
       Q!QueueTypeOK, Conservation

LEMMA InvStep == Inv /\ [Next]_vars => Inv'
<1> SUFFICES ASSUME Inv, [Next]_vars PROVE Inv'
  OBVIOUS
<1>1. CASE UNCHANGED vars
  BY <1>1 DEF vars, Inv, TypeOK, ledger, queue, outside, faultVars, LedgerTypeOK,
     Q!QueueTypeOK, Conservation
<1>2. ASSUME NEW j \in Jobs, HandlerStep(j) PROVE Inv'
  BY <1>2, SubmitPreserves, JobPreserves, HandlerPreserves DEF HandlerStep
<1>3. ASSUME NEW w \in Workers, NEW j \in Jobs, WorkerStep(w, j) PROVE Inv'
  BY <1>3, RoundPreserves, ProcessPreserves, SettlePreserves DEF WorkerStep
<1> QED BY <1>1, <1>2, <1>3, JobPreserves, HandlerPreserves, DeathPreserves DEF Next

\* Every part of the state keeps its type; in particular the balance and the
\* frozen pool of the user never become negative, whatever the handlers and
\* workers repeat, lose or do at once.
THEOREM TypeCorrect == Spec => []TypeOK
<1>1. Inv => TypeOK
  BY DEF Inv
<1> QED BY <1>1, InvInit, InvStep, PTL DEF Spec

\* Reserve, capture and release (usage_billing_repo.go) neither create nor
\* destroy money, for any number of jobs that share the frozen pool.
THEOREM MoneyIsConserved == Spec => []Conservation
<1>1. Inv => Conservation
  BY DEF Inv
<1> QED BY <1>1, InvInit, InvStep, PTL DEF Spec
-----------------------------------------------------------------------------
(* Completion follows the capture.                                          *)

\* A worker about to complete a job has seen its capture succeed.
ChargeInv ==
    /\ CompletedIsCharged
    /\ \A w \in Workers : worker[w].pc = "mark" => Captured(worker[w].job)

\* No statement takes a claim back.
LEMMA ClaimsGrow ==
    ASSUME LedgerTypeOK, NEW k \in Jobs, NEW j \in Jobs, NEW ok \in BOOLEAN,
           \/ Reserve(j, ok) \/ Release(j, ok) \/ \E c \in Costs : Capture(j, c, ok)
           \/ UNCHANGED ledger
    PROVE  Captured(k) => Captured(k)'
BY DEF LedgerTypeOK, Reserve, Release, Capture, ClaimAs, ledger, Captured

LEMMA LedgerNext ==
    TypeOK /\ [Next]_vars => LedgerStep(Costs) \/ UNCHANGED ledger
<1> SUFFICES ASSUME TypeOK, [Next]_vars PROVE LedgerStep(Costs) \/ UNCHANGED ledger
  OBVIOUS
<1>1. ASSUME NEW j \in Jobs, SubmitStep(j) PROVE LedgerStep(Costs) \/ UNCHANGED ledger
  BY <1>1 DEF SubmitStep, ReserveHold, CreatePendingItems, StartUpload, SubmitToProvider,
     RecordProviderJob, AbortOrphan, RecordFailure, HideFailure, RecordQueueFailure,
     Call, LedgerStep
<1>2. ASSUME NEW j \in Jobs, NEW h \in Handler,
             EnqueueJob(j, h) \/ ReleaseHold(j, h) \/ HandlerDies(j, h)
      PROVE  LedgerStep(Costs) \/ UNCHANGED ledger
  BY <1>2 DEF EnqueueJob, ReleaseHold, HandlerDies, Call, LedgerStep
<1>3. ASSUME NEW w \in Workers, NEW j \in Jobs, ProcessStep(w, j)
      PROVE  LedgerStep(Costs) \/ UNCHANGED ledger
  BY <1>3 DEF ProcessStep, ReadForPipeline, ReadForProcess, GetFromProvider,
     ApplyProviderState, IndexResults, StartSettling, ReleaseTerminalHold, ReadFails,
     Call, LedgerStep
<1>4. ASSUME NEW w \in Workers, NEW j \in Jobs, SettleStep(w, j)
      PROVE  LedgerStep(Costs) \/ UNCHANGED ledger
  <2>1. CASE CaptureHold(w, j)
    <3>1. job[j].cost \in Costs
      BY DEF TypeOK, JobRow
    <3> QED BY <2>1, <3>1 DEF CaptureHold, Call, LedgerStep
  <2> QED BY <1>4, <2>1 DEF SettleStep, ReadForSettle, MarkJobSettled, Recheck,
     RecordSettlementFailure, ReleaseExhausted, RecordReleaseFailure, FailExhaustedJob,
     ReadFails, Call, LedgerStep
<1>5. ASSUME NEW w \in Workers, NEW j \in Jobs, WorkerStep(w, j)
      PROVE  LedgerStep(Costs) \/ UNCHANGED ledger
  BY <1>3, <1>4, <1>5 DEF WorkerStep, ReserveReady, TryAcquireJobLock, AckJob, RequeueJob,
     ReleaseLock
<1>6. ASSUME NEW j \in Jobs, HandlerStep(j) PROVE LedgerStep(Costs) \/ UNCHANGED ledger
  BY <1>1, <1>2, <1>6 DEF HandlerStep, CancelAtProvider, CancelJob
<1> QED BY <1>2, <1>5, <1>6 DEF Next, CreateJob, ReplaySubmit, ReadForCancel, GrowStale,
     FailStaleUnsubmitted, UpstreamRuns, UpstreamEnds, UpstreamEndsUnreadable,
     LoseAccount, DeleteOutputs, MoveDueDelayed,
     RecoverStaleActive, LockExpires, WorkerDies, vars

\* A row is completed only by MarkSettled, whose caller has captured.
LEMMA WriteFinished ==
    ASSUME job \in [Jobs -> JobRow], NEW j \in Jobs, NEW k \in Jobs, NEW row \in JobRow,
           Write(j, row), Finished(k)'
    PROVE  Finished(k) \/ (k = j /\ row.status \in {"completed", "output_deleted"})
BY DEF Write, Finished, JobRow

LEMMA TransitionFinished ==
    ASSUME job \in [Jobs -> JobRow], NEW j \in Jobs, NEW k \in Jobs, NEW ok,
           NEW to \in Status \ {"completed", "output_deleted"}, Transition(j, to, ok),
           Finished(k)'
    PROVE  Finished(k)
<1> DEFINE row == [job[j] EXCEPT !.status = to]
<1>1. row \in JobRow /\ row.status = to
  BY DEF JobRow
<1> HIDE DEF row
<1>3. CASE CanTransition(job[j].status, to)
  <2>1. Write(j, row)
    BY <1>3 DEF Transition, row
  <2> QED BY <1>1, <2>1, WriteFinished
<1>4. CASE ~CanTransition(job[j].status, to)
  BY <1>4 DEF Transition, Finished
<1> QED BY <1>3, <1>4

LEMMA SameStatusFinished ==
    ASSUME job \in [Jobs -> JobRow], NEW j \in Jobs, NEW k \in Jobs, Finished(k)',
           \/ Write(j, [job[j] EXCEPT !.hidden = TRUE])
           \/ Write(j, [job[j] EXCEPT !.failing = FALSE])
           \/ job' = [job EXCEPT ![j].stale = TRUE]
           \/ UNCHANGED job
    PROVE  Finished(k)
<1>1. CASE Write(j, [job[j] EXCEPT !.hidden = TRUE])
  BY <1>1 DEF Write, Finished, JobRow
<1>2. CASE Write(j, [job[j] EXCEPT !.failing = FALSE])
  BY <1>2 DEF Write, Finished, JobRow
<1>3. CASE job' = [job EXCEPT ![j].stale = TRUE] \/ UNCHANGED job
  BY <1>3 DEF Finished, JobRow
<1> QED BY <1>1, <1>2, <1>3

LEMMA CountRetryFinished ==
    ASSUME job \in [Jobs -> JobRow], NEW j \in Jobs, NEW k \in Jobs, NEW ok,
           CountRetry(j, ok), Finished(k)'
    PROVE  Finished(k)
BY DEF CountRetry, Write, Finished, JobRow

\* Of the steps of a submission, a cancel, a recovery or a clean-up.
LEMMA HandlerFinished ==
    ASSUME TypeOK, NEW k \in Jobs, NEW j \in Jobs, Finished(k)',
           \/ SubmitStep(j) \/ CreateJob(j) \/ CancelJob(j) \/ GrowStale(j)
           \/ FailStaleUnsubmitted(j) \/ DeleteOutputs(j)
    PROVE  Finished(k)
<1>1. job \in [Jobs -> JobRow]
  BY DEF TypeOK
<1>2. CASE StartUpload(j) \/ CancelJob(j)
  BY <1>1, <1>2, TransitionFinished DEF StartUpload, CancelJob, Call, Status, Terminal,
     Finished
<1>3. CASE RecordProviderJob(j)
  BY <1>1, <1>3 DEF RecordProviderJob, Call, Write, Finished, JobRow
<1>4. CASE RecordFailure(j)
  BY <1>1, <1>4 DEF RecordFailure, Call, Write, Finished, JobRow
<1>5. CASE HideFailure(j)
  BY <1>1, <1>5, SameStatusFinished DEF HideFailure, Call
<1>6. CASE RecordQueueFailure(j)
  BY <1>1, <1>6, SameStatusFinished DEF RecordQueueFailure, Call
<1>7. CASE CreateJob(j) \/ DeleteOutputs(j)
  BY <1>1, <1>7 DEF CreateJob, DeleteOutputs, Write, Finished, JobRow
<1>10. CASE GrowStale(j)
  BY <1>1, <1>10, SameStatusFinished DEF GrowStale
<1>8. CASE FailStaleUnsubmitted(j)
  BY <1>1, <1>8 DEF FailStaleUnsubmitted, Call, Write, Finished, JobRow
<1>9. CASE ReserveHold(j) \/ CreatePendingItems(j) \/ SubmitToProvider(j) \/ AbortOrphan(j)
  BY <1>9 DEF ReserveHold, CreatePendingItems, SubmitToProvider, AbortOrphan, Finished
<1> QED BY <1>2, <1>3, <1>4, <1>5, <1>6, <1>7, <1>8, <1>9, <1>10 DEF SubmitStep

LEMMA WorkerFinished ==
    ASSUME TypeOK, NEW k \in Jobs, NEW w \in Workers, NEW j \in Jobs, Finished(k)',
           ProcessStep(w, j) \/ SettleStep(w, j)
    PROVE  Finished(k) \/ (worker[w].pc = "mark" /\ worker[w].job = k)
<1>1. job \in [Jobs -> JobRow]
  BY DEF TypeOK
<1>2. CASE ApplyProviderState(w, j)
  <2>1. \A s \in DOMAIN Answer : Answer[s].to \in Status \ {"completed", "output_deleted"}
    BY DEF Answer, Status, Terminal
  <2> QED BY <1>1, <1>2, <2>1, TransitionFinished DEF ApplyProviderState, Call, Finished
<1>3. CASE IndexResults(w, j)
  <2>1. ASSUME NEW c \in Costs, NEW ok, ReplaceItems(j, c, ok) PROVE Finished(k)
    BY <1>1, <2>1 DEF ReplaceItems, Write, Finished, JobRow
  <2> QED BY <1>1, <1>3, <2>1, TransitionFinished DEF IndexResults, Call, Status, Terminal,
     Finished
<1>4. CASE StartSettling(w, j) \/ FailExhaustedJob(w, j)
  BY <1>1, <1>4, TransitionFinished DEF StartSettling, FailExhaustedJob, Call, Status,
     Terminal, Finished
<1>5. CASE RecordSettlementFailure(w, j) \/ RecordReleaseFailure(w, j)
  BY <1>1, <1>5, CountRetryFinished DEF RecordSettlementFailure, RecordReleaseFailure, Call,
     Finished
<1>6. CASE MarkJobSettled(w, j)
  BY <1>1, <1>6 DEF MarkJobSettled, MarkSettled, Call, Write, Finished, JobRow, On
<1>7. CASE \/ ReadForPipeline(w, j) \/ ReadForProcess(w, j) \/ GetFromProvider(w, j)
           \/ ReleaseTerminalHold(w, j) \/ ReadForSettle(w, j) \/ CaptureHold(w, j)
           \/ ReleaseExhausted(w, j) \/ Recheck(w, j)
  BY <1>7 DEF ReadForPipeline, ReadForProcess, GetFromProvider, ReleaseTerminalHold,
     ReadForSettle, CaptureHold, ReleaseExhausted, Recheck, ReadFails, Finished
<1> QED BY <1>2, <1>3, <1>4, <1>5, <1>6, <1>7 DEF ProcessStep, SettleStep

\* Only a capture that succeeded takes a worker to "mark".
LEMMA MarkAfterCapture ==
    ASSUME TypeOK, NEW v \in Workers, NEW w \in Workers, NEW j \in Jobs,
           WorkerStep(w, j), worker'[v].pc = "mark"
    PROVE  \/ worker[v].pc = "mark" /\ worker'[v].job = worker[v].job
           \/ Captured(worker[v].job)'
<1> USE DEF On, Goto
<1>1. worker \in [Workers -> WorkerState] /\ claims \in [Jobs -> SUBSET Claim]
  BY DEF TypeOK, LedgerTypeOK
<1>2. CASE CaptureHold(w, j)
  <2>1. ASSUME Capture(j, job[j].cost, TRUE) PROVE Captured(j)'
    BY <1>1, <2>1 DEF Capture, ClaimAs, Claim, Captured, ledger
  <2>2. PICK ok \in BOOLEAN :
           /\ Call(LAMBDA r : Capture(j, job[j].cost, r), ledger, ok)
           /\ Goto(w, IF ok THEN "mark" ELSE "record")
    BY <1>2 DEF CaptureHold
  <2>3. worker[w].job = j
    BY <1>2 DEF CaptureHold
  <2>4. CASE ok
    BY <1>1, <2>1, <2>2, <2>3, <2>4 DEF Call, WorkerState
  <2>5. CASE ~ok
    BY <1>1, <2>2, <2>3, <2>5 DEF WorkerState
  <2> QED BY <2>4, <2>5
<1>3. CASE ProcessStep(w, j)
  <2>1. CASE ReadForPipeline(w, j) \/ ReadForProcess(w, j) \/ GetFromProvider(w, j)
    BY <1>1, <2>1 DEF ReadForPipeline, ReadForProcess, GetFromProvider, ReadFails,
       AfterProcessRead, WorkerState
  <2>2. CASE ApplyProviderState(w, j)
    <3>1. \A s \in DOMAIN Answer : Answer[s].pc # "mark"
      BY DEF Answer
    <3> QED BY <1>1, <2>2, <3>1 DEF ApplyProviderState, OrRequeue, WorkerState
  <2>3. CASE IndexResults(w, j) \/ StartSettling(w, j) \/ ReleaseTerminalHold(w, j)
    BY <1>1, <2>3 DEF IndexResults, StartSettling, ReleaseTerminalHold, OrRequeue,
       WorkerState
  <2> QED BY <1>3, <2>1, <2>2, <2>3 DEF ProcessStep
<1>4. CASE SettleStep(w, j) /\ ~CaptureHold(w, j)
  <2> USE DEF OrRequeue, WorkerState
  <2>1. CASE ReadForSettle(w, j) \/ Recheck(w, j)
    BY <1>1, <2>1 DEF ReadForSettle, Recheck, AfterSettleRead, ReadFails
  <2>2. CASE MarkJobSettled(w, j) \/ FailExhaustedJob(w, j)
    BY <1>1, <2>2 DEF MarkJobSettled, FailExhaustedJob
  <2>3. CASE RecordSettlementFailure(w, j) \/ RecordReleaseFailure(w, j)
    BY <1>1, <2>3 DEF RecordSettlementFailure, RecordReleaseFailure
  <2>4. CASE ReleaseExhausted(w, j)
    BY <1>1, <2>4 DEF ReleaseExhausted
  <2> QED BY <1>4, <2>1, <2>2, <2>3, <2>4 DEF SettleStep
<1>5. CASE \/ ReserveReady(w, j) \/ TryAcquireJobLock(w, j) \/ AckJob(w, j)
           \/ RequeueJob(w, j) \/ ReleaseLock(w, j)
  BY <1>1, <1>5 DEF ReserveReady, TryAcquireJobLock, AckJob, RequeueJob, ReleaseLock,
     WorkerState
<1> QED BY <1>2, <1>3, <1>4, <1>5 DEF WorkerStep

LEMMA ChargeStep == TypeOK /\ ChargeInv /\ [Next]_vars => ChargeInv'
<1> SUFFICES ASSUME TypeOK, ChargeInv, [Next]_vars PROVE ChargeInv'
  OBVIOUS
<1>1. ASSUME NEW k \in Jobs, Captured(k) PROVE Captured(k)'
  BY <1>1, LedgerNext, ClaimsGrow DEF LedgerStep, TypeOK
<1>2. ASSUME NEW k \in Jobs, Finished(k)' PROVE Captured(k)'
  <2>1. ASSUME NEW w \in Workers, NEW j \in Jobs, WorkerStep(w, j) PROVE Captured(k)'
    <3>1. CASE ProcessStep(w, j) \/ SettleStep(w, j)
      BY <1>1, <1>2, <3>1, WorkerFinished DEF ChargeInv, CompletedIsCharged
    <3>2. CASE UNCHANGED job
      BY <1>1, <1>2, <3>2 DEF ChargeInv, CompletedIsCharged, Finished
    <3> QED BY <2>1, <3>1, <3>2 DEF WorkerStep, ReserveReady, TryAcquireJobLock, AckJob,
         RequeueJob, ReleaseLock
  <2>2. ASSUME NEW j \in Jobs,
               \/ SubmitStep(j) \/ CreateJob(j) \/ CancelJob(j) \/ GrowStale(j)
               \/ FailStaleUnsubmitted(j) \/ DeleteOutputs(j)
        PROVE  Captured(k)'
    BY <1>1, <1>2, <2>2, HandlerFinished DEF ChargeInv, CompletedIsCharged
  <2>3. CASE UNCHANGED job
    BY <1>1, <1>2, <2>3 DEF ChargeInv, CompletedIsCharged, Finished
  <2>4. ASSUME NEW j \in Jobs, HandlerStep(j) PROVE Captured(k)'
    BY <2>2, <2>3, <2>4 DEF HandlerStep, CancelAtProvider, EnqueueJob, ReleaseHold
  <2> QED BY <2>1, <2>2, <2>3, <2>4 DEF Next, ReplaySubmit, ReadForCancel, UpstreamRuns,
       UpstreamEnds, UpstreamEndsUnreadable, LoseAccount, MoveDueDelayed,
     RecoverStaleActive, LockExpires, HandlerDies,
       WorkerDies, vars
<1>3. ASSUME NEW v \in Workers, worker'[v].pc = "mark" PROVE Captured(worker[v].job)'
  <2>1. worker[v].job \in Jobs
    BY DEF TypeOK, WorkerState
  <2>2. ASSUME NEW w \in Workers, NEW j \in Jobs, WorkerStep(w, j)
        PROVE  Captured(worker[v].job)'
    BY <1>1, <1>3, <2>1, <2>2, MarkAfterCapture DEF ChargeInv
  <2>3. CASE UNCHANGED worker
    BY <1>1, <1>3, <2>1, <2>3 DEF ChargeInv
  <2>4. ASSUME NEW w \in Workers, WorkerDies(w) PROVE Captured(worker[v].job)'
    BY <1>1, <1>3, <2>1, <2>4 DEF ChargeInv, WorkerDies, Goto, TypeOK, WorkerState
  <2>5. ASSUME NEW j \in Jobs, HandlerStep(j) PROVE UNCHANGED worker
    BY <2>5 DEF HandlerStep, SubmitStep, ReserveHold, CreatePendingItems, StartUpload,
       SubmitToProvider, RecordProviderJob, AbortOrphan, RecordFailure, HideFailure,
       RecordQueueFailure, CancelAtProvider, CancelJob, EnqueueJob, ReleaseHold
  <2> QED BY <2>2, <2>3, <2>4, <2>5 DEF Next, CreateJob, ReplaySubmit, ReadForCancel,
       GrowStale, FailStaleUnsubmitted, UpstreamRuns, UpstreamEnds,
     UpstreamEndsUnreadable, LoseAccount, DeleteOutputs,
       MoveDueDelayed, RecoverStaleActive, LockExpires, HandlerDies, vars
<1> QED BY <1>2, <1>3 DEF ChargeInv, CompletedIsCharged

\* No job is ever completed whose hold was not captured, for any number of jobs,
\* workers and faults of every kind, locks that lapse under their owners included.
THEOREM CompletionIsCharged == Spec => []CompletedIsCharged
<1>1. Init => ChargeInv
  BY DEF Init, ChargeInv, CompletedIsCharged, Finished
<1>2. ChargeInv => CompletedIsCharged
  BY DEF ChargeInv
<1> QED BY <1>1, <1>2, TypeCorrect, ChargeStep, PTL DEF Spec

-----------------------------------------------------------------------------
(* The job lock.                                                            *)

\* Unless a lock lapsed under its owner, whoever processes a job has its lock.
HolderHasLock ==
    ~late => \A w \in Workers :
      worker[w].pc \notin {"idle", "lock", "conflict"} => lock[worker[w].job] = w

LEMMA FaultNext == [Next]_vars => UNCHANGED faultVars \/ \E kind : Fault(kind)
<1> DEFINE F == UNCHANGED faultVars \/ \E kind : Fault(kind)
<1> SUFFICES ASSUME [Next]_vars PROVE F
  OBVIOUS
<1> USE DEF Call
<1>1. ASSUME NEW j \in Jobs, HandlerStep(j) PROVE F
  BY <1>1 DEF HandlerStep, SubmitStep, ReserveHold, CreatePendingItems, StartUpload,
     SubmitToProvider, RecordProviderJob, AbortOrphan, RecordFailure, HideFailure,
     RecordQueueFailure, CancelAtProvider, CancelJob, EnqueueJob, ReleaseHold
<1>2. ASSUME NEW w \in Workers, NEW j \in Jobs, WorkerStep(w, j) PROVE F
  <2>1. CASE ProcessStep(w, j)
    BY <2>1 DEF ProcessStep, ReadForPipeline, ReadForProcess, GetFromProvider, ReadFails,
       ApplyProviderState, IndexResults, StartSettling, ReleaseTerminalHold
  <2>2. CASE SettleStep(w, j)
    BY <2>2 DEF SettleStep, ReadForSettle, CaptureHold, MarkJobSettled, Recheck, ReadFails,
       RecordSettlementFailure, ReleaseExhausted, RecordReleaseFailure, FailExhaustedJob
  <2> QED BY <1>2, <2>1, <2>2 DEF WorkerStep, ReserveReady, TryAcquireJobLock, AckJob,
       RequeueJob, ReleaseLock
<1> QED BY <1>1, <1>2 DEF Next, CreateJob, ReplaySubmit, ReadForCancel, GrowStale,
     FailStaleUnsubmitted, UpstreamRuns, UpstreamEnds, UpstreamEndsUnreadable,
     LoseAccount, DeleteOutputs, MoveDueDelayed,
     RecoverStaleActive, LockExpires, LapsesIf, HandlerDies, WorkerDies, vars

\* The steps of a round neither move a worker to another job nor touch the lock.
LEMMA RoundKeepsLock ==
    ASSUME TypeOK, NEW w \in Workers, NEW j \in Jobs,
           ProcessStep(w, j) \/ SettleStep(w, j) \/ AckJob(w, j)
    PROVE  /\ lock' = lock
           /\ worker[w].pc \notin {"idle", "lock", "conflict"}
           /\ \A v \in Workers : worker'[v].job = worker[v].job
           /\ \A v \in Workers \ {w} : worker'[v] = worker[v]
<1> USE DEF On, Goto, OrRequeue, ReadFails, queue
<1>1. worker \in [Workers -> WorkerState]
  BY DEF TypeOK
<1>2. CASE \/ ReadForPipeline(w, j) \/ ReadForProcess(w, j) \/ GetFromProvider(w, j)
           \/ ReadForSettle(w, j) \/ Recheck(w, j)
  BY <1>1, <1>2 DEF ReadForPipeline, ReadForProcess, GetFromProvider, ReadForSettle,
     Recheck, WorkerState
<1>3. CASE ApplyProviderState(w, j) \/ IndexResults(w, j) \/ StartSettling(w, j)
  <2>1. /\ worker[w].pc \in {"apply", "index", "toSettling"}
        /\ UNCHANGED queue
        /\ \E pc : worker' = [worker EXCEPT ![w].pc = pc]
    BY <1>3 DEF ApplyProviderState, IndexResults, StartSettling
  <2> QED BY <1>1, <2>1 DEF WorkerState
<1>4. CASE ReleaseTerminalHold(w, j) \/ CaptureHold(w, j) \/ ReleaseExhausted(w, j)
  <2>1. /\ worker[w].pc \in {"releaseTerminal", "capture", "exhaust"}
        /\ UNCHANGED queue
        /\ \E pc : worker' = [worker EXCEPT ![w].pc = pc]
    BY <1>4 DEF ReleaseTerminalHold, CaptureHold, ReleaseExhausted
  <2> QED BY <1>1, <2>1 DEF WorkerState
<1>5. CASE MarkJobSettled(w, j) \/ RecordReleaseFailure(w, j) \/ FailExhaustedJob(w, j)
  <2>1. /\ worker[w].pc \in {"mark", "releaseFailed", "failJob"}
        /\ UNCHANGED queue
        /\ \E pc : worker' = [worker EXCEPT ![w].pc = pc]
    BY <1>5 DEF MarkJobSettled, RecordReleaseFailure, FailExhaustedJob
  <2> QED BY <1>1, <2>1 DEF WorkerState
<1>6. CASE RecordSettlementFailure(w, j)
  BY <1>1, <1>6 DEF RecordSettlementFailure, WorkerState
<1>7. CASE AckJob(w, j)
  BY <1>1, <1>7 DEF AckJob, Call, Q!Ack, WorkerState
<1> QED BY <1>2, <1>3, <1>4, <1>5, <1>6, <1>7 DEF ProcessStep, SettleStep

LEMMA HolderStep == TypeOK /\ HolderHasLock /\ [Next]_vars => HolderHasLock'
<1> SUFFICES ASSUME TypeOK, HolderHasLock, [Next]_vars, ~late',
                    NEW v \in Workers, worker'[v].pc \notin {"idle", "lock", "conflict"}
             PROVE  lock'[worker'[v].job] = v
  BY DEF HolderHasLock
<1>1. /\ worker \in [Workers -> WorkerState]
      /\ lock \in [Jobs -> Workers \cup {NoWorker}]
      /\ worker[v].job \in Jobs
  BY DEF TypeOK, Q!QueueTypeOK, WorkerState
<1>2. ~late
  BY FaultNext DEF Fault, faultVars
<1>3. ASSUME worker'[v].job = worker[v].job, lock' = lock,
             worker[v].pc \notin {"idle", "lock", "conflict"}
      PROVE  lock'[worker'[v].job] = v
  BY <1>2, <1>3 DEF HolderHasLock
<1>4. CASE UNCHANGED <<worker, lock>>
  BY <1>3, <1>4
<1>5. ASSUME NEW w \in Workers, NEW j \in Jobs, WorkerStep(w, j)
      PROVE  lock'[worker'[v].job] = v
  <2> USE DEF On, Goto, queue
  <2>1. CASE ProcessStep(w, j) \/ SettleStep(w, j) \/ AckJob(w, j)
    BY <1>3, <2>1, RoundKeepsLock
  <2>2. CASE ReserveReady(w, j)
    BY <1>1, <1>3, <2>2 DEF ReserveReady, Q!ReserveReady, WorkerState
  <2>3. CASE TryAcquireJobLock(w, j)
    <3>1. CASE v = w
      BY <1>1, <2>3, <3>1 DEF TryAcquireJobLock, Call, Q!TakeLock, WorkerState
    <3>2. CASE v # w
      <4>1. worker'[v] = worker[v] /\ lock[worker[v].job] = v
        BY <1>1, <1>2, <2>3, <3>2 DEF TryAcquireJobLock, WorkerState, HolderHasLock
      <4>2. lock' = lock \/ (lock[j] = NoWorker /\ lock' = [lock EXCEPT ![j] = w])
        BY <2>3 DEF TryAcquireJobLock, Call, Q!TakeLock
      <4> QED BY <1>1, <4>1, <4>2, BatchImageAssumption
    <3> QED BY <3>1, <3>2
  <2>4. CASE RequeueJob(w, j)
    BY <1>1, <1>3, <2>4 DEF RequeueJob, Call, Q!RequeueAfter, WorkerState
  <2>5. CASE ReleaseLock(w, j)
    <3>1. v # w
      BY <1>1, <2>5 DEF ReleaseLock, WorkerState
    <3>2. worker'[v] = worker[v] /\ lock[worker[v].job] = v
      BY <1>1, <1>2, <2>5, <3>1 DEF ReleaseLock, WorkerState, HolderHasLock
    <3>3. lock' = lock \/ lock' = [lock EXCEPT ![j] = IF @ = w THEN NoWorker ELSE @]
      BY <2>5 DEF ReleaseLock, Call, Q!DropLock
    <3> QED BY <1>1, <3>1, <3>2, <3>3
  <2> QED BY <1>5, <2>1, <2>2, <2>3, <2>4, <2>5 DEF WorkerStep
<1>6. ASSUME NEW j \in Jobs, LockExpires(j) PROVE lock'[worker'[v].job] = v
  <2>1. worker' = worker /\ lock[worker[v].job] = v /\ Holding(v, worker[v].job)
    BY <1>2, <1>6 DEF LockExpires, HolderHasLock, Holding
  <2>2. lock' = [lock EXCEPT ![j] = NoWorker]
    BY <1>6 DEF LockExpires, Q!ExpireLock
  <2>3. ~Holding(lock[j], j)
    BY <1>6 DEF LockExpires, LapsesIf, Fault
  <2> QED BY <1>1, <2>1, <2>2, <2>3
<1>7. ASSUME NEW w \in Workers, WorkerDies(w) PROVE lock'[worker'[v].job] = v
  BY <1>1, <1>3, <1>7 DEF WorkerDies, Goto, WorkerState, queue
<1>8. ASSUME NEW j \in Jobs, HandlerStep(j) PROVE UNCHANGED <<worker, lock>>
  BY <1>8 DEF HandlerStep, SubmitStep, ReserveHold, CreatePendingItems, StartUpload,
     SubmitToProvider, RecordProviderJob, AbortOrphan, RecordFailure, HideFailure,
     RecordQueueFailure, CancelAtProvider, CancelJob, EnqueueJob, ReleaseHold, Call,
     Q!Enqueue, queue
<1> QED BY <1>4, <1>5, <1>6, <1>7, <1>8 DEF Next, CreateJob, ReplaySubmit, ReadForCancel,
     GrowStale, FailStaleUnsubmitted, UpstreamRuns, UpstreamEnds,
     UpstreamEndsUnreadable, LoseAccount, DeleteOutputs,
     MoveDueDelayed, RecoverStaleActive, Q!MoveDueDelayedToReady, Q!RecoverStaleActive,
     HandlerDies, vars, queue

\* The job lock (TryAcquireJobLock and its release by token) keeps two workers
\* from processing one job, for any number of workers, however the queue hands
\* the job out and whichever replies are lost, unless a live worker's lock lapses.
THEOREM WorkersExclude == Spec => []OneWorker
<1>1. Init => HolderHasLock
  BY DEF Init, HolderHasLock
<1>2. HolderHasLock => OneWorker
  BY DEF HolderHasLock, OneWorker, Holding
<1> QED BY <1>1, <1>2, TypeCorrect, HolderStep, PTL DEF Spec
-----------------------------------------------------------------------------
(* A job in hand stays in the queue.                                        *)

Over(k) == job[k].status \in Terminal

\* While nothing lapsed, whoever works on a job has it in the queue until it is
\* over, acknowledges it only when it is over, and is not surprised by another
\* worker that begins to settle it.
QueueInv ==
    /\ InHandIsQueued
    /\ ~late => \A w \in Workers :
         /\ worker[w].pc \notin {"idle", "unlock"} =>
              Q!Queued(worker[w].job) \/ Over(worker[w].job)
         /\ worker[w].pc \in {"ack", "releaseTerminal"} => Over(worker[w].job)
         /\ worker[w].pc = "process" => job[worker[w].job].status # "settling"

\* The statuses a row may get in one step, and who gives them.
StatusStep(k) ==
    \/ job'[k].status = job[k].status
    \/ Over(k)'
    \/ ~Over(k) /\ job'[k].status \in {"created", "uploading", "submitted"}
    \/ /\ ~Over(k)
       /\ \E w \in Workers :
            \/ /\ On(w, k, "apply") \/ On(w, k, "index")
               /\ job'[k].status \in {"running", "indexing"}
            \/ On(w, k, "toSettling") /\ job'[k].status = "settling"

LEMMA WriteStatus ==
    ASSUME job \in [Jobs -> JobRow], NEW j \in Jobs, NEW k \in Jobs, NEW row \in JobRow,
           Write(j, row)
    PROVE  job'[k].status = IF k = j THEN row.status ELSE job[k].status
BY DEF Write, JobRow

LEMMA TransitionStatus ==
    ASSUME job \in [Jobs -> JobRow], NEW j \in Jobs, NEW k \in Jobs, NEW ok,
           NEW to \in Status, Transition(j, to, ok)
    PROVE  /\ job'[k].status = job[k].status
              \/ (k = j /\ job'[k].status = to /\ (Over(k) => to \in Terminal))
           /\ ok => job'[j].status = to
<1> DEFINE row == [job[j] EXCEPT !.status = to]
<1>1. row \in JobRow /\ row.status = to
  BY DEF JobRow
<1> HIDE DEF row
<1>2. CASE CanTransition(job[j].status, to)
  <2>1. Write(j, row) /\ (Over(j) => to \in Terminal)
    BY <1>2 DEF Transition, row, CanTransition, Over, Terminal
  <2> QED BY <1>1, <2>1, WriteStatus
<1>3. CASE ~CanTransition(job[j].status, to)
  BY <1>3 DEF Transition
<1> QED BY <1>2, <1>3

LEMMA TransitionOver ==
    ASSUME job \in [Jobs -> JobRow], NEW j \in Jobs, NEW to \in Terminal,
           Transition(j, to, TRUE)
    PROVE  Over(j)'
<1>1. to \in Status
  BY DEF Status
<1>2. job'[j].status = to
  BY <1>1, TransitionStatus
<1> QED BY <1>2 DEF Over

LEMMA SameStatus ==
    ASSUME job \in [Jobs -> JobRow], NEW j \in Jobs, NEW k \in Jobs, NEW ok,
           \/ CountRetry(j, ok) \/ \E c \in Costs : ReplaceItems(j, c, ok)
    PROVE  job'[k].status = job[k].status
<1>1. CASE CountRetry(j, ok)
  BY <1>1 DEF CountRetry, Write, JobRow
<1>2. ASSUME NEW c \in Costs, ReplaceItems(j, c, ok) PROVE job'[k].status = job[k].status
  BY <1>2 DEF ReplaceItems, Write, JobRow
<1> QED BY <1>1, <1>2

LEMMA HandlerStatus ==
    ASSUME TypeOK, NEW k \in Jobs, NEW j \in Jobs,
           \/ SubmitStep(j) \/ CreateJob(j) \/ CancelJob(j) \/ GrowStale(j)
           \/ FailStaleUnsubmitted(j) \/ DeleteOutputs(j)
    PROVE  StatusStep(k) /\ (Over(k) => Over(k)')
<1> USE DEF StatusStep, Call, Over
<1>1. job \in [Jobs -> JobRow]
  BY DEF TypeOK
<1>2. CASE CreateJob(j)
  <2>1. [job[j] EXCEPT !.status = "created"] \in JobRow
    BY <1>1 DEF JobRow, Status
  <2>2. [job[j] EXCEPT !.status = "created"].status = "created" /\ ~Over(j)
    BY <1>1, <1>2 DEF CreateJob, Terminal, JobRow
  <2>3. Write(j, [job[j] EXCEPT !.status = "created"])
    BY <1>2 DEF CreateJob
  <2> QED BY <1>1, <2>1, <2>2, <2>3, WriteStatus
<1>3. CASE StartUpload(j)
  <2>1. UNCHANGED job \/ \E ok \in BOOLEAN : Transition(j, "uploading", ok)
    BY <1>3 DEF StartUpload
  <2>2. "uploading" \in Status \ Terminal
    BY DEF Status, Terminal
  <2> QED BY <1>1, <2>1, <2>2, TransitionStatus
<1>4. CASE CancelJob(j)
  <2>1. UNCHANGED job \/ \E ok \in BOOLEAN : Transition(j, "cancelled", ok)
    BY <1>4 DEF CancelJob
  <2> QED BY <1>1, <2>1, TransitionStatus DEF Status, Terminal
<1>5. CASE RecordProviderJob(j)
  <2> DEFINE row == [job[j] EXCEPT !.status = "submitted", !.submitted = TRUE]
  <2>1. row \in JobRow /\ row.status = "submitted"
    BY <1>1 DEF JobRow, Status
  <2>2. UNCHANGED job \/ (Write(j, row) /\ CanTransition(job[j].status, "submitted"))
    BY <1>5 DEF RecordProviderJob
  <2>3. CanTransition(job[j].status, "submitted") => ~Over(j)
    BY DEF CanTransition, Terminal
  <2> HIDE DEF row
  <2> QED BY <1>1, <2>1, <2>2, <2>3, WriteStatus
<1>6. CASE RecordFailure(j) \/ FailStaleUnsubmitted(j)
  <2>1. [job[j] EXCEPT !.status = "failed", !.failing = FALSE] \in JobRow
    BY <1>1 DEF JobRow, Status, Terminal
  <2> QED BY <1>1, <1>6, <2>1, WriteStatus DEF RecordFailure, FailStaleUnsubmitted, Terminal,
       JobRow
<1>7. CASE HideFailure(j) \/ RecordQueueFailure(j)
  <2>1. /\ [job[j] EXCEPT !.hidden = TRUE] \in JobRow
        /\ [job[j] EXCEPT !.failing = FALSE] \in JobRow
    BY <1>1 DEF JobRow
  <2>2. \/ Write(j, [job[j] EXCEPT !.hidden = TRUE])
        \/ Write(j, [job[j] EXCEPT !.failing = FALSE])
        \/ UNCHANGED job
    BY <1>7 DEF HideFailure, RecordQueueFailure
  <2>3. job'[k].status = job[k].status
    BY <1>1, <2>1, <2>2, WriteStatus DEF JobRow
  <2> QED BY <2>3
<1>8. CASE GrowStale(j)
  BY <1>1, <1>8 DEF GrowStale, JobRow
<1>9. CASE DeleteOutputs(j)
  BY <1>1, <1>9 DEF DeleteOutputs, Write, Terminal, JobRow
<1>10. CASE ReserveHold(j) \/ CreatePendingItems(j) \/ SubmitToProvider(j) \/ AbortOrphan(j)
  BY <1>10 DEF ReserveHold, CreatePendingItems, SubmitToProvider, AbortOrphan
<1> QED BY <1>2, <1>3, <1>4, <1>5, <1>6, <1>7, <1>8, <1>9, <1>10 DEF SubmitStep

LEMMA WorkerStatus ==
    ASSUME TypeOK, NEW k \in Jobs, NEW w \in Workers, NEW j \in Jobs,
           ProcessStep(w, j) \/ SettleStep(w, j)
    PROVE  StatusStep(k) /\ (Over(k) => Over(k)')
<1> USE DEF StatusStep, Call, Over
<1>1. job \in [Jobs -> JobRow]
  BY DEF TypeOK
<1>2. CASE ApplyProviderState(w, j)
  <2>1. \A s \in DOMAIN Answer : /\ Answer[s].to \in Status
                                 /\ Answer[s].to \in Terminal \cup {"running", "indexing"}
    BY DEF Answer, Status, Terminal
  <2>2. \/ UNCHANGED job
        \/ \E s \in DOMAIN Answer, ok \in BOOLEAN : Transition(j, Answer[s].to, ok)
    BY <1>2 DEF ApplyProviderState
  <2>3. \/ job'[k].status = job[k].status
        \/ /\ k = j /\ job'[k].status \in Terminal \cup {"running", "indexing"}
           /\ Over(k) => Over(k)'
    BY <1>1, <2>1, <2>2, TransitionStatus
  <2>4. On(w, j, "apply")
    BY <1>2 DEF ApplyProviderState
  <2> QED BY <2>3, <2>4
<1>3. CASE IndexResults(w, j)
  <2>1. \/ UNCHANGED job
        \/ \E ok \in BOOLEAN : \/ \E c \in Costs : ReplaceItems(j, c, ok)
                              \/ Transition(j, "failed", ok)
    BY <1>3 DEF IndexResults
  <2>2. "failed" \in Status /\ "failed" \in Terminal
    BY DEF Status, Terminal
  <2> QED BY <1>1, <2>1, <2>2, TransitionStatus, SameStatus
<1>4. CASE StartSettling(w, j)
  <2>1. "settling" \in Status \ Terminal
    BY DEF Status, Terminal
  <2>2. \E ok \in BOOLEAN : UNCHANGED job \/ Transition(j, "settling", ok)
    BY <1>4 DEF StartSettling
  <2>3. \/ job'[k].status = job[k].status
        \/ k = j /\ job'[k].status = "settling" /\ ~Over(k)
    BY <1>1, <2>1, <2>2, TransitionStatus
  <2>4. On(w, j, "toSettling")
    BY <1>4 DEF StartSettling
  <2> QED BY <2>3, <2>4
<1>5. CASE FailExhaustedJob(w, j)
  BY <1>1, <1>5, TransitionStatus DEF FailExhaustedJob, Status, Terminal
<1>6. CASE RecordSettlementFailure(w, j) \/ RecordReleaseFailure(w, j)
  BY <1>1, <1>6, SameStatus DEF RecordSettlementFailure, RecordReleaseFailure
<1>7. CASE MarkJobSettled(w, j)
  BY <1>1, <1>7 DEF MarkJobSettled, MarkSettled, Write, JobRow, Terminal
<1>8. CASE \/ ReadForPipeline(w, j) \/ ReadForProcess(w, j) \/ GetFromProvider(w, j)
           \/ ReleaseTerminalHold(w, j) \/ ReadForSettle(w, j) \/ CaptureHold(w, j)
           \/ ReleaseExhausted(w, j) \/ Recheck(w, j)
  BY <1>8 DEF ReadForPipeline, ReadForProcess, GetFromProvider, ReleaseTerminalHold,
     ReadForSettle, CaptureHold, ReleaseExhausted, Recheck, ReadFails
<1> QED BY <1>2, <1>3, <1>4, <1>5, <1>6, <1>7, <1>8 DEF ProcessStep, SettleStep

LEMMA StatusMoves ==
    ASSUME TypeOK, [Next]_vars, NEW k \in Jobs
    PROVE  StatusStep(k) /\ (Over(k) => Over(k)')
<1>1. CASE UNCHANGED job
  BY <1>1 DEF StatusStep, Over
<1>2. ASSUME NEW w \in Workers, NEW j \in Jobs, WorkerStep(w, j)
      PROVE  UNCHANGED job \/ ProcessStep(w, j) \/ SettleStep(w, j)
  BY <1>2 DEF WorkerStep, ReserveReady, TryAcquireJobLock, AckJob, RequeueJob, ReleaseLock
<1>3. ASSUME NEW j \in Jobs, HandlerStep(j)
      PROVE  UNCHANGED job \/ SubmitStep(j) \/ CancelJob(j)
  BY <1>3 DEF HandlerStep, CancelAtProvider, EnqueueJob, ReleaseHold
<1> QED BY <1>1, <1>2, <1>3, HandlerStatus, WorkerStatus DEF Next, ReplaySubmit,
     ReadForCancel, UpstreamRuns, UpstreamEnds, UpstreamEndsUnreadable, LoseAccount,
     MoveDueDelayed, RecoverStaleActive,
     LockExpires, HandlerDies, WorkerDies, vars

\* A job leaves the queue only when a worker acknowledges it.
LEMMA QueuedStays ==
    ASSUME TypeOK, [Next]_vars, NEW k \in Jobs, Q!Queued(k)
    PROVE  Q!Queued(k)' \/ \E w \in Workers : On(w, k, "ack")
<1> USE DEF Q!Queued, Q!PushReady, Call
<1>1. ready \in [Jobs -> Nat]
  BY DEF TypeOK, Q!QueueTypeOK
<1>2. ASSUME UNCHANGED queue PROVE Q!Queued(k)'
  BY <1>2 DEF queue
<1>3. ASSUME NEW j \in Jobs, HandlerStep(j) PROVE Q!Queued(k)'
  <2>1. ASSUME NEW h \in Handler, EnqueueJob(j, h) PROVE Q!Queued(k)'
    BY <1>1, <1>2, <2>1 DEF EnqueueJob, Q!Enqueue, queue
  <2> QED BY <1>2, <1>3, <2>1 DEF HandlerStep, SubmitStep, ReserveHold, CreatePendingItems,
       StartUpload, SubmitToProvider, RecordProviderJob, AbortOrphan, RecordFailure,
       HideFailure, RecordQueueFailure, CancelAtProvider, CancelJob, ReleaseHold
<1>4. ASSUME NEW w \in Workers, NEW j \in Jobs, WorkerStep(w, j)
      PROVE  Q!Queued(k)' \/ On(w, k, "ack")
  <2>1. CASE ReserveReady(w, j)
    BY <1>1, <2>1 DEF ReserveReady, Q!ReserveReady
  <2>2. CASE TryAcquireJobLock(w, j) \/ ReleaseLock(w, j)
    BY <2>2 DEF TryAcquireJobLock, ReleaseLock, Q!TakeLock, Q!DropLock, queue
  <2>3. CASE AckJob(w, j)
    BY <1>2, <2>3 DEF AckJob, Q!Ack, queue
  <2>4. CASE RequeueJob(w, j)
    BY <1>2, <2>4 DEF RequeueJob, Q!RequeueAfter, queue
  <2>5. CASE ProcessStep(w, j)
    BY <1>2, <2>5 DEF ProcessStep, ReadForPipeline, ReadForProcess, GetFromProvider,
       ReadFails, ApplyProviderState, IndexResults, StartSettling, ReleaseTerminalHold
  <2>6. CASE SettleStep(w, j)
    BY <1>2, <2>6 DEF SettleStep, ReadForSettle, CaptureHold, MarkJobSettled, Recheck,
       ReadFails, RecordSettlementFailure, ReleaseExhausted, RecordReleaseFailure,
       FailExhaustedJob
  <2> QED BY <1>4, <2>1, <2>2, <2>3, <2>4, <2>5, <2>6 DEF WorkerStep
<1>5. ASSUME NEW j \in Jobs, MoveDueDelayed(j) \/ RecoverStaleActive(j) PROVE Q!Queued(k)'
  <2>1. CASE MoveDueDelayed(j)
    BY <1>1, <2>1 DEF MoveDueDelayed, Q!MoveDueDelayedToReady
  <2>2. CASE RecoverStaleActive(j)
    BY <1>1, <2>2 DEF RecoverStaleActive, Q!RecoverStaleActive
  <2> QED BY <1>5, <2>1, <2>2
<1>6. ASSUME NEW j \in Jobs, LockExpires(j) PROVE Q!Queued(k)'
  BY <1>6 DEF LockExpires, Q!ExpireLock
<1> QED BY <1>2, <1>3, <1>4, <1>5, <1>6 DEF Next, CreateJob, ReplaySubmit, ReadForCancel,
     GrowStale, FailStaleUnsubmitted, UpstreamRuns, UpstreamEnds,
     UpstreamEndsUnreadable, LoseAccount, DeleteOutputs,
     HandlerDies, WorkerDies, vars

\* What a round may do to the worker that takes it.
PcStep(w) ==
    /\ worker[w].pc \notin {"idle", "unlock"}
    /\ worker'[w].job = worker[w].job
    /\ worker'[w].pc \in {"ack", "releaseTerminal"} =>
         \/ worker[w].pc \in {"ack", "releaseTerminal"}
         \/ Over(worker[w].job)'
         \/ worker[w].pc = "process" /\ job[worker[w].job].status = "settling"
    /\ worker'[w].pc = "process" => job'[worker[w].job].status # "settling"

LEMMA GotoPc ==
    ASSUME worker \in [Workers -> WorkerState], NEW w \in Workers, NEW j \in Jobs,
           worker[w].job = j, worker[w].pc \notin {"idle", "unlock"},
           NEW pc, pc # "process", Goto(w, pc),
           pc \in {"ack", "releaseTerminal"} => Over(j)'
    PROVE  PcStep(w)
BY DEF PcStep, Goto, WorkerState, Over

LEMMA ProcessPc ==
    ASSUME TypeOK, NEW w \in Workers, NEW j \in Jobs, ProcessStep(w, j)
    PROVE  PcStep(w)
<1> USE DEF PcStep, On, Goto, OrRequeue, ReadFails, WorkerState
<1>1. worker \in [Workers -> WorkerState] /\ job \in [Jobs -> JobRow]
  BY DEF TypeOK
<1>2. CASE ReadForPipeline(w, j)
  BY <1>1, <1>2 DEF ReadForPipeline
<1>3. CASE ReadForProcess(w, j)
  BY <1>1, <1>3 DEF ReadForProcess, AfterProcessRead, Over, Terminal
<1>4. CASE GetFromProvider(w, j)
  BY <1>1, <1>4 DEF GetFromProvider
<1>5. CASE ApplyProviderState(w, j)
  <2>1. \A s \in DOMAIN Answer :
          /\ Answer[s].to \in Status /\ Answer[s].pc \in {"requeue", "index", "releaseTerminal"}
          /\ Answer[s].pc = "releaseTerminal" => Answer[s].to \in Terminal
    BY DEF Answer, Status, Terminal
  <2>2. \/ Goto(w, "requeue")
        \/ \E s \in DOMAIN Answer : Transition(j, Answer[s].to, TRUE) /\ Goto(w, Answer[s].pc)
    BY <1>5 DEF ApplyProviderState, Call
  <2>3. \/ Goto(w, "requeue") \/ Goto(w, "index")
        \/ Goto(w, "releaseTerminal") /\ Over(j)'
    BY <1>1, <2>1, <2>2, TransitionStatus DEF Over
  <2>4. worker[w].job = j /\ worker[w].pc \notin {"idle", "unlock"}
    BY <1>5 DEF ApplyProviderState
  <2> HIDE DEF Goto, PcStep
  <2> QED BY <1>1, <2>3, <2>4, GotoPc
<1>6. CASE IndexResults(w, j)
  <2>1. \/ Goto(w, "requeue") \/ Goto(w, "toSettling")
        \/ Goto(w, "releaseTerminal") /\ Transition(j, "failed", TRUE)
    BY <1>6 DEF IndexResults, Call
  <2>2. "failed" \in Terminal
    BY DEF Terminal
  <2>3. Transition(j, "failed", TRUE) => Over(j)'
    BY <1>1, <2>2, TransitionOver
  <2>4. \/ Goto(w, "requeue") \/ Goto(w, "toSettling")
        \/ Goto(w, "releaseTerminal") /\ Over(j)'
    BY <2>1, <2>3
  <2>5. worker[w].job = j /\ worker[w].pc \notin {"idle", "unlock"}
    BY <1>6 DEF IndexResults
  <2> HIDE DEF Goto, PcStep
  <2> QED BY <1>1, <2>4, <2>5, GotoPc
<1>7. CASE StartSettling(w, j)
  BY <1>1, <1>7, GotoPc DEF StartSettling
<1>8. CASE ReleaseTerminalHold(w, j)
  BY <1>1, <1>8 DEF ReleaseTerminalHold
<1> QED BY <1>2, <1>3, <1>4, <1>5, <1>6, <1>7, <1>8 DEF ProcessStep

LEMMA SettlePc ==
    ASSUME TypeOK, NEW w \in Workers, NEW j \in Jobs, SettleStep(w, j)
    PROVE  PcStep(w)
<1> USE DEF PcStep, On, Goto, OrRequeue, ReadFails, WorkerState
<1>1. worker \in [Workers -> WorkerState] /\ job \in [Jobs -> JobRow]
  BY DEF TypeOK
<1>2. CASE ReadForSettle(w, j)
  BY <1>1, <1>2 DEF ReadForSettle, AfterSettleRead, Over, Terminal
<1>3. CASE MarkJobSettled(w, j)
  <2>1. Goto(w, "requeue") \/ (Goto(w, "ack") /\ MarkSettled(j, TRUE))
    BY <1>3 DEF MarkJobSettled, Call
  <2>2. MarkSettled(j, TRUE) => Over(j)'
    <3> DEFINE row == [job[j] EXCEPT !.status = "completed"]
    <3>1. row \in JobRow /\ row.status = "completed"
      BY <1>1 DEF JobRow, Status, Terminal
    <3>2. MarkSettled(j, TRUE) => Write(j, row)
      BY DEF MarkSettled
    <3> HIDE DEF row
    <3> QED BY <1>1, <3>1, <3>2, WriteStatus DEF Over, Terminal
  <2>3. worker[w].job = j /\ worker[w].pc \notin {"idle", "unlock"}
    BY <1>3 DEF MarkJobSettled
  <2> HIDE DEF Goto, PcStep
  <2> QED BY <1>1, <2>1, <2>2, <2>3, GotoPc
<1>4. CASE Recheck(w, j)
  BY <1>1, <1>4 DEF Recheck, Over
<1>5. CASE \/ CaptureHold(w, j) \/ ReleaseExhausted(w, j) \/ RecordReleaseFailure(w, j)
           \/ FailExhaustedJob(w, j)
  <2>1. \/ Goto(w, "mark") \/ Goto(w, "record") \/ Goto(w, "failJob")
        \/ Goto(w, "releaseFailed") \/ Goto(w, "recheck") \/ Goto(w, "requeue")
    BY <1>5 DEF CaptureHold, ReleaseExhausted, RecordReleaseFailure, FailExhaustedJob
  <2>2. worker[w].job = j /\ worker[w].pc \in {"capture", "exhaust", "releaseFailed", "failJob"}
    BY <1>5 DEF CaptureHold, ReleaseExhausted, RecordReleaseFailure, FailExhaustedJob
  <2> QED BY <1>1, <2>1, <2>2
<1>6. CASE RecordSettlementFailure(w, j)
  BY <1>1, <1>6 DEF RecordSettlementFailure
<1> QED BY <1>2, <1>3, <1>4, <1>5, <1>6 DEF SettleStep

\* How a worker comes to have a job in hand.
LEMMA WorkerMovesTo ==
    ASSUME TypeOK, [Next]_vars, NEW v \in Workers, worker'[v].pc \notin {"idle", "unlock"}
    PROVE  \/ UNCHANGED <<worker[v]>> \/ PcStep(v)
           \/ worker'[v].pc = "lock" /\ Q!Queued(worker[v].job)'
<1>1. worker \in [Workers -> WorkerState] /\ ready \in [Jobs -> Nat]
  BY DEF TypeOK, Q!QueueTypeOK
<1>2. CASE UNCHANGED worker
  BY <1>2
<1>3. ASSUME NEW w \in Workers, NEW j \in Jobs, WorkerStep(w, j)
      PROVE  \/ UNCHANGED <<worker[v]>> \/ PcStep(v)
             \/ worker'[v].pc = "lock" /\ Q!Queued(worker[v].job)'
  <2>1. CASE ProcessStep(w, j) \/ SettleStep(w, j)
    BY <2>1, ProcessPc, SettlePc, RoundKeepsLock
  <2>2. CASE ReserveReady(w, j)
    BY <1>1, <2>2 DEF ReserveReady, Q!ReserveReady, Q!Queued, WorkerState
  <2>3. CASE TryAcquireJobLock(w, j)
    BY <1>1, <2>3 DEF TryAcquireJobLock, PcStep, On, Goto, WorkerState
  <2>4. CASE AckJob(w, j) \/ RequeueJob(w, j) \/ ReleaseLock(w, j)
    BY <1>1, <2>4 DEF AckJob, RequeueJob, ReleaseLock, On, Goto, WorkerState
  <2> QED BY <1>3, <2>1, <2>2, <2>3, <2>4 DEF WorkerStep
<1>4. ASSUME NEW w \in Workers, WorkerDies(w) PROVE UNCHANGED <<worker[v]>>
  BY <1>1, <1>4 DEF WorkerDies, Goto, WorkerState
<1>5. ASSUME NEW j \in Jobs, HandlerStep(j) PROVE UNCHANGED worker
  BY <1>5 DEF HandlerStep, SubmitStep, ReserveHold, CreatePendingItems, StartUpload,
     SubmitToProvider, RecordProviderJob, AbortOrphan, RecordFailure, HideFailure,
     RecordQueueFailure, CancelAtProvider, CancelJob, EnqueueJob, ReleaseHold
<1> QED BY <1>2, <1>3, <1>4, <1>5 DEF Next, CreateJob, ReplaySubmit, ReadForCancel,
     GrowStale, FailStaleUnsubmitted, UpstreamRuns, UpstreamEnds,
     UpstreamEndsUnreadable, LoseAccount, DeleteOutputs,
     MoveDueDelayed, RecoverStaleActive, LockExpires, HandlerDies, vars

LEMMA QueueStep == TypeOK /\ HolderHasLock /\ QueueInv /\ [Next]_vars => QueueInv'
<1> SUFFICES ASSUME TypeOK, HolderHasLock, QueueInv, [Next]_vars, ~late' PROVE QueueInv'
  BY DEF QueueInv, InHandIsQueued
<1>1. ~late
  BY FaultNext DEF Fault, faultVars
<1>2. \A w \in Workers : worker[w].job \in Jobs
  BY DEF TypeOK, WorkerState
<1>3. ASSUME NEW k \in Jobs, Q!Queued(k) \/ Over(k) PROVE Q!Queued(k)' \/ Over(k)'
  BY <1>1, <1>3, QueuedStays, StatusMoves DEF QueueInv, On
<1>4. ASSUME NEW k \in Jobs, job'[k].status \in {"running", "indexing", "settling"}
      PROVE  Q!Queued(k)'
  <2>1. ~Over(k)' /\ StatusStep(k)
    BY <1>4, StatusMoves DEF Over, Terminal
  <2>2. Q!Queued(k) \/ Over(k)
    BY <1>1, <1>4, <2>1 DEF StatusStep, QueueInv, InHandIsQueued, On
  <2> QED BY <1>3, <2>1, <2>2
<1>5. ASSUME NEW v \in Workers
      PROVE  /\ worker'[v].pc \notin {"idle", "unlock"} =>
                  Q!Queued(worker[v].job)' \/ Over(worker[v].job)'
             /\ worker'[v].pc \in {"ack", "releaseTerminal"} => Over(worker[v].job)'
             /\ worker'[v].pc = "process" => job'[worker'[v].job].status # "settling"
  <2> SUFFICES ASSUME worker'[v].pc \notin {"idle", "unlock"}
               PROVE  /\ Q!Queued(worker[v].job)' \/ Over(worker[v].job)'
                      /\ worker'[v].pc \in {"ack", "releaseTerminal"} => Over(worker[v].job)'
                      /\ worker'[v].pc = "process" => job'[worker'[v].job].status # "settling"
    OBVIOUS
  <2>0. PICK k \in Jobs : k = worker[v].job
    BY <1>2
  <2>1. StatusStep(k) /\ (Over(k) => Over(k)')
    BY StatusMoves
  <2>2. ASSUME worker'[v].job = k, worker[v].pc \notin {"idle", "unlock"}
        PROVE  Q!Queued(worker[v].job)' \/ Over(worker[v].job)'
    <3>1. Q!Queued(k) \/ Over(k)
      BY <1>1, <2>0, <2>2 DEF QueueInv
    <3>2. Q!Queued(k)' \/ Over(k)'
      BY <1>3, <3>1
    <3> QED BY <2>2, <3>2 DEF Q!Queued, Over
  <2>3. CASE UNCHANGED <<worker[v]>>
    <3>1. worker'[v] = worker[v]
      BY <2>3
    <3>2. ASSUME worker[v].pc = "process" PROVE job'[k].status # "settling"
      <4>1. job[k].status # "settling" /\ lock[k] = v
        BY <1>1, <2>0, <3>2 DEF QueueInv, HolderHasLock
      <4>2. ~\E w \in Workers : On(w, k, "toSettling")
        BY <1>1, <2>0, <3>2, <4>1 DEF HolderHasLock, On
      <4>3. ~(Over(k)' /\ job'[k].status = "settling")
        BY DEF Over, Terminal
      <4> QED BY <2>1, <4>1, <4>2, <4>3 DEF StatusStep
    <3>3. worker[v].pc \in {"ack", "releaseTerminal"} => job'[k].status \in Terminal
      BY <1>1, <2>0, <2>1 DEF QueueInv, Over
    <3> QED BY <2>0, <2>2, <3>1, <3>2, <3>3 DEF Over
  <2>4. CASE PcStep(v)
    <3>1. worker'[v].job = k /\ worker[v].pc \notin {"idle", "unlock"}
      BY <2>0, <2>4 DEF PcStep
    <3>2. worker'[v].pc \in {"ack", "releaseTerminal"} => Over(worker[v].job)'
      BY <1>1, <2>0, <2>1, <2>4, <3>1 DEF PcStep, QueueInv, Over
    <3>3. worker'[v].pc = "process" => job'[worker'[v].job].status # "settling"
      BY <2>0, <2>4, <3>1 DEF PcStep
    <3> QED BY <2>2, <3>1, <3>2, <3>3
  <2>5. CASE worker'[v].pc = "lock" /\ Q!Queued(worker[v].job)'
    BY <2>5
  <2> QED BY <2>3, <2>4, <2>5, WorkerMovesTo
<1> QED BY <1>4, <1>5 DEF QueueInv, InHandIsQueued

\* No crash between two of the queue's structures, no lost reply and no worker's
\* stale read drops a job in hand from the queue, for any number of jobs and
\* workers, unless something lapsed under a live process.
THEOREM InHandStaysQueued == Spec => []InHandIsQueued
<1>1. Init => HolderHasLock /\ QueueInv
  BY DEF Init, HolderHasLock, QueueInv, InHandIsQueued
<1>2. QueueInv => InHandIsQueued
  BY DEF QueueInv
<1> QED BY <1>1, <1>2, TypeCorrect, HolderStep, QueueStep, PTL DEF Spec
-----------------------------------------------------------------------------
(* The rows of the jobs.  Moves says what a checked transition does to a    *)
(* row, RowStep which moves a row may make and who makes them.              *)

Dead(k) == job[k].status \in {"failed", "cancelled"}

SameRow(k) ==
    /\ job'[k].status = job[k].status
    /\ job'[k].submitted = job[k].submitted

Moves(k, to) ==
    /\ CanTransition(job[k].status, to)
    /\ job'[k].status = to
    /\ job'[k].submitted = job[k].submitted

RowStep(k) ==
    /\ job'[k].retries >= job[k].retries
    /\ \/ SameRow(k)
       \/ /\ job[k].status = "none" /\ job'[k].status = "created"
          /\ job'[k].submitted = job[k].submitted
       \/ At(k, "submit", "upload") /\ Moves(k, "uploading")
       \/ /\ RecordProviderJob(k) /\ CanTransition(job[k].status, "submitted")
          /\ job'[k].status = "submitted" /\ job'[k].submitted
       \/ /\ At(k, "submit", "record") \/ Unsubmitted(k)
          /\ job'[k].status = "failed" /\ job'[k].submitted = job[k].submitted
       \/ At(k, "cancel", "transition") /\ Moves(k, "cancelled")
       \/ \E w \in Workers :
            \/ /\ On(w, k, "apply")
               /\ \E to \in {"running", "indexing", "failed", "cancelled"} : Moves(k, to)
            \/ On(w, k, "index") /\ Moves(k, "failed")
            \/ On(w, k, "failJob") /\ Moves(k, "failed")
            \/ On(w, k, "toSettling") /\ Moves(k, "settling")
            \/ On(w, k, "mark") /\ job[k].status = "settling" /\ job'[k].status = "completed"
               /\ job'[k].submitted = job[k].submitted
       \/ /\ job[k].status = "completed" /\ job'[k].status = "output_deleted"
          /\ job'[k].submitted = job[k].submitted

LEMMA WriteRow ==
    ASSUME job \in [Jobs -> JobRow], NEW j \in Jobs, NEW k \in Jobs, NEW row \in JobRow,
           Write(j, row)
    PROVE  LET r == IF k = j THEN row ELSE job[k] IN
           /\ job'[k].status = r.status
           /\ job'[k].submitted = r.submitted
           /\ job'[k].retries = r.retries
BY DEF Write, JobRow

\* The rows the statements write, and that a count is never taken back.
LEMMA RowParts ==
    ASSUME job \in [Jobs -> JobRow], NEW k \in Jobs
    PROVE  /\ job[k].retries >= job[k].retries
           /\ \A st \in Status :
                /\ [job[k] EXCEPT !.status = st] \in JobRow
                /\ [job[k] EXCEPT !.status = st].status = st
                /\ [job[k] EXCEPT !.status = st].submitted = job[k].submitted
                /\ [job[k] EXCEPT !.status = st].retries = job[k].retries
           /\ \A st \in Status :
                /\ [job[k] EXCEPT !.status = st, !.failing = FALSE] \in JobRow
                /\ [job[k] EXCEPT !.status = st, !.failing = FALSE].status = st
                /\ [job[k] EXCEPT !.status = st, !.failing = FALSE].submitted
                     = job[k].submitted
                /\ [job[k] EXCEPT !.status = st, !.failing = FALSE].retries
                     = job[k].retries
           /\ \A st \in Status :
                /\ [job[k] EXCEPT !.status = st, !.submitted = TRUE] \in JobRow
                /\ [job[k] EXCEPT !.status = st, !.submitted = TRUE].status = st
                /\ [job[k] EXCEPT !.status = st, !.submitted = TRUE].submitted
                /\ [job[k] EXCEPT !.status = st, !.submitted = TRUE].retries
                     = job[k].retries
<1>1. job[k] \in JobRow /\ job[k].retries >= job[k].retries
  BY BatchImageAssumption DEF JobRow
<1>2. ASSUME NEW st \in Status
      PROVE  /\ [job[k] EXCEPT !.status = st] \in JobRow
             /\ [job[k] EXCEPT !.status = st].status = st
             /\ [job[k] EXCEPT !.status = st].submitted = job[k].submitted
             /\ [job[k] EXCEPT !.status = st].retries = job[k].retries
  BY <1>1 DEF JobRow
<1>3. ASSUME NEW st \in Status
      PROVE  /\ [job[k] EXCEPT !.status = st, !.failing = FALSE] \in JobRow
             /\ [job[k] EXCEPT !.status = st, !.failing = FALSE].status = st
             /\ [job[k] EXCEPT !.status = st, !.failing = FALSE].submitted
                  = job[k].submitted
             /\ [job[k] EXCEPT !.status = st, !.failing = FALSE].retries
                  = job[k].retries
  BY <1>1 DEF JobRow
<1>4. ASSUME NEW st \in Status
      PROVE  /\ [job[k] EXCEPT !.status = st, !.submitted = TRUE] \in JobRow
             /\ [job[k] EXCEPT !.status = st, !.submitted = TRUE].status = st
             /\ [job[k] EXCEPT !.status = st, !.submitted = TRUE].submitted
             /\ [job[k] EXCEPT !.status = st, !.submitted = TRUE].retries
                  = job[k].retries
  BY <1>1 DEF JobRow
<1> QED BY <1>1, <1>2, <1>3, <1>4

LEMMA TransitionRow ==
    ASSUME job \in [Jobs -> JobRow], NEW j \in Jobs, NEW k \in Jobs, NEW to \in Status, NEW ok,
           Transition(j, to, ok)
    PROVE  /\ job'[k].retries >= job[k].retries
           /\ SameRow(k) \/ (k = j /\ Moves(k, to))
<1> DEFINE row == [job[j] EXCEPT !.status = to]
<1>1. /\ row \in JobRow /\ row.status = to /\ row.submitted = job[j].submitted
      /\ row.retries = job[j].retries /\ job[k].retries >= job[k].retries
  BY RowParts
<1>2. UNCHANGED job \/ (Write(j, row) /\ CanTransition(job[j].status, to))
  BY DEF Transition
<1> HIDE DEF row
<1> QED BY <1>1, <1>2, WriteRow DEF SameRow, Moves

\* A statement that writes a status without a look at the row.
WritesTo(j, st) ==
    \/ Write(j, [job[j] EXCEPT !.status = st])
    \/ Write(j, [job[j] EXCEPT !.status = st, !.failing = FALSE])

LEMMA WrittenRow ==
    ASSUME job \in [Jobs -> JobRow], NEW j \in Jobs, NEW k \in Jobs, NEW st \in Status,
           WritesTo(j, st)
    PROVE  /\ job'[k].retries >= job[k].retries
           /\ \/ SameRow(k)
              \/ k = j /\ job'[k].status = st /\ job'[k].submitted = job[k].submitted
<1>1. PICK row \in JobRow : /\ Write(j, row)
                            /\ row.status = st /\ row.submitted = job[j].submitted
                            /\ row.retries = job[j].retries
  <2>1. PICK row : /\ row = [job[j] EXCEPT !.status = st]
                     \/ row = [job[j] EXCEPT !.status = st, !.failing = FALSE]
                   /\ Write(j, row)
    BY DEF WritesTo
  <2>2. job[j] \in JobRow
    OBVIOUS
  <2>3. /\ row \in JobRow
        /\ row.status = st /\ row.submitted = job[j].submitted
        /\ row.retries = job[j].retries
    BY <2>1, <2>2 DEF JobRow
  <2> QED BY <2>1, <2>3
<1>2. job[k].retries >= job[k].retries
  BY RowParts
<1> QED BY <1>1, <1>2, WriteRow DEF SameRow

LEMMA OtherColumns ==
    ASSUME job \in [Jobs -> JobRow], NEW j \in Jobs, NEW k \in Jobs, NEW ok,
           \/ Write(j, [job[j] EXCEPT !.hidden = TRUE])
           \/ Write(j, [job[j] EXCEPT !.failing = FALSE])
           \/ job' = [job EXCEPT ![j].stale = TRUE]
           \/ \E c \in Costs : ReplaceItems(j, c, ok)
           \/ CountRetry(j, ok)
           \/ UNCHANGED job
    PROVE  job'[k].retries >= job[k].retries /\ SameRow(k)
<1>1. job[k].retries \in 0..MaxRetries /\ MaxRetries \in Nat
  BY BatchImageAssumption DEF JobRow
<1>2. CASE Write(j, [job[j] EXCEPT !.hidden = TRUE])
  BY <1>1, <1>2 DEF Write, JobRow, SameRow
<1>3. CASE Write(j, [job[j] EXCEPT !.failing = FALSE])
  BY <1>1, <1>3 DEF Write, JobRow, SameRow
<1>4. CASE job' = [job EXCEPT ![j].stale = TRUE] \/ UNCHANGED job
  BY <1>1, <1>4 DEF JobRow, SameRow
<1>5. ASSUME NEW c \in Costs, ReplaceItems(j, c, ok)
      PROVE  job'[k].retries >= job[k].retries /\ SameRow(k)
  <2> DEFINE row == [job[j] EXCEPT !.cost = c]
  <2>1. /\ row \in JobRow /\ row.retries = job[j].retries
        /\ row.status = job[j].status /\ row.submitted = job[j].submitted
    BY DEF JobRow
  <2>2. UNCHANGED job \/ Write(j, row)
    BY <1>5 DEF ReplaceItems
  <2> HIDE DEF row
  <2>3. job'[k].retries = job[k].retries /\ SameRow(k)
    BY <2>1, <2>2, WriteRow DEF SameRow
  <2> QED BY <1>1, <2>3
<1>6. CASE CountRetry(j, ok)
  <2> DEFINE n == IF job[j].retries < MaxRetries THEN job[j].retries + 1 ELSE job[j].retries
             row == [job[j] EXCEPT !.retries = n, !.failing = TRUE]
  <2>1. n \in 0..MaxRetries /\ n >= job[j].retries
    BY <1>1 DEF JobRow
  <2> HIDE DEF n
  <2>2. /\ row \in JobRow /\ row.retries = n
        /\ row.status = job[j].status /\ row.submitted = job[j].submitted
    BY <2>1 DEF JobRow
  <2>3. Write(j, row)
    BY <1>6 DEF CountRetry, n
  <2> HIDE DEF row
  <2> QED BY <1>1, <2>1, <2>2, <2>3, WriteRow DEF SameRow
<1> QED BY <1>2, <1>3, <1>4, <1>5, <1>6

LEMMA HandlerRow ==
    ASSUME TypeOK, NEW k \in Jobs, NEW j \in Jobs,
           \/ SubmitStep(j) \/ CreateJob(j) \/ CancelJob(j) \/ GrowStale(j)
           \/ FailStaleUnsubmitted(j) \/ DeleteOutputs(j)
    PROVE  RowStep(k)
<1> USE DEF Call
<1>1. job \in [Jobs -> JobRow]
  BY DEF TypeOK
<1>a. {"created", "uploading", "submitted", "failed", "cancelled", "output_deleted"} \subseteq Status
  BY DEF Status, Terminal
<1>b. job[k].retries >= job[k].retries
  BY <1>1, RowParts
<1>2. CASE CreateJob(j)
  <2>1. job[j].status = "none" /\ WritesTo(j, "created")
    BY <1>2 DEF CreateJob, WritesTo
  <2> QED BY <1>1, <1>a, <2>1, WrittenRow DEF RowStep
<1>3. CASE StartUpload(j)
  <2>1. At(j, "submit", "upload") /\ (UNCHANGED job \/ \E ok \in BOOLEAN : Transition(j, "uploading", ok))
    BY <1>3 DEF StartUpload
  <2> QED BY <1>1, <1>a, <2>1, TransitionRow, OtherColumns DEF RowStep
<1>4. CASE CancelJob(j)
  <2>1. At(j, "cancel", "transition") /\ (UNCHANGED job \/ \E ok \in BOOLEAN : Transition(j, "cancelled", ok))
    BY <1>4 DEF CancelJob
  <2> QED BY <1>1, <1>a, <2>1, TransitionRow, OtherColumns DEF RowStep
<1>5. CASE RecordProviderJob(j)
  <2> DEFINE row == [job[j] EXCEPT !.status = "submitted", !.submitted = TRUE]
  <2>0. job[j] \in JobRow /\ "submitted" \in Status
    BY <1>1, <1>a
  <2>1. /\ row \in JobRow /\ row.status = "submitted" /\ row.submitted
        /\ row.retries = job[j].retries
    BY <2>0 DEF JobRow
  <2>2. UNCHANGED job \/ (Write(j, row) /\ CanTransition(job[j].status, "submitted"))
    BY <1>5 DEF RecordProviderJob
  <2> HIDE DEF row
  <2>3. CASE UNCHANGED job
    BY <1>1, <2>3, OtherColumns DEF RowStep
  <2>4. CASE Write(j, row) /\ CanTransition(job[j].status, "submitted")
    BY <1>1, <1>5, <2>1, <2>4, <1>b, WriteRow DEF RowStep, SameRow
  <2> QED BY <2>2, <2>3, <2>4
<1>6. CASE RecordFailure(j) \/ FailStaleUnsubmitted(j)
  <2>1. /\ At(j, "submit", "record") \/ Unsubmitted(j)
        /\ UNCHANGED job \/ WritesTo(j, "failed")
    BY <1>6 DEF RecordFailure, FailStaleUnsubmitted, WritesTo
  <2>2. CASE UNCHANGED job
    BY <1>1, <2>2, OtherColumns DEF RowStep
  <2>3. CASE WritesTo(j, "failed")
    BY <1>1, <1>a, <2>1, <2>3, WrittenRow DEF RowStep
  <2> QED BY <2>1, <2>2, <2>3
<1>7. CASE HideFailure(j) \/ RecordQueueFailure(j) \/ GrowStale(j)
  <2>1. \/ Write(j, [job[j] EXCEPT !.hidden = TRUE])
        \/ Write(j, [job[j] EXCEPT !.failing = FALSE])
        \/ job' = [job EXCEPT ![j].stale = TRUE]
        \/ UNCHANGED job
    BY <1>7 DEF HideFailure, RecordQueueFailure, GrowStale
  <2> QED BY <1>1, <2>1, OtherColumns DEF RowStep
<1>8. CASE DeleteOutputs(j)
  <2>1. job[j].status = "completed" /\ WritesTo(j, "output_deleted")
    BY <1>8 DEF DeleteOutputs, WritesTo
  <2> QED BY <1>1, <1>a, <2>1, WrittenRow DEF RowStep
<1>9. CASE ReserveHold(j) \/ CreatePendingItems(j) \/ SubmitToProvider(j) \/ AbortOrphan(j)
  <2>1. UNCHANGED job
    BY <1>9 DEF ReserveHold, CreatePendingItems, SubmitToProvider, AbortOrphan
  <2> QED BY <1>1, <2>1, OtherColumns DEF RowStep
<1> QED BY <1>2, <1>3, <1>4, <1>5, <1>6, <1>7, <1>8, <1>9 DEF SubmitStep

LEMMA WorkerRow ==
    ASSUME TypeOK, NEW k \in Jobs, NEW w \in Workers, NEW j \in Jobs,
           ProcessStep(w, j) \/ SettleStep(w, j)
    PROVE  RowStep(k)
<1> USE DEF Call
<1>1. job \in [Jobs -> JobRow]
  BY DEF TypeOK
<1>a. {"running", "indexing", "settling", "completed", "failed", "cancelled"} \subseteq Status
  BY DEF Status, Terminal
<1>2. CASE ApplyProviderState(w, j)
  <2>1. \A s \in DOMAIN Answer : Answer[s].to \in {"running", "indexing", "failed", "cancelled"}
    BY DEF Answer
  <2>2. /\ On(w, j, "apply")
        /\ \/ UNCHANGED job
           \/ \E s \in DOMAIN Answer, ok \in BOOLEAN : Transition(j, Answer[s].to, ok)
    BY <1>2 DEF ApplyProviderState
  <2>3. /\ On(w, j, "apply")
        /\ \/ UNCHANGED job
           \/ \E to \in {"running", "indexing", "failed", "cancelled"}, ok \in BOOLEAN :
                Transition(j, to, ok)
    BY <2>1, <2>2
  <2> QED BY <1>1, <1>a, <2>3, TransitionRow, OtherColumns DEF RowStep
<1>3. CASE IndexResults(w, j)
  <2>1. /\ On(w, j, "index")
        /\ \/ UNCHANGED job
           \/ \E ok \in BOOLEAN : \/ \E c \in Costs : ReplaceItems(j, c, ok)
                                 \/ Transition(j, "failed", ok)
    BY <1>3 DEF IndexResults
  <2> QED BY <1>1, <1>a, <2>1, TransitionRow, OtherColumns DEF RowStep
<1>4. CASE StartSettling(w, j)
  <2>1. On(w, j, "toSettling") /\ \E ok \in BOOLEAN : UNCHANGED job \/ Transition(j, "settling", ok)
    BY <1>4 DEF StartSettling
  <2> QED BY <1>1, <1>a, <2>1, TransitionRow, OtherColumns DEF RowStep
<1>5. CASE FailExhaustedJob(w, j)
  <2>1. On(w, j, "failJob") /\ \E ok \in BOOLEAN : UNCHANGED job \/ Transition(j, "failed", ok)
    BY <1>5 DEF FailExhaustedJob
  <2> QED BY <1>1, <1>a, <2>1, TransitionRow, OtherColumns DEF RowStep
<1>6. CASE RecordSettlementFailure(w, j) \/ RecordReleaseFailure(w, j)
  <2>1. \E ok \in BOOLEAN : UNCHANGED job \/ CountRetry(j, ok)
    BY <1>6 DEF RecordSettlementFailure, RecordReleaseFailure
  <2> QED BY <1>1, <2>1, OtherColumns DEF RowStep
<1>7. CASE MarkJobSettled(w, j)
  <2>1. /\ On(w, j, "mark")
        /\ UNCHANGED job \/ (job[j].status = "settling" /\ WritesTo(j, "completed"))
    BY <1>7 DEF MarkJobSettled, MarkSettled, WritesTo
  <2>2. CASE UNCHANGED job
    BY <1>1, <2>2, OtherColumns DEF RowStep
  <2>3. CASE job[j].status = "settling" /\ WritesTo(j, "completed")
    BY <1>1, <1>a, <2>1, <2>3, WrittenRow DEF RowStep
  <2> QED BY <2>1, <2>2, <2>3
<1>8. CASE \/ ReadForPipeline(w, j) \/ ReadForProcess(w, j) \/ GetFromProvider(w, j)
           \/ ReleaseTerminalHold(w, j) \/ ReadForSettle(w, j) \/ CaptureHold(w, j)
           \/ ReleaseExhausted(w, j) \/ Recheck(w, j)
  <2>1. UNCHANGED job
    BY <1>8 DEF ReadForPipeline, ReadForProcess, GetFromProvider, ReleaseTerminalHold,
       ReadForSettle, CaptureHold, ReleaseExhausted, Recheck, ReadFails
  <2> QED BY <1>1, <2>1, OtherColumns DEF RowStep
<1> QED BY <1>2, <1>3, <1>4, <1>5, <1>6, <1>7, <1>8 DEF ProcessStep, SettleStep

\* Whatever happens, every row makes one of the moves of RowStep.
LEMMA RowMoves ==
    ASSUME TypeOK, [Next]_vars, NEW k \in Jobs
    PROVE  RowStep(k)
<1>1. CASE UNCHANGED job
  BY <1>1, OtherColumns DEF RowStep, TypeOK
<1>2. ASSUME NEW w \in Workers, NEW j \in Jobs, WorkerStep(w, j)
      PROVE  UNCHANGED job \/ ProcessStep(w, j) \/ SettleStep(w, j)
  BY <1>2 DEF WorkerStep, ReserveReady, TryAcquireJobLock, AckJob, RequeueJob, ReleaseLock
<1>3. ASSUME NEW j \in Jobs, HandlerStep(j)
      PROVE  UNCHANGED job \/ SubmitStep(j) \/ CancelJob(j)
  BY <1>3 DEF HandlerStep, CancelAtProvider, EnqueueJob, ReleaseHold
<1> QED BY <1>1, <1>2, <1>3, HandlerRow, WorkerRow DEF Next, ReplaySubmit,
     ReadForCancel, UpstreamRuns, UpstreamEnds, UpstreamEndsUnreadable, LoseAccount,
     MoveDueDelayed, RecoverStaleActive,
     LockExpires, HandlerDies, WorkerDies, vars
-----------------------------------------------------------------------------
(* The ledger.  LedgerBy says who takes which statement; such a step leaves *)
(* the rows alone.                                                          *)

Both(k) == Captured(k) /\ Released(k)

Held(k) == "hold" \in claims[k] \/ Hold[k] = 0

Releasing(k) ==
    \/ \E h \in Handler : At(k, h, "release")
    \/ \E w \in Workers : On(w, k, "releaseTerminal") \/ On(w, k, "exhaust")

Capturing(k) == \E w \in Workers : On(w, k, "capture")

LedgerBy(k) ==
    \E ok \in BOOLEAN :
      \/ At(k, "submit", "reserve") /\ Reserve(k, ok)
      \/ Releasing(k) /\ Release(k, ok)
      \/ Capturing(k) /\ Capture(k, job[k].cost, ok)

LEMMA LedgerActs ==
    ASSUME [Next]_vars
    PROVE  UNCHANGED ledger \/ (UNCHANGED job /\ \E j \in Jobs : LedgerBy(j))
<1> DEFINE L == UNCHANGED ledger \/ (UNCHANGED job /\ \E j \in Jobs : LedgerBy(j))
<1>1. ASSUME NEW j \in Jobs, ReserveHold(j) PROVE L
  BY <1>1 DEF ReserveHold, Call, LedgerBy
<1>2. ASSUME NEW j \in Jobs, NEW h \in Handler, ReleaseHold(j, h) PROVE L
  BY <1>2 DEF ReleaseHold, Call, LedgerBy, Releasing
<1>3. ASSUME NEW w \in Workers, NEW j \in Jobs,
             ReleaseTerminalHold(w, j) \/ ReleaseExhausted(w, j)
      PROVE  L
  BY <1>3 DEF ReleaseTerminalHold, ReleaseExhausted, Call, LedgerBy, Releasing
<1>4. ASSUME NEW w \in Workers, NEW j \in Jobs, CaptureHold(w, j) PROVE L
  BY <1>4 DEF CaptureHold, Call, LedgerBy, Capturing
<1>5. ASSUME NEW j \in Jobs, HandlerStep(j) PROVE L
  <2>1. UNCHANGED ledger \/ ReserveHold(j) \/ \E h \in Handler : ReleaseHold(j, h)
    BY <1>5 DEF HandlerStep, SubmitStep, CreatePendingItems, StartUpload, SubmitToProvider,
       RecordProviderJob, AbortOrphan, RecordFailure, HideFailure, RecordQueueFailure,
       CancelAtProvider, CancelJob, EnqueueJob
  <2> HIDE DEF L
  <2>2. UNCHANGED ledger => L
    BY DEF L
  <2> QED BY <1>1, <1>2, <2>1, <2>2
<1>6. ASSUME NEW w \in Workers, NEW j \in Jobs, WorkerStep(w, j) PROVE L
  <2>1. CASE ProcessStep(w, j)
    <3>1. UNCHANGED ledger \/ ReleaseTerminalHold(w, j)
      BY <2>1 DEF ProcessStep, ReadForPipeline, ReadForProcess, GetFromProvider, ReadFails,
         ApplyProviderState, IndexResults, StartSettling
    <3> QED BY <1>3, <3>1
  <2>2. CASE SettleStep(w, j)
    <3>1. UNCHANGED ledger \/ CaptureHold(w, j) \/ ReleaseExhausted(w, j)
      BY <2>2 DEF SettleStep, ReadForSettle, MarkJobSettled, Recheck, ReadFails,
         RecordSettlementFailure, RecordReleaseFailure, FailExhaustedJob
    <3> QED BY <1>3, <1>4, <3>1
  <2>3. CASE \/ ReserveReady(w, j) \/ TryAcquireJobLock(w, j) \/ AckJob(w, j)
             \/ RequeueJob(w, j) \/ ReleaseLock(w, j)
    BY <2>3 DEF ReserveReady, TryAcquireJobLock, AckJob, RequeueJob, ReleaseLock
  <2> QED BY <1>6, <2>1, <2>2, <2>3 DEF WorkerStep
<1>7. CASE UNCHANGED ledger
  BY <1>7
<1>8. \/ UNCHANGED ledger \/ \E j \in Jobs : HandlerStep(j)
      \/ \E w \in Workers, j \in Jobs : WorkerStep(w, j)
  BY DEF Next, CreateJob, ReplaySubmit, ReadForCancel, GrowStale, FailStaleUnsubmitted,
     UpstreamRuns, UpstreamEnds, UpstreamEndsUnreadable, LoseAccount, DeleteOutputs,
     MoveDueDelayed, RecoverStaleActive,
     LockExpires, HandlerDies, WorkerDies, vars
<1> QED BY <1>5, <1>6, <1>7, <1>8

\* The new claims of a step, and who asked for them.
ClaimStep(k) ==
    /\ claims[k] \subseteq claims'[k]
    /\ "hold" \in claims'[k] => "hold" \in claims[k] \/ Hold[k] > 0
    /\ Captured(k)' => Captured(k) \/ (Capturing(k) /\ UNCHANGED job)
    /\ Released(k)' =>
         Released(k) \/ (Releasing(k) /\ UNCHANGED job /\ "hold" \in claims[k])
    /\ "void" \in claims'[k] =>
         "void" \in claims[k] \/ (Releasing(k) /\ UNCHANGED job /\ ~Held(k))

LEMMA ClaimMoves ==
    ASSUME TypeOK, [Next]_vars, NEW k \in Jobs
    PROVE  ClaimStep(k)
<1> USE DEF ClaimStep, Captured, Released, Held
<1>1. claims \in [Jobs -> SUBSET Claim]
  BY DEF TypeOK, LedgerTypeOK
<1>2. CASE UNCHANGED ledger
  BY <1>2 DEF ledger
<1>3. ASSUME NEW j \in Jobs, LedgerBy(j), UNCHANGED job PROVE ClaimStep(k)
  <2>0. PICK ok \in BOOLEAN :
           \/ At(j, "submit", "reserve") /\ Reserve(j, ok)
           \/ Releasing(j) /\ Release(j, ok)
           \/ Capturing(j) /\ Capture(j, job[j].cost, ok)
    BY <1>3 DEF LedgerBy
  <2>1. CASE Reserve(j, ok)
    BY <1>1, <2>1 DEF Reserve, ClaimAs, ledger
  <2>2. CASE Releasing(j) /\ Release(j, ok)
    <3>1. \/ UNCHANGED claims
          \/ claims' = [claims EXCEPT ![j] = @ \cup {"void"}] /\ ~Held(j)
          \/ claims' = [claims EXCEPT ![j] = @ \cup {"release"}] /\ "hold" \in claims[j]
      BY <2>2, HoldAssumption DEF Release, ClaimAs, ledger
    <3> QED BY <1>1, <1>3, <2>2, <3>1
  <2>3. CASE Capturing(j) /\ Capture(j, job[j].cost, ok)
    <3>1. UNCHANGED claims \/ claims' = [claims EXCEPT ![j] = @ \cup {"capture"}]
      BY <2>3 DEF Capture, ClaimAs, ledger
    <3> QED BY <1>1, <1>3, <2>3, <3>1
  <2> QED BY <2>0, <2>1, <2>2, <2>3
<1> QED BY <1>2, <1>3, LedgerActs
-----------------------------------------------------------------------------
(* The plans of the handlers.  A submission sends its job, or releases the  *)
(* hold and records the failure, or has only the end of either to do.       *)

SendPlans ==
    {SubmitSteps,
     <<"items", "upload", "provider", "update", "enqueue">>,
     <<"upload", "provider", "update", "enqueue">>,
     <<"provider", "update", "enqueue">>,
     <<"update", "enqueue">>}

ReleasePlans == {<<"release", "record", "hide">>, <<"release">>}

RecordPlans == {<<"record", "hide">>, <<"record", "retry">>}

EndPlans == {<<>>, <<"hide">>, <<"retry">>, <<"abort">>, <<"queueFailed">>, <<"enqueue">>}

\* The plans that are made for a job that has its hold.
HeldPlans == (SendPlans \ {SubmitSteps}) \cup ReleasePlans

\* Those of a Cancel and of a recovery that do not release at once.
CancelPlans == {<<>>, <<"transition", "release">>, <<"retry">>,
                <<"providerCancel", "enqueue">>, <<"enqueue">>}

LEMMA SubmitPlans ==
    /\ \A p \in SendPlans :
         /\ p # <<>> /\ Head(p) \in {"reserve", "items", "upload", "provider", "update"}
         /\ Head(p) = "reserve" <=> p = SubmitSteps
         /\ Head(p) = "update" => Tail(p) \in EndPlans
         /\ Head(p) # "update" => Tail(p) \in SendPlans /\ Tail(p) # SubmitSteps
    /\ \A p \in ReleasePlans :
         p # <<>> /\ Head(p) = "release" /\ Tail(p) \in RecordPlans \cup EndPlans
    /\ \A p \in RecordPlans : p # <<>> /\ Head(p) = "record" /\ Tail(p) \in EndPlans
    /\ \A p \in EndPlans :
         p = <<>> \/ ( /\ Head(p) \in {"hide", "retry", "abort", "queueFailed", "enqueue"}
                       /\ Tail(p) \in EndPlans)
BY DEF SendPlans, SubmitSteps, ReleasePlans, RecordPlans, EndPlans

LEMMA DisjointPlans ==
    /\ SubmitSteps \in SendPlans
    /\ SendPlans \cap (ReleasePlans \cup RecordPlans \cup EndPlans) = {}
    /\ ReleasePlans \cap (RecordPlans \cup EndPlans) = {}
    /\ RecordPlans \cap EndPlans = {}
    /\ <<"release">> \in ReleasePlans /\ <<"release", "record", "hide">> \in ReleasePlans
    /\ <<"record", "hide">> \in RecordPlans /\ <<"record", "retry">> \in RecordPlans
    /\ {<<>>, <<"abort">>, <<"queueFailed">>, <<"retry">>, <<"enqueue">>} \subseteq EndPlans
BY DEF SendPlans, SubmitSteps, ReleasePlans, RecordPlans, EndPlans

LEMMA OtherPlans ==
    /\ \A p \in CancelPlans :
         p = <<>> \/ ( /\ Head(p) \in {"transition", "retry", "providerCancel", "enqueue"}
                       /\ Tail(p) \in IF Head(p) = "transition" THEN {<<"release">>}
                                                              ELSE CancelPlans)
    /\ <<"release">> \notin CancelPlans
    /\ Head(<<"release">>) = "release" /\ Tail(<<"release">>) \in CancelPlans
    /\ {<<>>, <<"transition", "release">>, <<"retry">>,
        <<"providerCancel", "enqueue">>, <<"enqueue">>} \subseteq CancelPlans
BY DEF CancelPlans

RowInv ==
    \A k \in Jobs :
      /\ job[k].status \in {"none", "created", "uploading"} => ~job[k].submitted
      /\ job[k].status \in {"submitted", "running", "indexing", "settling",
                            "completed", "output_deleted"} => job[k].submitted
      /\ job[k].submitted => Held(k)

PlanInv ==
    \A k \in Jobs :
      /\ todo[k]["submit"] \in SendPlans \cup ReleasePlans \cup RecordPlans \cup EndPlans
      /\ todo[k]["submit"] \notin EndPlans => ~job[k].submitted /\ job[k].status # "none"
      /\ todo[k]["submit"] \in HeldPlans => Held(k)
      /\ todo[k]["cancel"] \in CancelPlans \cup {<<"release">>}
      /\ todo[k]["cancel"] # <<>> => job[k].status # "none"
      /\ todo[k]["recover"] \in {<<>>, <<"release">>, <<"retry">>}
      /\ \A h \in {"cancel", "recover"} : todo[k][h] = <<"release">> => Dead(k)

\* What a step may do to the plan of a submission.
SubmitPlanStep(k) ==
    \/ todo'[k]["submit"] = todo[k]["submit"] /\ ~RecordProviderJob(k)
    \/ todo'[k]["submit"] \in EndPlans
    \/ /\ job[k].status = "none" /\ job'[k].status = "created"
       /\ todo'[k]["submit"] = SubmitSteps
    \/ /\ todo'[k]["submit"] \in SendPlans \cup ReleasePlans \cup RecordPlans
       /\ todo[k]["submit"] \in SendPlans \cup ReleasePlans
       /\ todo'[k]["submit"] \in SendPlans => todo[k]["submit"] \in SendPlans
       /\ todo'[k]["submit"] \in HeldPlans => Held(k)'
       /\ ~RecordProviderJob(k)

\* What it may do to the plan of a Cancel and of a recovery.
CancelPlanStep(k) ==
    \/ todo'[k]["cancel"] = todo[k]["cancel"]
    \/ todo'[k]["cancel"] = <<>>
    \/ /\ todo'[k]["cancel"] \in CancelPlans
       /\ todo[k]["cancel"] # <<>> \/ job[k].status # "none"
    \/ todo'[k]["cancel"] = <<"release">> /\ Dead(k)'

RecoverPlanStep(k) ==
    \/ todo'[k]["recover"] = todo[k]["recover"]
    \/ todo'[k]["recover"] \in {<<>>, <<"retry">>}
    \/ todo'[k]["recover"] = <<"release">> /\ Dead(k)'

LEMMA ThenPlan ==
    ASSUME todo \in [Jobs -> [Handler -> Seq(Step)]], NEW j \in Jobs, NEW k \in Jobs,
           NEW h \in Handler, NEW g \in Handler, NEW rest, Then(j, h, rest)
    PROVE  todo'[k][g] = IF k = j /\ g = h THEN rest ELSE todo[k][g]
BY DEF Then

\* What the next step of a submission says of its plan.
LEMMA PlanHead ==
    ASSUME NEW p \in SendPlans \cup ReleasePlans \cup RecordPlans \cup EndPlans, p # <<>>
    PROVE  /\ Head(p) = "reserve" =>
                p = SubmitSteps /\ Tail(p) \in SendPlans \ {SubmitSteps}
           /\ Head(p) \in {"items", "upload", "provider"} =>
                p \in SendPlans \ {SubmitSteps} /\ Tail(p) \in SendPlans \ {SubmitSteps}
           /\ Head(p) = "update" => p \in SendPlans \ {SubmitSteps} /\ Tail(p) \in EndPlans
           /\ Head(p) = "release" =>
                p \in ReleasePlans /\ Tail(p) \in RecordPlans \cup EndPlans
           /\ Head(p) = "record" => p \in RecordPlans /\ Tail(p) \in EndPlans
           /\ Head(p) \in {"hide", "retry", "abort", "queueFailed", "enqueue"} =>
                p \in EndPlans /\ Tail(p) \in EndPlans
<1>1. CASE p \in SendPlans
  BY <1>1, SubmitPlans
<1>2. CASE p \in ReleasePlans
  BY <1>2, SubmitPlans
<1>3. CASE p \in RecordPlans
  BY <1>3, SubmitPlans
<1>4. CASE p \in EndPlans
  BY <1>4, SubmitPlans
<1> QED BY <1>1, <1>2, <1>3, <1>4

LEMMA RecordedPlan ==
    ASSUME TypeOK, PlanInv, NEW k \in Jobs, RecordProviderJob(k)
    PROVE  todo'[k]["submit"] \in EndPlans
<1> DEFINE p == todo[k]["submit"]
<1>1. /\ todo \in [Jobs -> [Handler -> Seq(Step)]] /\ "submit" \in Handler
      /\ p \in SendPlans \cup ReleasePlans \cup RecordPlans \cup EndPlans
  BY DEF TypeOK, PlanInv, Handler
<1>2. p # <<>> /\ Head(p) = "update"
  BY DEF RecordProviderJob, At
<1>3. Then(k, "submit", Tail(p)) \/ Then(k, "submit", <<"abort">>)
  BY DEF RecordProviderJob, Advance
<1> HIDE DEF p
<1>4. Tail(p) \in EndPlans /\ <<"abort">> \in EndPlans
  BY <1>1, <1>2, PlanHead, DisjointPlans
<1> QED BY <1>1, <1>3, <1>4, ThenPlan

\* Step s of a submission leads to plan q.
Leads(s, q, j) ==
    \/ q \in EndPlans
    \/ /\ s = "reserve"
       /\ \/ q \in SendPlans \ {SubmitSteps} /\ Held(j)'
          \/ q \in RecordPlans
    \/ /\ s \in {"items", "upload", "provider"}
       /\ q \in (SendPlans \ {SubmitSteps}) \cup ReleasePlans
    \/ s = "release" /\ q \in RecordPlans

LEMMA SubmitLeads ==
    ASSUME TypeOK, PlanInv, NEW j \in Jobs,
           \/ SubmitStep(j) \/ EnqueueJob(j, "submit") \/ ReleaseHold(j, "submit")
    PROVE  \E s \in Step : \E q :
             At(j, "submit", s) /\ Then(j, "submit", q) /\ Leads(s, q, j)
<1> DEFINE p == todo[j]["submit"]
           G == \E s \in Step : \E q :
                  At(j, "submit", s) /\ Then(j, "submit", q) /\ Leads(s, q, j)
<1>1. p \in SendPlans \cup ReleasePlans \cup RecordPlans \cup EndPlans
  BY DEF PlanInv
<1>2. ASSUME NEW s, At(j, "submit", s)
      PROVE  p # <<>> /\ Head(p) = s
  BY <1>2 DEF At
<1>3. \A q : Advance(j, "submit") => Then(j, "submit", Tail(p))
  BY DEF Advance
<1> HIDE DEF p
<1> USE DEF Leads
<1>4. CASE ReserveHold(j)
  <2>1. /\ At(j, "submit", "reserve")
        /\ \/ Advance(j, "submit") /\ Reserve(j, TRUE)
           \/ Then(j, "submit", <<"record", "hide">>)
    BY <1>4 DEF ReserveHold, Call
  <2>2. Reserve(j, TRUE) => Held(j)'
    BY DEF Reserve, ClaimAs, Held, TypeOK, LedgerTypeOK, ledger
  <2>3. Tail(p) \in SendPlans \ {SubmitSteps} /\ <<"record", "hide">> \in RecordPlans
    BY <1>1, <1>2, <2>1, PlanHead, DisjointPlans
  <2> QED BY <1>3, <2>1, <2>2, <2>3 DEF Step
<1>5. CASE CreatePendingItems(j) \/ StartUpload(j) \/ SubmitToProvider(j)
  <2>1. \E s \in {"items", "upload", "provider"} :
          /\ At(j, "submit", s)
          /\ \/ Advance(j, "submit")
             \/ Then(j, "submit", <<"release", "record", "hide">>)
             \/ Then(j, "submit", <<"release">>)
    BY <1>5 DEF CreatePendingItems, StartUpload, SubmitToProvider
  <2>2. PICK s \in {"items", "upload", "provider"} :
          /\ At(j, "submit", s)
          /\ \/ Advance(j, "submit")
             \/ Then(j, "submit", <<"release", "record", "hide">>)
             \/ Then(j, "submit", <<"release">>)
    BY <2>1
  <2>3. /\ Tail(p) \in SendPlans \ {SubmitSteps}
        /\ <<"release", "record", "hide">> \in ReleasePlans /\ <<"release">> \in ReleasePlans
    BY <1>1, <1>2, <2>2, PlanHead, DisjointPlans
  <2> QED BY <1>3, <2>2, <2>3 DEF Step
<1>6. CASE RecordProviderJob(j)
  <2>1. /\ At(j, "submit", "update")
        /\ Advance(j, "submit") \/ Then(j, "submit", <<"abort">>)
    BY <1>6 DEF RecordProviderJob
  <2>2. Tail(p) \in EndPlans /\ <<"abort">> \in EndPlans
    BY <1>1, <1>2, <2>1, PlanHead, DisjointPlans
  <2> QED BY <1>3, <2>1, <2>2 DEF Step
<1>7. CASE \/ AbortOrphan(j) \/ RecordFailure(j) \/ HideFailure(j) \/ RecordQueueFailure(j)
           \/ EnqueueJob(j, "submit")
  <2>1. \E s \in {"abort", "record", "hide", "queueFailed", "enqueue", "retry"} :
          /\ At(j, "submit", s)
          /\ Advance(j, "submit") \/ Then(j, "submit", <<"queueFailed">>)
    BY <1>7 DEF AbortOrphan, RecordFailure, HideFailure, RecordQueueFailure, EnqueueJob
  <2>2. PICK s \in {"abort", "record", "hide", "queueFailed", "enqueue", "retry"} :
          /\ At(j, "submit", s)
          /\ Advance(j, "submit") \/ Then(j, "submit", <<"queueFailed">>)
    BY <2>1
  <2>3. Tail(p) \in EndPlans /\ <<"queueFailed">> \in EndPlans
    BY <1>1, <1>2, <2>2, PlanHead, DisjointPlans
  <2> QED BY <1>3, <2>2, <2>3 DEF Step
<1>8. CASE ReleaseHold(j, "submit")
  <2>1. /\ At(j, "submit", "release")
        /\ Advance(j, "submit") \/ Then(j, "submit", <<"record", "retry">>)
    BY <1>8 DEF ReleaseHold
  <2>2. /\ Tail(p) \in RecordPlans \cup EndPlans
        /\ <<"record", "retry">> \in RecordPlans
    BY <1>1, <1>2, <2>1, PlanHead, DisjointPlans
  <2> QED BY <1>3, <2>1, <2>2 DEF Step
<1> QED BY <1>4, <1>5, <1>6, <1>7, <1>8 DEF SubmitStep, p

LEMMA TodoActs ==
    ASSUME [Next]_vars
    PROVE  \/ UNCHANGED todo
           \/ \E j \in Jobs :
                \/ CreateJob(j) \/ ReplaySubmit(j) \/ SubmitStep(j) \/ ReadForCancel(j)
                \/ CancelAtProvider(j) \/ CancelJob(j) \/ FailStaleUnsubmitted(j)
                \/ \E h \in Handler : EnqueueJob(j, h) \/ ReleaseHold(j, h) \/ HandlerDies(j, h)
<1>1. ASSUME NEW w \in Workers, NEW j \in Jobs, WorkerStep(w, j) PROVE UNCHANGED todo
  <2>1. CASE ProcessStep(w, j)
    BY <2>1 DEF ProcessStep, ReadForPipeline, ReadForProcess, GetFromProvider, ReadFails,
       ApplyProviderState, IndexResults, StartSettling, ReleaseTerminalHold
  <2>2. CASE SettleStep(w, j)
    BY <2>2 DEF SettleStep, ReadForSettle, CaptureHold, MarkJobSettled, Recheck, ReadFails,
       RecordSettlementFailure, ReleaseExhausted, RecordReleaseFailure, FailExhaustedJob
  <2> QED BY <1>1, <2>1, <2>2 DEF WorkerStep, ReserveReady, TryAcquireJobLock, AckJob,
       RequeueJob, ReleaseLock
<1> QED BY <1>1 DEF Next, HandlerStep, GrowStale, UpstreamRuns, UpstreamEnds,
     UpstreamEndsUnreadable, LoseAccount, DeleteOutputs,
     MoveDueDelayed, RecoverStaleActive, LockExpires, WorkerDies, vars

LEMMA SubmitPlanMoves ==
    ASSUME TypeOK, PlanInv, [Next]_vars, NEW k \in Jobs
    PROVE  SubmitPlanStep(k)
<1> DEFINE p == todo[k]["submit"]
<1>1. /\ todo \in [Jobs -> [Handler -> Seq(Step)]]
      /\ "submit" \in Handler /\ "cancel" \in Handler /\ "recover" \in Handler
      /\ job \in [Jobs -> JobRow]
  BY DEF TypeOK, Handler
<1>2. CASE RecordProviderJob(k)
  BY <1>2, RecordedPlan DEF SubmitPlanStep
<1> SUFFICES ASSUME ~RecordProviderJob(k)
             PROVE  SubmitPlanStep(k)
  BY <1>2
<1>3. ASSUME todo'[k]["submit"] = todo[k]["submit"]
      PROVE  SubmitPlanStep(k)
  BY <1>3 DEF SubmitPlanStep
<1>4. ASSUME NEW j \in Jobs, NEW h \in Handler, NEW q, Then(j, h, q), j # k \/ h # "submit"
      PROVE  SubmitPlanStep(k)
  BY <1>1, <1>3, <1>4, ThenPlan
<1>5. ASSUME NEW q \in EndPlans, Then(k, "submit", q)
      PROVE  SubmitPlanStep(k)
  BY <1>1, <1>5, ThenPlan DEF SubmitPlanStep
<1>6. ASSUME NEW j \in Jobs,
             SubmitStep(j) \/ EnqueueJob(j, "submit") \/ ReleaseHold(j, "submit")
      PROVE  SubmitPlanStep(k)
  <2>0. PICK s \in Step : \E q :
          At(j, "submit", s) /\ Then(j, "submit", q) /\ Leads(s, q, j)
    BY <1>6, SubmitLeads
  <2>1. PICK q : At(j, "submit", s) /\ Then(j, "submit", q) /\ Leads(s, q, j)
    BY <2>0
  <2>2. CASE j # k
    BY <1>1, <1>4, <2>1, <2>2
  <2>3. CASE q \in EndPlans
    BY <1>4, <1>5, <2>1, <2>3, <1>1
  <2>4. CASE j = k /\ q \notin EndPlans
    <3>1. /\ p \in SendPlans \cup ReleasePlans \cup RecordPlans \cup EndPlans
          /\ p # <<>> /\ Head(p) = s /\ todo'[k]["submit"] = q
          /\ p \in HeldPlans => Held(k)
      BY <1>1, <2>1, <2>4, ThenPlan DEF PlanInv, At
    <3>2. Held(k) => Held(k)'
      BY ClaimMoves DEF ClaimStep, Held
    <3>3. \/ /\ s = "reserve" /\ p \in SendPlans
             /\ \/ q \in SendPlans /\ Held(k)'
                \/ q \in RecordPlans
          \/ p \in SendPlans /\ Held(k)' /\ q \in SendPlans \cup ReleasePlans
          \/ p \in ReleasePlans /\ q \in RecordPlans
      <4>1. s = "reserve" => p \in SendPlans
        BY <3>1, PlanHead, DisjointPlans
      <4>2. s \in {"items", "upload", "provider"} => p \in SendPlans /\ p \in HeldPlans
        BY <3>1, PlanHead DEF HeldPlans
      <4>3. s = "release" => p \in ReleasePlans
        BY <3>1, PlanHead
      <4> QED BY <2>1, <2>4, <3>1, <3>2, <4>1, <4>2, <4>3 DEF Leads
    <3> QED BY <3>1, <3>3, DisjointPlans DEF SubmitPlanStep, HeldPlans
  <2> QED BY <2>2, <2>3, <2>4
<1>7. ASSUME NEW j \in Jobs, CreateJob(j) PROVE SubmitPlanStep(k)
  <2>1. job[j].status = "none" /\ Write(j, [job[j] EXCEPT !.status = "created"])
        /\ Then(j, "submit", SubmitSteps)
    BY <1>7 DEF CreateJob
  <2>2. CASE j # k
    BY <1>1, <1>4, <2>1, <2>2
  <2>3. CASE j = k
    <3>1. job'[k].status = "created"
      <4> DEFINE row == [job[k] EXCEPT !.status = "created"]
      <4>1. "created" \in Status
        BY DEF Status
      <4>2. row \in JobRow /\ row.status = "created" /\ Write(k, row)
        BY <1>1, <2>1, <2>3, <4>1, RowParts
      <4> HIDE DEF row
      <4> QED BY <1>1, <4>2, WriteRow
    <3> QED BY <1>1, <2>1, <2>3, <3>1, ThenPlan DEF SubmitPlanStep
  <2> QED BY <2>2, <2>3
<1>8. ASSUME NEW j \in Jobs, NEW h \in Handler, HandlerDies(j, h) PROVE SubmitPlanStep(k)
  <2>1. Then(j, h, <<>>) /\ <<>> \in EndPlans
    BY <1>8, DisjointPlans DEF HandlerDies
  <2> QED BY <1>4, <1>5, <2>1
<1>9. ASSUME NEW j \in Jobs, ReplaySubmit(j) PROVE SubmitPlanStep(k)
  <2>1. Then(j, "submit", <<"enqueue">>) /\ <<"enqueue">> \in EndPlans
    BY <1>9, DisjointPlans DEF ReplaySubmit
  <2> QED BY <1>1, <1>4, <1>5, <2>1
<1>10. ASSUME NEW j \in Jobs, NEW h \in {"cancel", "recover"},
              EnqueueJob(j, h) \/ ReleaseHold(j, h)
       PROVE  SubmitPlanStep(k)
  <2>1. \E q : Then(j, h, q)
    BY <1>10 DEF EnqueueJob, ReleaseHold, Advance
  <2> QED BY <1>1, <1>4, <2>1
<1>11. ASSUME NEW j \in Jobs,
              \/ ReadForCancel(j) \/ CancelAtProvider(j) \/ CancelJob(j)
              \/ FailStaleUnsubmitted(j)
       PROVE  SubmitPlanStep(k)
  <2>1. \E h \in {"cancel", "recover"} : \E q : Then(j, h, q)
    BY <1>11 DEF ReadForCancel, CancelAtProvider, CancelJob, FailStaleUnsubmitted, Advance
  <2> QED BY <1>1, <1>4, <2>1
<1>12. CASE UNCHANGED todo
  BY <1>3, <1>12
<1>13. Handler = {"submit", "cancel", "recover"}
  BY DEF Handler
<1> QED BY <1>6, <1>7, <1>8, <1>9, <1>10, <1>11, <1>12, <1>13, TodoActs

LEMMA CancelPlanMoves ==
    ASSUME TypeOK, PlanInv, [Next]_vars, NEW k \in Jobs
    PROVE  CancelPlanStep(k)
<1> DEFINE p == todo[k]["cancel"]
           q == todo'[k]["cancel"]
<1>1. /\ todo \in [Jobs -> [Handler -> Seq(Step)]]
      /\ "submit" \in Handler /\ "cancel" \in Handler /\ "recover" \in Handler
      /\ job \in [Jobs -> JobRow]
      /\ p \in CancelPlans \cup {<<"release">>}
      /\ p # <<>> => job[k].status # "none"
  BY DEF TypeOK, Handler, PlanInv
<1>2. ASSUME NEW j \in Jobs, NEW h \in Handler, NEW r, Then(j, h, r), j # k \/ h # "cancel"
      PROVE  CancelPlanStep(k)
  BY <1>1, <1>2, ThenPlan DEF CancelPlanStep
<1>3. ASSUME NEW r, Then(k, "cancel", r), r \in CancelPlans,
             r = <<>> \/ p # <<>> \/ job[k].status # "none"
      PROVE  CancelPlanStep(k)
  BY <1>1, <1>3, ThenPlan DEF CancelPlanStep
<1>4. ASSUME NEW s, At(k, "cancel", s), s # "transition"
      PROVE  p # <<>> /\ Tail(p) \in CancelPlans
  BY <1>1, <1>4, OtherPlans DEF At
<1>5. ASSUME NEW j \in Jobs, ReadForCancel(j) PROVE CancelPlanStep(k)
  <2>1. /\ Then(j, "cancel", CancelSteps(job[j])) /\ job[j].status # "none"
        /\ UNCHANGED job
    BY <1>5 DEF ReadForCancel
  <2>2. \/ CancelSteps(job[j]) \in CancelPlans
        \/ CancelSteps(job[j]) = <<"release">> /\ Dead(j)
    BY OtherPlans DEF CancelSteps, Dead
  <2>3. CASE CancelSteps(job[j]) \in CancelPlans
    BY <1>1, <1>2, <1>3, <2>1, <2>3
  <2>4. CASE CancelSteps(job[j]) = <<"release">> /\ Dead(j) /\ j = k
    BY <1>1, <2>1, <2>4, ThenPlan DEF CancelPlanStep, Dead
  <2> QED BY <1>1, <1>2, <2>1, <2>2, <2>3, <2>4
<1>6. ASSUME NEW j \in Jobs, CancelAtProvider(j) PROVE CancelPlanStep(k)
  <2>1. /\ At(j, "cancel", "providerCancel")
        /\ Then(j, "cancel", Tail(todo[j]["cancel"])) \/ Then(j, "cancel", <<>>)
    BY <1>6 DEF CancelAtProvider, Advance
  <2> QED BY <1>1, <1>2, <1>3, <1>4, <2>1, OtherPlans
<1>7. ASSUME NEW j \in Jobs, CancelJob(j) PROVE CancelPlanStep(k)
  <2>1. /\ At(j, "cancel", "transition")
        /\ \/ Then(j, "cancel", Tail(todo[j]["cancel"])) /\ Transition(j, "cancelled", TRUE)
           \/ Then(j, "cancel", <<>>)
    BY <1>7 DEF CancelJob, Advance, Call
  <2>2. CASE j # k \/ Then(j, "cancel", <<>>)
    BY <1>1, <1>2, <1>3, <2>1, <2>2, OtherPlans
  <2>3. CASE /\ j = k /\ Transition(k, "cancelled", TRUE)
             /\ Then(k, "cancel", Tail(p))
    <3>1. Tail(p) = <<"release">>
      BY <1>1, <2>1, <2>3, OtherPlans DEF At
    <3>2. Dead(k)'
      BY <1>1, <2>3, TransitionStatus DEF Dead, Status, Terminal
    <3>3. todo'[k]["cancel"] = Tail(p)
      BY <1>1, <2>3, ThenPlan
    <3> QED BY <3>1, <3>2, <3>3 DEF CancelPlanStep
  <2> QED BY <2>1, <2>2, <2>3
<1>8. ASSUME NEW j \in Jobs, EnqueueJob(j, "cancel") \/ ReleaseHold(j, "cancel")
      PROVE  CancelPlanStep(k)
  <2>1. /\ \E s \in {"enqueue", "retry", "release"} : At(j, "cancel", s)
        /\ \/ Then(j, "cancel", Tail(todo[j]["cancel"])) \/ Then(j, "cancel", <<"retry">>)
    BY <1>8 DEF EnqueueJob, ReleaseHold, Advance
  <2> QED BY <1>1, <1>2, <1>3, <1>4, <2>1, OtherPlans
<1>9. ASSUME NEW j \in Jobs, NEW h \in Handler, HandlerDies(j, h) PROVE CancelPlanStep(k)
  <2>1. Then(j, h, <<>>)
    BY <1>9 DEF HandlerDies
  <2> QED BY <1>2, <1>3, <2>1, OtherPlans
<1>10. ASSUME NEW j \in Jobs, NEW h \in {"submit", "recover"},
              EnqueueJob(j, h) \/ ReleaseHold(j, h)
       PROVE  CancelPlanStep(k)
  <2>1. \E r : Then(j, h, r)
    BY <1>10 DEF EnqueueJob, ReleaseHold, Advance
  <2> QED BY <1>1, <1>2, <2>1
<1>11. ASSUME NEW j \in Jobs,
              CreateJob(j) \/ ReplaySubmit(j) \/ SubmitStep(j) \/ FailStaleUnsubmitted(j)
       PROVE  CancelPlanStep(k)
  <2>1. \E h \in {"submit", "recover"} : \E r : Then(j, h, r)
    BY <1>11, SubmitLeads DEF CreateJob, ReplaySubmit, FailStaleUnsubmitted
  <2> QED BY <1>1, <1>2, <2>1
<1>12. CASE UNCHANGED todo
  BY <1>12 DEF CancelPlanStep
<1>13. Handler = {"submit", "cancel", "recover"}
  BY DEF Handler
<1> QED BY <1>5, <1>6, <1>7, <1>8, <1>9, <1>10, <1>11, <1>12, <1>13, TodoActs

LEMMA RecoverPlanMoves ==
    ASSUME TypeOK, PlanInv, [Next]_vars, NEW k \in Jobs
    PROVE  RecoverPlanStep(k)
<1> DEFINE p == todo[k]["recover"]
<1>1. /\ todo \in [Jobs -> [Handler -> Seq(Step)]]
      /\ "submit" \in Handler /\ "cancel" \in Handler /\ "recover" \in Handler
      /\ job \in [Jobs -> JobRow]
      /\ p \in {<<>>, <<"release">>, <<"retry">>}
  BY DEF TypeOK, Handler, PlanInv
<1>2. ASSUME NEW j \in Jobs, NEW h \in Handler, NEW r, Then(j, h, r), j # k \/ h # "recover"
      PROVE  RecoverPlanStep(k)
  BY <1>1, <1>2, ThenPlan DEF RecoverPlanStep
<1>3. ASSUME NEW r \in {<<>>, <<"retry">>}, Then(k, "recover", r)
      PROVE  RecoverPlanStep(k)
  BY <1>1, <1>3, ThenPlan DEF RecoverPlanStep
<1>4. p # <<>> => Tail(p) = <<>>
  <2>1. Tail(<<"release">>) = <<>> /\ Tail(<<"retry">>) = <<>>
    OBVIOUS
  <2> HIDE DEF p
  <2> QED BY <1>1, <2>1
<1>5. ASSUME NEW j \in Jobs, FailStaleUnsubmitted(j) PROVE RecoverPlanStep(k)
  <2>1. \/ /\ Then(j, "recover", <<"release">>)
           /\ Write(j, [job[j] EXCEPT !.status = "failed", !.failing = FALSE])
        \/ Then(j, "recover", <<>>)
    BY <1>5 DEF FailStaleUnsubmitted, Call
  <2>2. CASE j # k \/ Then(j, "recover", <<>>)
    BY <1>1, <1>2, <1>3, <2>1, <2>2
  <2>3. CASE /\ j = k /\ Then(k, "recover", <<"release">>)
             /\ Write(k, [job[k] EXCEPT !.status = "failed", !.failing = FALSE])
    <3> DEFINE row == [job[k] EXCEPT !.status = "failed", !.failing = FALSE]
    <3>1. "failed" \in Status
      BY DEF Status, Terminal
    <3>2. row \in JobRow /\ row.status = "failed" /\ Write(k, row)
      BY <1>1, <2>3, <3>1, RowParts
    <3> HIDE DEF row
    <3>3. Dead(k)'
      BY <1>1, <3>2, WriteRow DEF Dead
    <3> QED BY <1>1, <2>3, <3>3, ThenPlan DEF RecoverPlanStep
  <2> QED BY <2>1, <2>2, <2>3
<1>6. ASSUME NEW j \in Jobs, EnqueueJob(j, "recover") \/ ReleaseHold(j, "recover")
      PROVE  RecoverPlanStep(k)
  <2>1. /\ todo[j]["recover"] # <<>>
        /\ \/ Then(j, "recover", Tail(todo[j]["recover"])) \/ Then(j, "recover", <<"retry">>)
    BY <1>6 DEF EnqueueJob, ReleaseHold, Advance, At
  <2> QED BY <1>1, <1>2, <1>3, <1>4, <2>1
<1>7. ASSUME NEW j \in Jobs, NEW h \in Handler, HandlerDies(j, h) PROVE RecoverPlanStep(k)
  <2>1. Then(j, h, <<>>)
    BY <1>7 DEF HandlerDies
  <2> QED BY <1>2, <1>3, <2>1
<1>8. ASSUME NEW j \in Jobs, NEW h \in {"submit", "cancel"},
             EnqueueJob(j, h) \/ ReleaseHold(j, h)
      PROVE  RecoverPlanStep(k)
  <2>1. \E r : Then(j, h, r)
    BY <1>8 DEF EnqueueJob, ReleaseHold, Advance
  <2> QED BY <1>1, <1>2, <2>1
<1>9. ASSUME NEW j \in Jobs,
             \/ CreateJob(j) \/ ReplaySubmit(j) \/ SubmitStep(j) \/ ReadForCancel(j)
             \/ CancelAtProvider(j) \/ CancelJob(j)
      PROVE  RecoverPlanStep(k)
  <2>1. \E h \in {"submit", "cancel"} : \E r : Then(j, h, r)
    BY <1>9, SubmitLeads DEF CreateJob, ReplaySubmit, ReadForCancel, CancelAtProvider, CancelJob,
       Advance
  <2> QED BY <1>1, <1>2, <2>1
<1>10. CASE UNCHANGED todo
  BY <1>10 DEF RecoverPlanStep
<1>11. Handler = {"submit", "cancel", "recover"}
  BY DEF Handler
<1> QED BY <1>5, <1>6, <1>7, <1>8, <1>9, <1>10, <1>11, TodoActs
-----------------------------------------------------------------------------
(* What a worker has seen of its job when it comes to the steps that        *)
(* process or settle it.                                                    *)

FreePc == {"idle", "lock", "conflict", "pipeline", "process", "settle", "recheck",
           "requeue", "ack", "unlock"}

SeesJob(v, pc, k) ==
    \/ /\ pc = "get" /\ worker[v].pc = "process"
       /\ job[k].submitted /\ job[k].status # "settling" /\ UNCHANGED job
    \/ pc = "apply" /\ worker[v].pc = "get" /\ UNCHANGED job
    \/ /\ pc = "index" /\ worker[v].pc = "process"
       /\ job[k].submitted /\ job[k].status = "indexing" /\ UNCHANGED job
    \/ pc = "index" /\ worker[v].pc = "apply" /\ job'[k].status = "indexing"
    \/ pc = "toSettling" /\ worker[v].pc = "index"
    \/ pc = "releaseTerminal" /\ Dead(k)'

SeesBill(v, pc, k) ==
    \/ /\ pc \in {"capture", "record"} /\ worker[v].pc = "settle"
       /\ job[k].status = "settling" /\ UNCHANGED job
    \/ pc \in {"mark", "record"} /\ worker[v].pc = "capture"
    \/ /\ pc = "exhaust" /\ worker[v].pc = "settle" /\ job[k].status = "settling"
       /\ job[k].retries >= MaxRetries /\ UNCHANGED job
    \/ pc = "exhaust" /\ worker[v].pc = "record" /\ job'[k].retries >= MaxRetries
    \/ pc = "failJob" /\ worker[v].pc = "exhaust" /\ Release(k, TRUE)
    \/ pc = "releaseFailed" /\ worker[v].pc = "exhaust"

\* Where a step may take worker v.
WorkStep(v) ==
    \/ worker'[v] = worker[v]
    \/ worker'[v].pc \in FreePc
    \/ /\ worker'[v].job = worker[v].job
       /\ SeesJob(v, worker'[v].pc, worker[v].job) \/ SeesBill(v, worker'[v].pc, worker[v].job)

LEMMA GotoWork ==
    ASSUME worker \in [Workers -> WorkerState], NEW w \in Workers, NEW v \in Workers,
           NEW pc, Goto(w, pc),
           pc \in FreePc \/ SeesJob(w, pc, worker[w].job) \/ SeesBill(w, pc, worker[w].job)
    PROVE  WorkStep(v)
<1>1. CASE v # w
  BY <1>1 DEF Goto, WorkStep
<1>2. CASE v = w
  <2>1. worker'[v].pc = pc /\ worker'[v].job = worker[v].job
    BY <1>2 DEF Goto, WorkerState
  <2> QED BY <1>2, <2>1 DEF WorkStep
<1> QED BY <1>1, <1>2

LEMMA ProcessWork ==
    ASSUME TypeOK, NEW w \in Workers, NEW j \in Jobs, NEW v \in Workers, ProcessStep(w, j)
    PROVE  WorkStep(v)
<1>1. worker \in [Workers -> WorkerState] /\ job \in [Jobs -> JobRow]
  BY DEF TypeOK
<1> USE DEF On, OrRequeue, ReadFails
<1>2. ASSUME NEW pc \in FreePc, Goto(w, pc) PROVE WorkStep(v)
  BY <1>1, <1>2, GotoWork
<1>3. {"requeue", "process", "settle", "ack"} \subseteq FreePc
  BY DEF FreePc
<1>4. CASE ReadForPipeline(w, j)
  <2>1. Goto(w, "requeue") \/ Goto(w, "process") \/ Goto(w, "settle")
    BY <1>4 DEF ReadForPipeline
  <2> QED BY <1>2, <1>3, <2>1
<1>5. CASE ReadForProcess(w, j)
  <2>1. /\ worker[w].job = j /\ worker[w].pc = "process"
        /\ \/ Goto(w, "requeue")
           \/ Goto(w, AfterProcessRead(j)) /\ UNCHANGED job
    BY <1>5 DEF ReadForProcess
  <2>2. CASE Goto(w, AfterProcessRead(j)) /\ UNCHANGED job
    <3> DEFINE pc == AfterProcessRead(j)
    <3>1. \/ pc \in {"ack", "requeue"}
          \/ pc = "releaseTerminal" /\ Dead(j)
          \/ pc = "get" /\ job[j].submitted /\ job[j].status # "settling"
          \/ pc = "index" /\ job[j].submitted /\ job[j].status = "indexing"
      BY <1>1 DEF AfterProcessRead, Dead, JobRow
    <3> HIDE DEF pc
    <3>2. pc \in FreePc \/ SeesJob(w, pc, j)
      BY <1>3, <2>1, <2>2, <3>1 DEF SeesJob, Dead
    <3>3. Goto(w, pc)
      BY <2>2 DEF pc
    <3> QED BY <1>1, <2>1, <3>2, <3>3, GotoWork
  <2> QED BY <1>2, <1>3, <2>1, <2>2
<1>6. CASE GetFromProvider(w, j)
  <2>1. CASE Goto(w, "requeue")
    BY <1>2, <1>3, <2>1
  <2>2. CASE /\ worker' = [worker EXCEPT ![w].pc = "apply", ![w].saw = upstream[j]]
             /\ UNCHANGED job
    <3>1. v # w => worker'[v] = worker[v]
      BY <1>1, <2>2
    <3>2. v = w => worker'[v].pc = "apply" /\ worker'[v].job = worker[v].job
      BY <1>1, <2>2 DEF WorkerState
    <3>3. worker[w].pc = "get"
      BY <1>6 DEF GetFromProvider
    <3> QED BY <2>2, <3>1, <3>2, <3>3 DEF WorkStep, SeesJob
  <2> QED BY <1>6, <2>1, <2>2 DEF GetFromProvider
<1>7. CASE ApplyProviderState(w, j)
  <2>1. /\ worker[w].job = j /\ worker[w].pc = "apply"
        /\ \/ Goto(w, "requeue")
           \/ \E s \in DOMAIN Answer : Transition(j, Answer[s].to, TRUE) /\ Goto(w, Answer[s].pc)
    BY <1>7 DEF ApplyProviderState, Call
  <2>2. ASSUME NEW s \in DOMAIN Answer, Transition(j, Answer[s].to, TRUE), Goto(w, Answer[s].pc)
        PROVE  WorkStep(v)
    <3>1. /\ Answer[s].to \in Status
          /\ \/ Answer[s].pc = "requeue"
             \/ Answer[s].pc = "index" /\ Answer[s].to = "indexing"
             \/ Answer[s].pc = "releaseTerminal" /\ Answer[s].to \in {"failed", "cancelled"}
      BY DEF Answer, Status, Terminal
    <3>2. job'[j].status = Answer[s].to
      BY <1>1, <2>2, <3>1, TransitionStatus
    <3>3. \/ Answer[s].pc = "requeue"
          \/ Answer[s].pc = "index" /\ job'[j].status = "indexing"
          \/ Answer[s].pc = "releaseTerminal" /\ Dead(j)'
      BY <3>1, <3>2 DEF Dead
    <3>4. PICK pc : pc = Answer[s].pc
      OBVIOUS
    <3>5. pc \in FreePc \/ SeesJob(w, pc, j)
      BY <1>3, <2>1, <3>3, <3>4 DEF SeesJob
    <3>6. Goto(w, pc)
      BY <2>2, <3>4
    <3> QED BY <1>1, <2>1, <3>5, <3>6, GotoWork
  <2> QED BY <1>2, <1>3, <2>1, <2>2
<1>8. CASE IndexResults(w, j)
  <2>1. /\ worker[w].job = j /\ worker[w].pc = "index"
        /\ \/ Goto(w, "requeue") \/ Goto(w, "toSettling")
           \/ Goto(w, "releaseTerminal") /\ Transition(j, "failed", TRUE)
    BY <1>8 DEF IndexResults, Call
  <2>2. Transition(j, "failed", TRUE) => Dead(j)'
    BY <1>1, TransitionStatus DEF Dead, Status, Terminal
  <2>3. /\ SeesJob(w, "toSettling", j)
        /\ Dead(j)' => SeesJob(w, "releaseTerminal", j)
    BY <2>1 DEF SeesJob
  <2> QED BY <1>1, <1>2, <1>3, <2>1, <2>2, <2>3, GotoWork
<1>9. CASE StartSettling(w, j) \/ ReleaseTerminalHold(w, j)
  <2>1. Goto(w, "requeue") \/ Goto(w, "ack")
    BY <1>9 DEF StartSettling, ReleaseTerminalHold
  <2> QED BY <1>2, <1>3, <2>1
<1> QED BY <1>4, <1>5, <1>6, <1>7, <1>8, <1>9 DEF ProcessStep

LEMMA SettleWork ==
    ASSUME TypeOK, NEW w \in Workers, NEW j \in Jobs, NEW v \in Workers, SettleStep(w, j)
    PROVE  WorkStep(v)
<1>1. worker \in [Workers -> WorkerState] /\ job \in [Jobs -> JobRow]
  BY DEF TypeOK
<1> USE DEF On, OrRequeue, ReadFails
<1>2. ASSUME NEW pc, Goto(w, pc), worker[w].job = j,
             pc \in FreePc \/ SeesBill(w, pc, j)
      PROVE  WorkStep(v)
  BY <1>1, <1>2, GotoWork
<1>3. {"requeue", "recheck", "ack"} \subseteq FreePc
  BY DEF FreePc
<1>4. CASE ReadForSettle(w, j)
  <2>1. /\ worker[w].job = j /\ worker[w].pc = "settle"
        /\ \/ Goto(w, "requeue")
           \/ Goto(w, AfterSettleRead(j)) /\ UNCHANGED job
    BY <1>4 DEF ReadForSettle
  <2>2. CASE Goto(w, AfterSettleRead(j)) /\ UNCHANGED job
    <3> DEFINE pc == AfterSettleRead(j)
    <3>1. \/ pc \in {"ack", "requeue"}
          \/ pc \in {"record", "capture"} /\ job[j].status = "settling"
          \/ pc = "exhaust" /\ job[j].status = "settling" /\ job[j].retries >= MaxRetries
      BY DEF AfterSettleRead, RetryExhausted
    <3> HIDE DEF pc
    <3>2. pc \in FreePc \/ SeesBill(w, pc, j)
      BY <1>3, <2>1, <2>2, <3>1 DEF SeesBill
    <3>3. Goto(w, pc)
      BY <2>2 DEF pc
    <3> QED BY <1>2, <2>1, <3>2, <3>3
  <2> QED BY <1>2, <1>3, <2>1, <2>2
<1>5. CASE CaptureHold(w, j)
  <2>1. /\ worker[w].job = j /\ worker[w].pc = "capture"
        /\ Goto(w, "mark") \/ Goto(w, "record")
    BY <1>5 DEF CaptureHold
  <2>2. SeesBill(w, "mark", j) /\ SeesBill(w, "record", j)
    BY <2>1 DEF SeesBill
  <2> QED BY <1>2, <2>1, <2>2
<1>6. CASE MarkJobSettled(w, j) \/ RecordReleaseFailure(w, j) \/ FailExhaustedJob(w, j)
           \/ Recheck(w, j)
  <2>1. /\ worker[w].job = j
        /\ Goto(w, "ack") \/ Goto(w, "requeue") \/ Goto(w, "recheck")
    BY <1>6 DEF MarkJobSettled, RecordReleaseFailure, FailExhaustedJob, Recheck
  <2> QED BY <1>2, <1>3, <2>1
<1>7. CASE RecordSettlementFailure(w, j)
  <2>1. /\ worker[w].job = j /\ worker[w].pc = "record"
        /\ \/ Goto(w, "exhaust") /\ job'[j].retries >= MaxRetries
           \/ Goto(w, "requeue") \/ Goto(w, "recheck")
    BY <1>7 DEF RecordSettlementFailure
  <2>2. job'[j].retries >= MaxRetries => SeesBill(w, "exhaust", j)
    BY <2>1 DEF SeesBill
  <2> QED BY <1>2, <1>3, <2>1, <2>2
<1>8. CASE ReleaseExhausted(w, j)
  <2>1. /\ worker[w].job = j /\ worker[w].pc = "exhaust"
        /\ (Goto(w, "failJob") /\ Release(j, TRUE)) \/ Goto(w, "releaseFailed")
    BY <1>8 DEF ReleaseExhausted, Call
  <2>2. /\ Release(j, TRUE) => SeesBill(w, "failJob", j)
        /\ SeesBill(w, "releaseFailed", j)
    BY <2>1 DEF SeesBill
  <2> QED BY <1>2, <2>1, <2>2
<1> QED BY <1>4, <1>5, <1>6, <1>7, <1>8 DEF SettleStep

LEMMA WorkMoves ==
    ASSUME TypeOK, [Next]_vars, NEW v \in Workers
    PROVE  WorkStep(v)
<1>1. worker \in [Workers -> WorkerState]
  BY DEF TypeOK
<1>2. CASE UNCHANGED worker
  BY <1>2 DEF WorkStep
<1>3. ASSUME NEW w \in Workers, NEW j \in Jobs, WorkerStep(w, j) PROVE WorkStep(v)
  <2>1. CASE ReserveReady(w, j)
    <3>1. worker'[v] = worker[v] \/ worker'[v].pc = "lock"
      BY <1>1, <2>1 DEF ReserveReady, WorkerState
    <3> QED BY <3>1 DEF WorkStep, FreePc
  <2>2. CASE \/ TryAcquireJobLock(w, j) \/ AckJob(w, j) \/ RequeueJob(w, j)
             \/ ReleaseLock(w, j)
    <3>1. \E pc \in {"pipeline", "conflict", "unlock", "idle"} : Goto(w, pc)
      BY <2>2 DEF TryAcquireJobLock, AckJob, RequeueJob, ReleaseLock
    <3> QED BY <1>1, <3>1, GotoWork DEF FreePc
  <2> QED BY <1>3, <2>1, <2>2, ProcessWork, SettleWork DEF WorkerStep
<1>4. ASSUME NEW w \in Workers, WorkerDies(w) PROVE WorkStep(v)
  <2>1. Goto(w, "idle")
    BY <1>4 DEF WorkerDies
  <2> QED BY <1>1, <2>1, GotoWork DEF FreePc
<1>5. ASSUME NEW j \in Jobs, HandlerStep(j) PROVE UNCHANGED worker
  BY <1>5 DEF HandlerStep, SubmitStep, ReserveHold, CreatePendingItems, StartUpload,
     SubmitToProvider, RecordProviderJob, AbortOrphan, RecordFailure, HideFailure,
     RecordQueueFailure, CancelAtProvider, CancelJob, EnqueueJob, ReleaseHold
<1> QED BY <1>2, <1>3, <1>4, <1>5 DEF Next, CreateJob, ReplaySubmit, ReadForCancel,
     GrowStale, FailStaleUnsubmitted, UpstreamRuns, UpstreamEnds,
     UpstreamEndsUnreadable, LoseAccount, DeleteOutputs,
     MoveDueDelayed, RecoverStaleActive, LockExpires, HandlerDies, vars
-----------------------------------------------------------------------------
(* The life of a row as the invariants see it, without the actors whose     *)
(* part in it they rule out.                                                *)

Past(k) == job[k].status = "settling" \/ job[k].status \in Terminal

SettlingPc == {"capture", "mark", "record", "exhaust", "releaseFailed", "failJob"}

WorkInv ==
    \A w \in Workers :
      /\ worker[w].pc \in SettlingPc => Past(worker[w].job) /\ job[worker[w].job].submitted
      /\ worker[w].pc \in {"get", "apply", "index", "toSettling"} =>
           job[worker[w].job].submitted
      /\ worker[w].pc = "releaseTerminal" => Dead(worker[w].job)
      /\ worker[w].pc = "exhaust" /\ job[worker[w].job].status = "settling" =>
           job[worker[w].job].retries = MaxRetries
      /\ worker[w].pc = "failJob" =>
           Dead(worker[w].job) \/ Released(worker[w].job) \/ Hold[worker[w].job] = 0

Keeps(k) == job'[k].submitted = job[k].submitted

\* The steps of a row, each from the statuses and by the actors it may come.
LifeStep(k) ==
    \/ SameRow(k)
    \/ job[k].status = "none" /\ job'[k].status = "created" /\ ~job[k].submitted /\ Keeps(k)
    \/ /\ At(k, "submit", "upload") /\ ~job[k].submitted /\ Keeps(k)
       /\ job[k].status = "created" /\ job'[k].status = "uploading"
    \/ /\ RecordProviderJob(k) /\ ~job[k].submitted /\ job'[k].submitted /\ Held(k)
       /\ job[k].status \in {"created", "uploading"} /\ job'[k].status = "submitted"
    \/ /\ ~job[k].submitted /\ Keeps(k)
       /\ job[k].status # "none" /\ job'[k].status = "failed"
    \/ /\ job[k].status \in {"created", "uploading", "submitted", "running"}
       /\ job'[k].status = "cancelled" /\ Keeps(k)
    \/ /\ job[k].submitted /\ Keeps(k)
       /\ \/ /\ job[k].status \in {"submitted", "running"}
             /\ job'[k].status \in {"running", "indexing"}
          \/ /\ job[k].status \notin Terminal /\ job'[k].status = "failed"
             /\ \E w \in Workers : On(w, k, "apply") \/ On(w, k, "index") \/ On(w, k, "failJob")
          \/ /\ job[k].status = "indexing" /\ job'[k].status = "settling"
             /\ \E w \in Workers : On(w, k, "toSettling")
          \/ /\ job[k].status = "settling" /\ job'[k].status = "completed"
             /\ \E w \in Workers : On(w, k, "mark")
          \/ job[k].status = "completed" /\ job'[k].status = "output_deleted"

LEMMA AllowedFrom ==
    ASSUME NEW from \in Status \ {"none"}
    PROVE  /\ CanTransition(from, "uploading") => from = "created"
           /\ CanTransition(from, "submitted") => from \in {"created", "uploading"}
           /\ CanTransition(from, "running") \/ CanTransition(from, "indexing") =>
                from \in {"submitted", "running"}
           /\ CanTransition(from, "cancelled") =>
                from \in {"created", "uploading", "submitted", "running"}
           /\ CanTransition(from, "settling") => from = "indexing"
           /\ CanTransition(from, "failed") => from \notin Terminal
<1>1. CASE from \in Terminal
  BY <1>1 DEF CanTransition, Terminal
<1>2. CASE from \notin Terminal
  <2>1. from \in {"created", "uploading", "submitted", "running", "indexing", "settling"}
    BY <1>2 DEF Status
  <2> QED BY <1>2, <2>1 DEF CanTransition, Allowed
<1> QED BY <1>1, <1>2

\* A submission that has steps to take has not reached the provider.
LEMMA SubmitterFacts ==
    ASSUME TypeOK, PlanInv, NEW k \in Jobs,
           NEW s \in {"reserve", "items", "upload", "provider", "update", "release", "record"},
           At(k, "submit", s)
    PROVE  /\ ~job[k].submitted /\ job[k].status # "none"
           /\ s \notin {"reserve", "record"} => Held(k)
           /\ s \in {"release", "record"} => todo[k]["submit"] \notin SendPlans
<1> DEFINE p == todo[k]["submit"]
<1>1. /\ p \in SendPlans \cup ReleasePlans \cup RecordPlans \cup EndPlans
      /\ p # <<>> /\ Head(p) = s
      /\ p \notin EndPlans => ~job[k].submitted /\ job[k].status # "none"
      /\ p \in HeldPlans => Held(k)
  BY DEF PlanInv, At
<1> HIDE DEF p
<1>2. /\ s = "reserve" => p \in SendPlans
      /\ s \in {"items", "upload", "provider", "update"} => p \in SendPlans \ {SubmitSteps}
      /\ s = "release" => p \in ReleasePlans
      /\ s = "record" => p \in RecordPlans
  BY <1>1, PlanHead, DisjointPlans
<1>3. p \notin EndPlans /\ (s \in {"release", "record"} => p \notin SendPlans)
  BY <1>2, DisjointPlans
<1>4. s \notin {"reserve", "record"} => p \in HeldPlans
  BY <1>2 DEF HeldPlans
<1> QED BY <1>1, <1>3, <1>4 DEF p

LEMMA LifeMoves ==
    ASSUME TypeOK, RowInv, PlanInv, WorkInv, [Next]_vars, NEW k \in Jobs
    PROVE  LifeStep(k) /\ job'[k].retries >= job[k].retries
<1>1. RowStep(k)
  BY RowMoves
<1>2. job[k].status \in Status /\ job[k].submitted \in BOOLEAN
  BY DEF TypeOK, JobRow
<1>3. /\ At(k, "submit", "upload") => ~job[k].submitted /\ job[k].status # "none"
      /\ RecordProviderJob(k) => ~job[k].submitted /\ job[k].status # "none" /\ Held(k)
      /\ At(k, "submit", "record") \/ Unsubmitted(k) =>
           ~job[k].submitted /\ job[k].status # "none"
      /\ At(k, "cancel", "transition") => job[k].status # "none"
  <2>1. RecordProviderJob(k) => At(k, "submit", "update")
    BY DEF RecordProviderJob
  <2> QED BY <2>1, SubmitterFacts DEF PlanInv, Unsubmitted, At
<1>4. ASSUME NEW w \in Workers,
             \/ On(w, k, "apply") \/ On(w, k, "index") \/ On(w, k, "failJob")
             \/ On(w, k, "toSettling") \/ On(w, k, "mark")
      PROVE  job[k].submitted /\ job[k].status # "none"
  BY <1>4 DEF WorkInv, On, SettlingPc, RowInv
<1>5. job[k].status = "none" => ~job[k].submitted
  BY DEF RowInv
<1>6. job[k].status = "completed" => job[k].submitted
  BY DEF RowInv
<1> USE DEF LifeStep, Keeps
<1>7. CASE SameRow(k)
  BY <1>1, <1>7 DEF RowStep
<1>8. CASE At(k, "submit", "upload") /\ Moves(k, "uploading")
  BY <1>1, <1>2, <1>3, <1>8, AllowedFrom DEF Moves, RowStep
<1>9. CASE /\ RecordProviderJob(k) /\ CanTransition(job[k].status, "submitted")
           /\ job'[k].status = "submitted" /\ job'[k].submitted
  BY <1>1, <1>2, <1>3, <1>9, AllowedFrom DEF RowStep
<1>10. CASE At(k, "cancel", "transition") /\ Moves(k, "cancelled")
  BY <1>1, <1>2, <1>3, <1>10, AllowedFrom DEF Moves, RowStep
<1>11. ASSUME NEW w \in Workers, On(w, k, "apply"),
              NEW to \in {"running", "indexing", "failed", "cancelled"}, Moves(k, to)
       PROVE  LifeStep(k)
  BY <1>2, <1>4, <1>11, AllowedFrom DEF Moves
<1>12. ASSUME NEW w \in Workers,
              \/ (On(w, k, "index") \/ On(w, k, "failJob")) /\ Moves(k, "failed")
              \/ On(w, k, "toSettling") /\ Moves(k, "settling")
       PROVE  LifeStep(k)
  BY <1>2, <1>4, <1>12, AllowedFrom DEF Moves
<1>13. ASSUME NEW w \in Workers, On(w, k, "mark"), job[k].status = "settling",
              job'[k].status = "completed", job'[k].submitted = job[k].submitted
       PROVE  LifeStep(k)
  BY <1>4, <1>13
<1>14. CASE /\ job[k].status = "none" /\ job'[k].status = "created"
            /\ job'[k].submitted = job[k].submitted
  BY <1>1, <1>5, <1>14 DEF RowStep
<1>15. CASE /\ At(k, "submit", "record") \/ Unsubmitted(k)
            /\ job'[k].status = "failed" /\ job'[k].submitted = job[k].submitted
  BY <1>1, <1>3, <1>15 DEF RowStep
<1>16. CASE /\ job[k].status = "completed" /\ job'[k].status = "output_deleted"
            /\ job'[k].submitted = job[k].submitted
  BY <1>1, <1>6, <1>16 DEF RowStep
<1> HIDE DEF LifeStep
<1> QED BY <1>1, <1>7, <1>8, <1>9, <1>10, <1>11, <1>12, <1>13, <1>14, <1>15, <1>16 DEF RowStep

\* Where a job has come it stays.
LEMMA LifeStays ==
    ASSUME NEW k \in Jobs, job \in [Jobs -> JobRow], LifeStep(k)
    PROVE  /\ Dead(k) => Dead(k)'
           /\ Past(k) => Past(k)'
           /\ job[k].submitted => job'[k].submitted
           /\ job[k].status # "none" => job'[k].status # "none"
           /\ Finished(k) /\ job[k].submitted => Finished(k)'
<1> USE DEF Dead, Past, Finished, Terminal, LifeStep, SameRow, Keeps
<1>1. /\ Dead(k) => Dead(k)'
      /\ Past(k) => Past(k)'
  OBVIOUS
<1>2. /\ job[k].submitted => job'[k].submitted
      /\ job[k].status # "none" => job'[k].status # "none"
  OBVIOUS
<1>3. Finished(k) /\ job[k].submitted => Finished(k)'
  OBVIOUS
<1> QED BY <1>1, <1>2, <1>3

\* The claims of a job and where it is: charged only while it is being settled
\* or after that; a release that found no hold is that of a dead job; and what
\* is refunded and not charged is over, never left for the provider, or at the
\* end of its retries.
RefundedAt(k) ==
    \/ Dead(k)
    \/ Unsubmitted(k) /\ todo[k]["submit"] \notin SendPlans
    \/ job[k].status = "settling" /\ job[k].retries = MaxRetries

BillInv ==
    \A k \in Jobs :
      /\ "hold" \in claims[k] => Hold[k] > 0
      /\ Released(k) => "hold" \in claims[k]
      /\ Captured(k) => Past(k) /\ Held(k)
      /\ "void" \in claims[k] => Dead(k)
      /\ Released(k) /\ ~Captured(k) => RefundedAt(k)

LifeInv == RowInv /\ PlanInv /\ WorkInv /\ BillInv

LEMMA HeldStays ==
    ASSUME TypeOK, [Next]_vars, NEW k \in Jobs
    PROVE  (Held(k) => Held(k)') /\ (Released(k) => Released(k)') /\ (Captured(k) => Captured(k)')
BY ClaimMoves DEF ClaimStep, Held, Released, Captured

LEMMA RowInvStep ==
    ASSUME TypeOK, RowInv, PlanInv, WorkInv, [Next]_vars
    PROVE  RowInv'
<1> SUFFICES ASSUME NEW k \in Jobs
             PROVE  /\ job'[k].status \in {"none", "created", "uploading"} => ~job'[k].submitted
                    /\ job'[k].status \in {"submitted", "running", "indexing", "settling",
                                           "completed", "output_deleted"} => job'[k].submitted
                    /\ job'[k].submitted => Held(k)'
  BY DEF RowInv
<1>1. LifeStep(k)
  BY LifeMoves
<1>2. /\ job[k].status \in {"none", "created", "uploading"} => ~job[k].submitted
      /\ job[k].status \in {"submitted", "running", "indexing", "settling",
                            "completed", "output_deleted"} => job[k].submitted
      /\ job[k].submitted => Held(k)
      /\ Held(k) => Held(k)'
  BY HeldStays DEF RowInv
<1> QED BY <1>1, <1>2 DEF LifeStep, SameRow, Keeps

LEMMA PlanInvStep ==
    ASSUME TypeOK, RowInv, PlanInv, WorkInv, [Next]_vars
    PROVE  PlanInv'
<1> SUFFICES ASSUME NEW k \in Jobs
             PROVE  /\ todo'[k]["submit"] \in
                         SendPlans \cup ReleasePlans \cup RecordPlans \cup EndPlans
                    /\ todo'[k]["submit"] \notin EndPlans =>
                         ~job'[k].submitted /\ job'[k].status # "none"
                    /\ todo'[k]["submit"] \in HeldPlans => Held(k)'
                    /\ todo'[k]["cancel"] \in CancelPlans \cup {<<"release">>}
                    /\ todo'[k]["cancel"] # <<>> => job'[k].status # "none"
                    /\ todo'[k]["recover"] \in {<<>>, <<"release">>, <<"retry">>}
                    /\ \A h \in {"cancel", "recover"} :
                         todo'[k][h] = <<"release">> => Dead(k)'
  BY DEF PlanInv
<1>1. LifeStep(k)
  BY LifeMoves
<1>2. /\ Dead(k) => Dead(k)'
      /\ job[k].status # "none" => job'[k].status # "none"
  BY <1>1, LifeStays DEF TypeOK
<1>3. Held(k) => Held(k)'
  BY HeldStays
<1>4. job[k].status = "none" => ~job[k].submitted
  BY DEF RowInv
<1>5. ~RecordProviderJob(k) /\ ~job[k].submitted => ~job'[k].submitted
  BY <1>1 DEF LifeStep, SameRow, Keeps
<1>6. /\ todo'[k]["submit"] \in SendPlans \cup ReleasePlans \cup RecordPlans \cup EndPlans
      /\ todo'[k]["submit"] \notin EndPlans => ~job'[k].submitted /\ job'[k].status # "none"
      /\ todo'[k]["submit"] \in HeldPlans => Held(k)'
  <2> DEFINE p == todo[k]["submit"]
             q == todo'[k]["submit"]
  <2> SUFFICES /\ q \in SendPlans \cup ReleasePlans \cup RecordPlans \cup EndPlans
               /\ q \notin EndPlans => ~job'[k].submitted /\ job'[k].status # "none"
               /\ q \in HeldPlans => Held(k)'
    OBVIOUS
  <2>1. /\ p \in SendPlans \cup ReleasePlans \cup RecordPlans \cup EndPlans
        /\ p \notin EndPlans => ~job[k].submitted /\ job[k].status # "none"
        /\ p \in HeldPlans => Held(k)
    BY DEF PlanInv
  <2>2. \/ q = p /\ ~RecordProviderJob(k)
        \/ q \in EndPlans
        \/ /\ job[k].status = "none" /\ job'[k].status = "created"
           /\ q = SubmitSteps
        \/ /\ q \in SendPlans \cup ReleasePlans \cup RecordPlans
           /\ p \in SendPlans \cup ReleasePlans
           /\ q \in HeldPlans => Held(k)'
           /\ ~RecordProviderJob(k)
    BY SubmitPlanMoves DEF SubmitPlanStep
  <2> HIDE DEF p, q
  <2>3. CASE q = p /\ ~RecordProviderJob(k)
    BY <1>2, <1>3, <1>5, <2>1, <2>3
  <2>4. CASE q \in EndPlans
    BY <2>4, DisjointPlans DEF HeldPlans
  <2>5. CASE job[k].status = "none" /\ job'[k].status = "created" /\ q = SubmitSteps
    <3>1. ~RecordProviderJob(k)
      <4>1. RecordProviderJob(k) => At(k, "submit", "update")
        BY DEF RecordProviderJob
      <4> QED BY <2>5, <4>1, SubmitterFacts
    <3> QED BY <1>4, <1>5, <2>5, <3>1, DisjointPlans DEF HeldPlans
  <2>6. CASE /\ q \in SendPlans \cup ReleasePlans \cup RecordPlans
             /\ p \in SendPlans \cup ReleasePlans
             /\ q \in HeldPlans => Held(k)'
             /\ ~RecordProviderJob(k)
    BY <1>2, <1>5, <2>1, <2>6, DisjointPlans
  <2> QED BY <2>2, <2>3, <2>4, <2>5, <2>6
<1>7. /\ todo'[k]["cancel"] \in CancelPlans \cup {<<"release">>}
      /\ todo'[k]["cancel"] # <<>> => job'[k].status # "none"
      /\ todo'[k]["cancel"] = <<"release">> => Dead(k)'
  <2>1. /\ todo[k]["cancel"] \in CancelPlans \cup {<<"release">>}
        /\ todo[k]["cancel"] # <<>> => job[k].status # "none"
        /\ todo[k]["cancel"] = <<"release">> => Dead(k)
    BY DEF PlanInv
  <2>2. Dead(k)' => job'[k].status # "none"
    BY DEF Dead
  <2>3. CancelPlanStep(k)
    BY CancelPlanMoves
  <2>4. <<"release">> \notin CancelPlans /\ <<>> \in CancelPlans
    BY OtherPlans
  <2> QED BY <1>2, <2>1, <2>2, <2>3, <2>4 DEF CancelPlanStep
<1>8. /\ todo'[k]["recover"] \in {<<>>, <<"release">>, <<"retry">>}
      /\ todo'[k]["recover"] = <<"release">> => Dead(k)'
  <2>1. /\ todo[k]["recover"] \in {<<>>, <<"release">>, <<"retry">>}
        /\ todo[k]["recover"] = <<"release">> => Dead(k)
    BY DEF PlanInv
  <2>2. RecoverPlanStep(k)
    BY RecoverPlanMoves
  <2>3. <<"release">> # <<>> /\ <<"release">> # <<"retry">>
    OBVIOUS
  <2> QED BY <1>2, <2>1, <2>2, <2>3 DEF RecoverPlanStep
<1> QED BY <1>6, <1>7, <1>8

\* A release that succeeds for a job that has its hold leaves it released, or
\* dead when an earlier release found no hold.
LEMMA ReleaseDone ==
    ASSUME TypeOK, BillInv, NEW k \in Jobs, Held(k), Release(k, TRUE)
    PROVE  Dead(k) \/ Released(k)' \/ Hold[k] = 0
<1>1. claims \in [Jobs -> SUBSET Claim]
  BY DEF TypeOK, LedgerTypeOK
<1>2. "void" \in claims[k] => Dead(k)
  BY DEF BillInv
<1>3. CASE claims[k] \cap {"release", "void"} # {} /\ UNCHANGED claims
  BY <1>2, <1>3 DEF Released
<1>4. CASE ClaimAs(k, "release")
  BY <1>1, <1>4 DEF ClaimAs, Released
<1> QED BY <1>3, <1>4 DEF Release, Held, ledger

LEMMA WorkInvStep ==
    ASSUME TypeOK, TypeOK', RowInv, PlanInv, WorkInv, BillInv, [Next]_vars
    PROVE  WorkInv'
<1> SUFFICES ASSUME NEW v \in Workers, NEW pc, NEW k \in Jobs,
                    pc = worker'[v].pc, k = worker'[v].job
             PROVE  /\ pc \in SettlingPc => Past(k)' /\ job'[k].submitted
                    /\ pc \in {"get", "apply", "index", "toSettling"} => job'[k].submitted
                    /\ pc = "releaseTerminal" => Dead(k)'
                    /\ pc = "exhaust" /\ job'[k].status = "settling" =>
                         job'[k].retries = MaxRetries
                    /\ pc = "failJob" => Dead(k)' \/ Released(k)' \/ Hold[k] = 0
  <2>1. ASSUME NEW v \in Workers PROVE worker'[v].job \in Jobs
    BY <2>1 DEF TypeOK, WorkerState
  <2> QED BY <2>1 DEF WorkInv, Past, Dead, Released
<1>2. LifeStep(k) /\ job'[k].retries >= job[k].retries
  BY LifeMoves
<1>3. /\ Dead(k) => Dead(k)'
      /\ Past(k) => Past(k)'
      /\ job[k].submitted => job'[k].submitted
      /\ Released(k) => Released(k)'
  <2>1. job \in [Jobs -> JobRow]
    BY DEF TypeOK
  <2> QED BY <1>2, <2>1, LifeStays, HeldStays
<1>4. job'[k].retries >= MaxRetries => job'[k].retries = MaxRetries
  BY BatchImageAssumption DEF TypeOK, JobRow
<1>5. worker[v].job = k =>
        /\ worker[v].pc \in SettlingPc => Past(k) /\ job[k].submitted
        /\ worker[v].pc \in {"get", "apply", "index", "toSettling"} => job[k].submitted
        /\ worker[v].pc = "releaseTerminal" => Dead(k)
        /\ worker[v].pc = "exhaust" /\ job[k].status = "settling" =>
             job[k].retries = MaxRetries
        /\ worker[v].pc = "failJob" => Dead(k) \/ Released(k) \/ Hold[k] = 0
  BY DEF WorkInv
<1>6. job[k].status = "settling" => Past(k) /\ job[k].submitted
  BY DEF Past, RowInv
<1>7. CASE worker'[v] = worker[v]
  <2>0. worker[v].job = k /\ worker[v].pc = pc
    BY <1>7
  <2>1. pc = "exhaust" /\ job'[k].status = "settling" => job'[k].retries = MaxRetries
    <3> SUFFICES ASSUME pc = "exhaust", job'[k].status = "settling"
                 PROVE  job'[k].retries = MaxRetries
      OBVIOUS
    <3>1. Past(k)
      BY <1>5, <2>0 DEF SettlingPc
    <3>2. job[k].status = "settling"
      BY <1>2, <3>1 DEF LifeStep, SameRow, Keeps, Past, Terminal
    <3>3. job[k].retries = MaxRetries
      BY <1>5, <2>0, <3>2
    <3> QED BY <1>2, <1>4, <3>3
  <2> QED BY <1>3, <1>5, <2>0, <2>1
<1>8. CASE pc \in FreePc
  BY <1>8 DEF FreePc, SettlingPc
<1>9. CASE worker[v].job = k /\ SeesJob(v, pc, k)
  <2>1. /\ pc \in {"get", "apply", "index", "toSettling", "releaseTerminal"}
        /\ pc = "releaseTerminal" => Dead(k)'
    BY <1>9 DEF SeesJob
  <2>2. pc # "releaseTerminal" => job[k].submitted
    BY <1>5, <1>9 DEF SeesJob
  <2>3. pc \notin SettlingPc
    BY <2>1 DEF SettlingPc
  <2> QED BY <1>3, <2>1, <2>2, <2>3
<1>10. CASE worker[v].job = k /\ SeesBill(v, pc, k)
  <2>1. Past(k) /\ job[k].submitted
    <3>1. job[k].status = "settling" \/ worker[v].pc \in SettlingPc
      BY <1>10 DEF SeesBill, SettlingPc
    <3> QED BY <1>5, <1>6, <1>10, <3>1
  <2>2. pc \in {"capture", "record", "mark", "exhaust", "failJob", "releaseFailed"}
    BY <1>10 DEF SeesBill
  <2>3. pc = "exhaust" => job'[k].retries >= MaxRetries
    BY <1>10 DEF SeesBill
  <2>4. pc = "failJob" => Dead(k) \/ Released(k)' \/ Hold[k] = 0
    <3>1. pc = "failJob" => Release(k, TRUE)
      BY <1>10 DEF SeesBill
    <3>2. Held(k)
      BY <2>1 DEF RowInv
    <3> QED BY <3>1, <3>2, ReleaseDone
  <2> QED BY <1>3, <1>4, <2>1, <2>2, <2>3, <2>4
<1>11. WorkStep(v)
  BY WorkMoves
<1> QED BY <1>7, <1>8, <1>9, <1>10, <1>11 DEF WorkStep

\* Who releases, and where the job is then.
LEMMA ReleasedFrom ==
    ASSUME TypeOK, RowInv, PlanInv, WorkInv, NEW k \in Jobs, Releasing(k)
    PROVE  /\ Dead(k) \/ Held(k)
           /\ Finished(k) \/ RefundedAt(k)
<1>1. job[k].status \in Status
  BY DEF TypeOK, JobRow
<1>2. /\ job[k].status \in {"submitted", "running", "indexing", "settling",
                            "completed", "output_deleted"} => job[k].submitted
      /\ job[k].submitted => Held(k)
  BY DEF RowInv
<1>3. CASE At(k, "submit", "release")
  <2>1. /\ ~job[k].submitted /\ job[k].status # "none" /\ Held(k)
        /\ todo[k]["submit"] \notin SendPlans
    BY <1>3, SubmitterFacts
  <2>2. job[k].status \in {"created", "uploading", "failed", "cancelled"}
    BY <1>1, <1>2, <2>1 DEF Status, Terminal
  <2> QED BY <2>1, <2>2 DEF RefundedAt, Dead, Unsubmitted
<1>4. ASSUME NEW h \in {"cancel", "recover"}, At(k, h, "release") PROVE Dead(k)
  <2>1. /\ todo[k]["cancel"] \in CancelPlans \cup {<<"release">>}
        /\ todo[k]["recover"] \in {<<>>, <<"release">>, <<"retry">>}
        /\ todo[k][h] = <<"release">> => Dead(k)
    BY DEF PlanInv
  <2>2. todo[k][h] # <<>> /\ Head(todo[k][h]) = "release"
    BY <1>4 DEF At
  <2>3. \A p \in CancelPlans : p = <<>> \/ Head(p) # "release"
    BY OtherPlans
  <2>4. Head(<<"retry">>) # "release"
    OBVIOUS
  <2>5. todo[k][h] = <<"release">>
    <3>1. CASE h = "cancel"
      BY <2>1, <2>2, <2>3, <3>1
    <3>2. CASE h = "recover"
      BY <2>1, <2>2, <2>4, <3>2
    <3> QED BY <3>1, <3>2
  <2> QED BY <2>1, <2>5
<1>5. ASSUME NEW w \in Workers, On(w, k, "releaseTerminal") PROVE Dead(k)
  BY <1>5 DEF WorkInv, On
<1>6. ASSUME NEW w \in Workers, On(w, k, "exhaust")
      PROVE  Held(k) /\ (Finished(k) \/ RefundedAt(k))
  <2>1. /\ Past(k) /\ job[k].submitted
        /\ job[k].status = "settling" => job[k].retries = MaxRetries
    BY <1>6 DEF WorkInv, On, SettlingPc
  <2> QED BY <1>2, <2>1 DEF Past, Terminal, RefundedAt, Dead, Finished
<1>7. \/ At(k, "submit", "release")
      \/ \E h \in {"cancel", "recover"} : At(k, h, "release")
      \/ \E w \in Workers : On(w, k, "releaseTerminal") \/ On(w, k, "exhaust")
  BY DEF Releasing, Handler
<1>8. Dead(k) => RefundedAt(k)
  BY DEF RefundedAt
<1> QED BY <1>3, <1>4, <1>5, <1>6, <1>7, <1>8

\* What was refunded is never sent or charged: a step that leaves it uncharged
\* leaves it where a refund may be.
LEMMA RefundStays ==
    ASSUME TypeOK, TypeOK', RowInv, PlanInv, WorkInv, ChargeInv, [Next]_vars,
           NEW k \in Jobs, RefundedAt(k), ~Captured(k)'
    PROVE  RefundedAt(k)'
<1>1. LifeStep(k) /\ job'[k].retries >= job[k].retries
  BY LifeMoves
<1>2. ~Captured(k)
  BY HeldStays
<1>3. Dead(k) => Dead(k)'
  BY <1>1, LifeStays DEF TypeOK
<1>4. CASE Unsubmitted(k) /\ todo[k]["submit"] \notin SendPlans
  <2>1. todo'[k]["submit"] \notin SendPlans
    <3>1. SubmitPlanStep(k)
      BY SubmitPlanMoves
    <3>2. job[k].status # "none"
      BY <1>4 DEF Unsubmitted
    <3> QED BY <1>4, <3>1, <3>2, DisjointPlans DEF SubmitPlanStep
  <2>2. ~RecordProviderJob(k)
    <3>1. RecordProviderJob(k) => todo[k]["submit"] # <<>> /\ Head(todo[k]["submit"]) = "update"
      BY DEF RecordProviderJob, At
    <3>2. todo[k]["submit"] \in SendPlans \cup ReleasePlans \cup RecordPlans \cup EndPlans
      BY DEF PlanInv
    <3> QED BY <1>4, <3>1, <3>2, PlanHead
  <2>3. Unsubmitted(k)' \/ Dead(k)'
    BY <1>1, <1>4, <2>2 DEF Unsubmitted, LifeStep, SameRow, Keeps, Dead
  <2> QED BY <2>1, <2>3 DEF RefundedAt
<1>5. CASE job[k].status = "settling" /\ job[k].retries = MaxRetries
  <2>1. ~\E w \in Workers : On(w, k, "mark")
    BY <1>2 DEF ChargeInv, On
  <2>2. job'[k].status = "settling" \/ Dead(k)'
    BY <1>1, <1>5, <2>1 DEF LifeStep, SameRow, Dead
  <2>3. job'[k].retries = MaxRetries
    BY <1>1, <1>5, BatchImageAssumption DEF TypeOK, JobRow
  <2> QED BY <2>2, <2>3 DEF RefundedAt
<1> QED BY <1>3, <1>4, <1>5 DEF RefundedAt

LEMMA BillInvStep ==
    ASSUME TypeOK, TypeOK', RowInv, PlanInv, WorkInv, BillInv, ChargeInv, [Next]_vars
    PROVE  BillInv'
<1> SUFFICES ASSUME NEW k \in Jobs
             PROVE  /\ "hold" \in claims'[k] => Hold[k] > 0
                    /\ Released(k)' => "hold" \in claims'[k]
                    /\ Captured(k)' => Past(k)' /\ Held(k)'
                    /\ "void" \in claims'[k] => Dead(k)'
                    /\ Released(k)' /\ ~Captured(k)' => RefundedAt(k)'
  BY DEF BillInv
<1>1. /\ "hold" \in claims[k] => Hold[k] > 0
      /\ Released(k) => "hold" \in claims[k]
      /\ Captured(k) => Past(k) /\ Held(k)
      /\ "void" \in claims[k] => Dead(k)
      /\ Released(k) /\ ~Captured(k) => RefundedAt(k)
  BY DEF BillInv
<1>2. ClaimStep(k)
  BY ClaimMoves
<1>3. /\ Dead(k) => Dead(k)'
      /\ Past(k) => Past(k)'
  BY LifeMoves, LifeStays DEF TypeOK
<1>4. Held(k) => Held(k)'
  BY HeldStays
<1>5. "hold" \in claims'[k] => Hold[k] > 0
  BY <1>1, <1>2 DEF ClaimStep
<1>6. Released(k)' => "hold" \in claims'[k]
  BY <1>1, <1>2 DEF ClaimStep
<1>7. Captured(k)' => Past(k)' /\ Held(k)'
  <2>1. Capturing(k) => Past(k) /\ Held(k)
    BY DEF Capturing, On, WorkInv, SettlingPc, RowInv
  <2> QED BY <1>1, <1>2, <1>3, <1>4, <2>1 DEF ClaimStep
<1>8. "void" \in claims'[k] => Dead(k)'
  BY <1>1, <1>2, <1>3, ReleasedFrom DEF ClaimStep
<1>9. ASSUME Released(k)', ~Captured(k)' PROVE RefundedAt(k)'
  <2>1. ~Captured(k)
    BY <1>9, HeldStays
  <2>2. ~Finished(k)
    BY <2>1 DEF ChargeInv, CompletedIsCharged
  <2>3. RefundedAt(k)
    BY <1>1, <1>2, <1>9, <2>1, <2>2, ReleasedFrom DEF ClaimStep
  <2> QED BY <1>9, <2>3, RefundStays
<1> QED BY <1>5, <1>6, <1>7, <1>8, <1>9

LEMMA LifeInit == Init => LifeInv /\ ChargeInv
<1> SUFFICES ASSUME Init PROVE LifeInv /\ ChargeInv
  OBVIOUS
<1>1. ASSUME NEW k \in Jobs
      PROVE  /\ job[k].status = "none" /\ ~job[k].submitted
             /\ claims[k] = {}
             /\ \A h \in Handler : todo[k][h] = <<>>
  BY <1>1 DEF Init, LedgerInit
<1>2. \A w \in Workers : worker[w].pc = "idle"
  BY DEF Init
<1>3. /\ RowInv /\ BillInv
  BY <1>1 DEF RowInv, BillInv, Released, Captured
<1>4. PlanInv
  BY <1>1, DisjointPlans, OtherPlans DEF PlanInv, Handler, HeldPlans
<1>5. WorkInv /\ ChargeInv
  BY <1>1, <1>2 DEF WorkInv, SettlingPc, ChargeInv, CompletedIsCharged, Finished
<1> QED BY <1>3, <1>4, <1>5 DEF LifeInv

LEMMA LifeInvStep == TypeOK /\ TypeOK' /\ ChargeInv /\ LifeInv /\ [Next]_vars => LifeInv'
BY RowInvStep, PlanInvStep, WorkInvStep, BillInvStep DEF LifeInv

LEMMA LifeHolds == Spec => []LifeInv
BY LifeInit, TypeCorrect, LifeInvStep, ChargeStep, PTL DEF Spec

LEMMA RefundedOver == TypeOK /\ LifeInv => RefundedIsOver
<1> SUFFICES ASSUME TypeOK, BillInv, NEW j \in Jobs, Released(j), ~Captured(j)
             PROVE  \/ job[j].status \in {"failed", "cancelled"}
                    \/ Unsubmitted(j)
                    \/ job[j].status = "settling" /\ job[j].retries >= MaxRetries
  BY DEF RefundedIsOver, LifeInv
<1>1. RefundedAt(j)
  BY DEF BillInv
<1>2. job[j].retries = MaxRetries => job[j].retries >= MaxRetries
  BY BatchImageAssumption
<1> QED BY <1>1, <1>2 DEF RefundedAt, Dead

\* The hold that a release of batch_image_billing_recovery.go, of Cancel or of the
\* settlement gave back, uncharged, is that of a job that is over, that was not
\* sent, or that has used up its retries: for any number of jobs of the user,
\* workers, retries and faults.
THEOREM RefundsAreOver == Spec => []RefundedIsOver
BY TypeCorrect, LifeHolds, RefundedOver, PTL

-----------------------------------------------------------------------------
(* What is charged is delivered, as long as nothing lapsed.                 *)

DeliverInv ==
    ~late =>
      /\ \A w \in Workers :
           /\ worker[w].pc \in {"get", "apply", "index"} =>
                job[worker[w].job].status # "settling"
           /\ worker[w].pc = "capture" => job[worker[w].job].status = "settling"
      /\ \A j \in Jobs :
           Captured(j) /\ ~Released(j) /\ Hold[j] > 0 =>
             Finished(j) \/ job[j].status = "settling"

\* The lock: what another worker could do to the job it does not do.
LEMMA Alone ==
    ASSUME TypeOK, HolderHasLock, ~late, NEW v \in Workers, NEW w \in Workers,
           NEW k \in Jobs, worker[v].job = k, NEW pc, On(w, k, pc),
           worker[v].pc \notin {"idle", "lock", "conflict"}, pc \notin {"idle", "lock", "conflict"}
    PROVE  v = w
BY DEF HolderHasLock, On

LEMMA DeliverStep ==
    TypeOK /\ TypeOK' /\ LifeInv /\ HolderHasLock /\ QueueInv /\ DeliverInv /\ [Next]_vars
      => DeliverInv'
<1> SUFFICES ASSUME TypeOK, TypeOK', RowInv, PlanInv, WorkInv, HolderHasLock, QueueInv,
                    DeliverInv, [Next]_vars, ~late'
             PROVE  /\ \A w \in Workers :
                         /\ worker'[w].pc \in {"get", "apply", "index"} =>
                              job'[worker'[w].job].status # "settling"
                         /\ worker'[w].pc = "capture" =>
                              job'[worker'[w].job].status = "settling"
                    /\ \A j \in Jobs :
                         Captured(j)' /\ ~Released(j)' /\ Hold[j] > 0 =>
                           Finished(j)' \/ job'[j].status = "settling"
  BY DEF DeliverInv, LifeInv
<1>0. ~late
  BY FaultNext DEF Fault, faultVars
<1>1. ASSUME NEW w \in Workers, NEW k \in Jobs, worker[w].job = k
      PROVE  /\ worker[w].pc \in {"process", "get", "apply", "index"} =>
                  job[k].status # "settling"
             /\ worker[w].pc = "capture" => job[k].status = "settling"
  BY <1>0, <1>1 DEF DeliverInv, QueueInv
<1>2. ASSUME NEW v \in Workers, NEW k \in Jobs, k = worker'[v].job
      PROVE  /\ worker'[v].pc \in {"get", "apply", "index"} => job'[k].status # "settling"
             /\ worker'[v].pc = "capture" => job'[k].status = "settling"
  <2>1. LifeStep(k)
    BY LifeMoves
  <2>2. CASE worker'[v] = worker[v]
    <3>1. worker[v].job = k
      BY <1>2, <2>2
    <3>2. ASSUME worker[v].pc \in {"get", "apply", "index"}, job'[k].status = "settling"
          PROVE  FALSE
      <4>1. job[k].status # "settling"
        BY <1>1, <3>1, <3>2
      <4>2. PICK w \in Workers : On(w, k, "toSettling")
        BY <2>1, <3>2, <4>1 DEF LifeStep, SameRow
      <4>3. v = w
        BY <1>0, <3>1, <3>2, <4>2, Alone
      <4> QED BY <3>2, <4>2, <4>3 DEF On
    <3>3. ASSUME worker[v].pc = "capture" PROVE job'[k].status = "settling"
      <4>1. job[k].status = "settling" /\ job[k].submitted
        BY <1>1, <3>1, <3>3 DEF RowInv
      <4>2. ASSUME NEW w \in Workers, NEW pc \in {"apply", "index", "failJob", "mark"},
                   On(w, k, pc)
            PROVE  FALSE
        <5>1. v = w
          BY <1>0, <3>1, <3>3, <4>2, Alone
        <5> QED BY <3>3, <4>2, <5>1 DEF On
      <4> QED BY <2>1, <4>1, <4>2 DEF LifeStep, SameRow
    <3> QED BY <2>2, <3>2, <3>3
  <2>3. CASE worker'[v].pc \in FreePc
    BY <2>3 DEF FreePc
  <2>4. CASE worker[v].job = k /\ SeesJob(v, worker'[v].pc, k)
    BY <1>1, <2>4 DEF SeesJob
  <2>5. CASE worker[v].job = k /\ SeesBill(v, worker'[v].pc, k)
    BY <2>5 DEF SeesBill
  <2>6. WorkStep(v)
    BY WorkMoves
  <2> QED BY <1>2, <2>2, <2>3, <2>4, <2>5, <2>6 DEF WorkStep
<1>3. ASSUME NEW k \in Jobs, Captured(k)', ~Released(k)', Hold[k] > 0
      PROVE  Finished(k)' \/ job'[k].status = "settling"
  <2>1. LifeStep(k) /\ ~Released(k) /\ Hold[k] # 0
    BY <1>3, LifeMoves, HeldStays, HoldAssumption
  <2>2. CASE Capturing(k) /\ UNCHANGED job
    BY <1>1, <2>2 DEF Capturing, On
  <2>3. CASE Captured(k)
    <3>1. Finished(k) \/ job[k].status = "settling"
      BY <1>0, <1>3, <2>1, <2>3 DEF DeliverInv
    <3>2. CASE Finished(k)
      <4>1. job[k].submitted
        BY <3>2 DEF Finished, RowInv
      <4> QED BY <2>1, <3>2, <4>1, LifeStays DEF TypeOK
    <3>3. CASE job[k].status = "settling"
      <4>1. job[k].submitted
        BY <3>3 DEF RowInv
      <4>2. ASSUME NEW w \in Workers, On(w, k, "apply") \/ On(w, k, "index") \/ On(w, k, "failJob")
            PROVE  FALSE
        <5>1. CASE On(w, k, "failJob")
          BY <2>1, <3>3, <5>1 DEF WorkInv, On, Dead
        <5> QED BY <1>1, <3>3, <4>2, <5>1 DEF On
      <4> QED BY <2>1, <3>3, <4>1, <4>2 DEF LifeStep, SameRow, Finished
    <3> QED BY <3>1, <3>2, <3>3
  <2>4. ClaimStep(k)
    BY ClaimMoves
  <2> QED BY <1>3, <2>2, <2>3, <2>4 DEF ClaimStep
<1>4. \A w \in Workers : worker'[w].job \in Jobs
  BY DEF TypeOK, WorkerState
<1> QED BY <1>2, <1>3, <1>4

LEMMA DeliverHolds == Spec => []DeliverInv
<1>1. Init => DeliverInv /\ HolderHasLock /\ QueueInv
  BY DEF Init, LedgerInit, DeliverInv, Captured, HolderHasLock, QueueInv, InHandIsQueued
<1> QED BY <1>1, TypeCorrect, LifeHolds, HolderStep, QueueStep, DeliverStep, PTL DEF Spec

\* A job that was charged, and not refunded as well, is being settled or was, for
\* any number of jobs and workers, until something lapses under a live process.
THEOREM ChargesAreDelivered == Spec => []ChargedIsDelivered
<1>1. DeliverInv => ChargedIsDelivered
  BY DEF DeliverInv, ChargedIsDelivered
<1> QED BY <1>1, DeliverHolds, PTL

-----------------------------------------------------------------------------
(* A user with one job, and nothing frozen for another.  The frozen pool is  *)
(* then the hold of that job, and whichever of capture and release comes     *)
(* first leaves nothing to the other.                                        *)

OneJob == (\E j \in Jobs : Jobs = {j}) /\ Elsewhere = {0}

PoolInv ==
    \A j \in Jobs : Jobs = {j} /\ Elsewhere = {0} =>
      /\ ~Both(j)
      /\ frozen = IF claims[j] \cap {"hold", "capture", "release"} = {"hold"}
                    THEN Hold[j] ELSE 0

LEMMA PoolStep == TypeOK /\ BillInv /\ PoolInv /\ [Next]_vars => PoolInv'
<1> SUFFICES ASSUME TypeOK, BillInv, PoolInv, [Next]_vars, NEW j \in Jobs, Jobs = {j},
                    Elsewhere = {0}
             PROVE  /\ ~Both(j)'
                    /\ frozen' = IF claims'[j] \cap {"hold", "capture", "release"} = {"hold"}
                                   THEN Hold[j] ELSE 0
  BY DEF PoolInv
<1>1. claims \in [Jobs -> SUBSET Claim] /\ frozen \in Nat /\ Hold[j] \in Nat
  BY HoldAssumption DEF TypeOK, LedgerTypeOK
<1>2. /\ ~Both(j)
      /\ frozen = IF claims[j] \cap {"hold", "capture", "release"} = {"hold"}
                    THEN Hold[j] ELSE 0
  BY DEF PoolInv
<1>3. /\ "hold" \in claims[j] => Hold[j] > 0
      /\ "release" \in claims[j] => "hold" \in claims[j]
      /\ "capture" \in claims[j] => "hold" \in claims[j] \/ Hold[j] = 0
  BY DEF BillInv, Released, Captured, Held
<1> USE DEF Both, Captured, Released
<1>4. CASE UNCHANGED ledger
  BY <1>2, <1>4 DEF ledger
<1>5. CASE LedgerBy(j)
  <2>1. PICK ok \in BOOLEAN :
          Reserve(j, ok) \/ Release(j, ok) \/ Capture(j, job[j].cost, ok)
    BY <1>5 DEF LedgerBy
  <2>2. CASE /\ Hold[j] > 0 /\ "hold" \notin claims[j]
             /\ frozen' = frozen + Hold[j] /\ ClaimAs(j, "hold")
    <3>1. claims'[j] = claims[j] \cup {"hold"}
      BY <1>1, <2>2 DEF ClaimAs
    <3>2. "capture" \notin claims[j] /\ "release" \notin claims[j]
      BY <1>1, <1>3, <2>2
    <3>3. frozen = 0
      BY <1>2, <2>2
    <3>4. claims'[j] \cap {"hold", "capture", "release"} = {"hold"}
      BY <3>1, <3>2
    <3> QED BY <1>1, <2>2, <3>1, <3>2, <3>3, <3>4
  <2>3. CASE ClaimAs(j, "void") /\ UNCHANGED frozen
    <3>1. claims'[j] = claims[j] \cup {"void"}
      BY <1>1, <2>3 DEF ClaimAs
    <3>2. claims'[j] \cap {"hold", "capture", "release"}
            = claims[j] \cap {"hold", "capture", "release"}
      BY <3>1
    <3> QED BY <1>2, <2>3, <3>1, <3>2
  <2>4. ASSUME NEW c \in {"release", "capture"}, ClaimAs(j, c), c \notin claims[j],
               frozen >= Hold[j], frozen' = frozen - Hold[j],
               c = "release" => Hold[j] > 0
        PROVE  ~Both(j)' /\ frozen' = 0 /\ c \in claims'[j]
    <3>1. claims'[j] = claims[j] \cup {c}
      BY <1>1, <2>4 DEF ClaimAs
    <3>2. CASE Hold[j] > 0
      <4>1. claims[j] \cap {"hold", "capture", "release"} = {"hold"}
        BY <1>1, <1>2, <2>4, <3>2
      <4>2. frozen = Hold[j]
        BY <1>2, <4>1
      <4>3. "capture" \notin claims[j] /\ "release" \notin claims[j]
        BY <4>1
      <4> QED BY <1>1, <2>4, <3>1, <4>2, <4>3
    <3>3. CASE Hold[j] = 0
      <4>1. "hold" \notin claims[j] /\ "release" \notin claims[j] /\ c = "capture"
        BY <1>1, <1>3, <2>4, <3>3
      <4>2. frozen = 0
        BY <1>2, <4>1
      <4> QED BY <1>1, <2>4, <3>1, <3>3, <4>1, <4>2
    <3> QED BY <1>1, <3>2, <3>3
  <2>5. CASE Reserve(j, ok)
    <3>1. \/ UNCHANGED ledger
          \/ /\ Hold[j] > 0 /\ "hold" \notin claims[j]
             /\ frozen' = frozen + Hold[j] /\ ClaimAs(j, "hold")
      BY <2>5 DEF Reserve
    <3> QED BY <1>4, <2>2, <3>1
  <2>6. CASE Release(j, ok)
    <3>1. \/ UNCHANGED ledger
          \/ ClaimAs(j, "void") /\ UNCHANGED frozen
          \/ /\ ClaimAs(j, "release") /\ "release" \notin claims[j] /\ Hold[j] > 0
             /\ frozen >= Hold[j] /\ frozen' = frozen - Hold[j]
      BY <2>6 DEF Release
    <3> QED BY <1>4, <2>3, <2>4, <3>1
  <2>7. CASE Capture(j, job[j].cost, ok)
    <3>1. \/ UNCHANGED ledger
          \/ /\ ClaimAs(j, "capture") /\ "capture" \notin claims[j]
             /\ frozen >= Hold[j] /\ frozen' = frozen - Hold[j]
      BY <2>7 DEF Capture
    <3> QED BY <1>4, <2>4, <3>1
  <2> QED BY <2>1, <2>5, <2>6, <2>7
<1> QED BY <1>4, <1>5, LedgerActs

\* A job of a user who has no other is never both charged and refunded, however
\* its handlers, the recovery and the workers meet: what breaks BilledOnce is the
\* frozen pool that the jobs of a user share.
THEOREM OneJobBilledOnce == OneJob => (Spec => []BilledOnce)
<1> SUFFICES ASSUME OneJob PROVE Spec => []BilledOnce
  OBVIOUS
<1>1. Init => PoolInv
  BY DEF Init, LedgerInit, PoolInv, Both, Captured
<1>2. PoolInv => BilledOnce
  BY DEF PoolInv, BilledOnce, OneJob, Both
<1>3. LifeInv => BillInv
  BY DEF LifeInv
<1> QED BY <1>1, <1>2, <1>3, TypeCorrect, LifeHolds, PoolStep, PTL DEF Spec

-----------------------------------------------------------------------------
(* The refinement of BatchImagePromise.  A step of the ledger is one of the  *)
(* promise's or none, and a step of the rows delivers a charged job or none. *)

Bills == [j \in Jobs |-> BillOf(j)]

Delivered == {j \in Jobs : Finished(j)}

\* A step writes one row.
OneRow == \E j \in Jobs : \A k \in Jobs \ {j} : job'[k] = job[k]

LEMMA WritesOneRow ==
    ASSUME job \in [Jobs -> JobRow], NEW j \in Jobs,
           \/ UNCHANGED job
           \/ \E row : Write(j, row)
           \/ \E to, ok : Transition(j, to, ok)
           \/ \E c, ok : ReplaceItems(j, c, ok)
           \/ \E ok : CountRetry(j, ok)
           \/ \E ok : MarkSettled(j, ok)
           \/ job' = [job EXCEPT ![j].stale = TRUE]
    PROVE  OneRow
<1>1. UNCHANGED job \/ (\E row : Write(j, row)) \/ job' = [job EXCEPT ![j].stale = TRUE]
  BY DEF Transition, ReplaceItems, CountRetry, MarkSettled
<1> QED BY <1>1 DEF OneRow, Write

LEMMA RowsMoveAlone == TypeOK /\ [Next]_vars => OneRow
<1> SUFFICES ASSUME TypeOK, [Next]_vars PROVE OneRow
  OBVIOUS
<1>1. job \in [Jobs -> JobRow] /\ \E j \in Jobs : TRUE
  BY BatchImageAssumption DEF TypeOK
<1>2. CASE UNCHANGED job
  BY <1>1, <1>2 DEF OneRow
<1>3. ASSUME NEW j \in Jobs,
             \/ CreateJob(j) \/ SubmitStep(j) \/ CancelJob(j) \/ GrowStale(j)
             \/ FailStaleUnsubmitted(j) \/ DeleteOutputs(j)
      PROVE  OneRow
  <2>1. \/ UNCHANGED job
        \/ \E row : Write(j, row)
        \/ \E to, ok : Transition(j, to, ok)
        \/ job' = [job EXCEPT ![j].stale = TRUE]
    <3>1. CASE CreateJob(j) \/ GrowStale(j) \/ FailStaleUnsubmitted(j) \/ DeleteOutputs(j)
      BY <3>1 DEF CreateJob, GrowStale, FailStaleUnsubmitted, DeleteOutputs, Call
    <3>2. CASE StartUpload(j) \/ CancelJob(j)
      BY <3>2 DEF StartUpload, CancelJob, Call
    <3>3. CASE RecordProviderJob(j) \/ RecordFailure(j) \/ HideFailure(j)
               \/ RecordQueueFailure(j)
      BY <3>3 DEF RecordProviderJob, RecordFailure, HideFailure, RecordQueueFailure, Call
    <3>4. CASE \/ ReserveHold(j) \/ CreatePendingItems(j) \/ SubmitToProvider(j)
               \/ AbortOrphan(j)
      BY <3>4 DEF ReserveHold, CreatePendingItems, SubmitToProvider, AbortOrphan
    <3> QED BY <1>3, <3>1, <3>2, <3>3, <3>4 DEF SubmitStep
  <2> QED BY <1>1, <2>1, WritesOneRow
<1>4. ASSUME NEW w \in Workers, NEW j \in Jobs, ProcessStep(w, j) \/ SettleStep(w, j)
      PROVE  OneRow
  <2>1. \/ UNCHANGED job
        \/ \E to, ok : Transition(j, to, ok)
        \/ \E c, ok : ReplaceItems(j, c, ok)
        \/ \E ok : CountRetry(j, ok)
        \/ \E ok : MarkSettled(j, ok)
    <3>1. CASE ProcessStep(w, j)
      BY <3>1 DEF ProcessStep, ReadForPipeline, ReadForProcess, GetFromProvider, ReadFails,
         ApplyProviderState, IndexResults, StartSettling, ReleaseTerminalHold, Call
    <3>2. CASE SettleStep(w, j)
      BY <3>2 DEF SettleStep, ReadForSettle, CaptureHold, MarkJobSettled, ReadFails,
         RecordSettlementFailure, ReleaseExhausted, RecordReleaseFailure, FailExhaustedJob,
         Recheck, Call
    <3> QED BY <1>4, <3>1, <3>2
  <2> QED BY <1>1, <2>1, WritesOneRow
<1>5. ASSUME NEW w \in Workers, NEW j \in Jobs, WorkerStep(w, j)
      PROVE  UNCHANGED job \/ ProcessStep(w, j) \/ SettleStep(w, j)
  BY <1>5 DEF WorkerStep, ReserveReady, TryAcquireJobLock, AckJob, RequeueJob, ReleaseLock
<1>6. ASSUME NEW j \in Jobs, HandlerStep(j)
      PROVE  UNCHANGED job \/ SubmitStep(j) \/ CancelJob(j)
  BY <1>6 DEF HandlerStep, CancelAtProvider, EnqueueJob, ReleaseHold
<1> QED BY <1>2, <1>3, <1>4, <1>5, <1>6 DEF Next, ReplaySubmit, ReadForCancel,
     UpstreamRuns, UpstreamEnds, UpstreamEndsUnreadable, LoseAccount, MoveDueDelayed,
     RecoverStaleActive, LockExpires,
     HandlerDies, WorkerDies, vars

\* The bill of a job after a claim.
LEMMA BillsAfter ==
    ASSUME claims \in [Jobs -> SUBSET Claim], NEW j \in Jobs, NEW c \in Claim, ClaimAs(j, c)
    PROVE  /\ Bills' = [Bills EXCEPT ![j] = BillOf(j)']
           /\ claims'[j] = claims[j] \cup {c}
<1>1. ASSUME NEW k \in Jobs, k # j PROVE BillOf(k)' = BillOf(k)
  BY <1>1 DEF ClaimAs, BillOf, Captured, Released
<1>2. claims'[j] = claims[j] \cup {c}
  BY DEF ClaimAs
<1>3. Bills' = [k \in Jobs |-> BillOf(k)']
  BY DEF Bills
<1> HIDE DEF BillOf
<1>4. Bills = [k \in Jobs |-> BillOf(k)]
  BY DEF Bills
<1> QED BY <1>1, <1>2, <1>3, <1>4

LEMMA LedgerRefines ==
    ASSUME TypeOK, RowInv, WorkInv, BillInv, UNCHANGED job,
           NEW j \in Jobs, LedgerBy(j)
    PROVE  [Promise!Next]_<<Bills, balance + frozen, frozen, Delivered>>
<1>1. /\ claims \in [Jobs -> SUBSET Claim]
      /\ balance \in Nat /\ frozen \in Nat /\ Hold[j] \in Nat
  BY HoldAssumption DEF TypeOK, LedgerTypeOK
<1>2. /\ "release" \in claims[j] => "hold" \in claims[j]
      /\ "capture" \in claims[j] => "hold" \in claims[j] \/ Hold[j] = 0
      /\ Capturing(j) => "hold" \in claims[j] \/ Hold[j] = 0
  <2>1. Capturing(j) => Held(j)
    BY DEF Capturing, On, WorkInv, SettlingPc, RowInv
  <2> QED BY <2>1 DEF BillInv, Released, Captured, Held
<1>4. UNCHANGED Delivered
  BY DEF Delivered, Finished
<1> USE DEF Captured, Released
<1>5. CASE UNCHANGED ledger
  BY <1>4, <1>5 DEF ledger, Bills, BillOf
<1>6. CASE ClaimAs(j, "void") /\ UNCHANGED <<balance, frozen>>
  <2>1. Bills' = [Bills EXCEPT ![j] = BillOf(j)'] /\ claims'[j] = claims[j] \cup {"void"}
    BY <1>1, <1>6, BillsAfter DEF Claim
  <2>2. BillOf(j)' = BillOf(j) /\ Bills[j] = BillOf(j)
    BY <2>1 DEF BillOf, Bills
  <2>3. Bills' = Bills
    <3> HIDE DEF BillOf
    <3> QED BY <2>1, <2>2 DEF Bills
  <2> QED BY <1>4, <1>6, <2>3
<1>7. CASE /\ Hold[j] > 0 /\ "hold" \notin claims[j] /\ ClaimAs(j, "hold")
           /\ Hold[j] <= balance
           /\ balance' = balance - Hold[j] /\ frozen' = frozen + Hold[j]
  <2>1. Bills' = [Bills EXCEPT ![j] = BillOf(j)'] /\ claims'[j] = claims[j] \cup {"hold"}
    BY <1>1, <1>7, BillsAfter DEF Claim
  <2>2. Bills[j] = "none" /\ BillOf(j)' = "held"
    BY <1>1, <1>2, <1>7, <2>1 DEF BillOf, Bills
  <2>3. /\ balance' + frozen' = balance + frozen
        /\ Hold[j] <= (balance + frozen) - frozen
    BY <1>1, <1>7
  <2>4. Promise!Freeze(j)
    BY <1>4, <1>7, <2>1, <2>2, <2>3 DEF Promise!Freeze, Promise!Bill, Bills, Delivered
  <2> QED BY <2>4 DEF Promise!Next
<1>8. CASE /\ "hold" \in claims[j] /\ "release" \notin claims[j] /\ ClaimAs(j, "release")
           /\ Hold[j] <= frozen
           /\ balance' = balance + Hold[j] /\ frozen' = frozen - Hold[j]
  <2>1. Bills' = [Bills EXCEPT ![j] = BillOf(j)'] /\ claims'[j] = claims[j] \cup {"release"}
    BY <1>1, <1>8, BillsAfter DEF Claim
  <2>2. \/ Bills[j] = "held" /\ BillOf(j)' = "refunded"
        \/ Bills[j] = "charged" /\ BillOf(j)' = "both"
    BY <1>8, <2>1 DEF BillOf, Bills
  <2>3. balance' + frozen' = balance + frozen
    BY <1>1, <1>8
  <2>4. Promise!Refund(j)
    BY <1>4, <1>8, <2>1, <2>2, <2>3
       DEF Promise!Refund, Promise!Bill, Promise!Thaw, Bills, Delivered
  <2> QED BY <2>4 DEF Promise!Next
<1>9. ASSUME NEW c \in Costs, Capturing(j), c <= Hold[j], "capture" \notin claims[j],
             Hold[j] <= frozen, ClaimAs(j, "capture"), balance' = balance + (Hold[j] - c),
             frozen' = frozen - Hold[j]
      PROVE  [Promise!Next]_<<Bills, balance + frozen, frozen, Delivered>>
  <2>1. Bills' = [Bills EXCEPT ![j] = BillOf(j)'] /\ claims'[j] = claims[j] \cup {"capture"}
    BY <1>1, <1>9, BillsAfter DEF Claim
  <2>2. \/ Bills[j] = "held" /\ BillOf(j)' = "charged"
        \/ Bills[j] = "refunded" /\ BillOf(j)' = "both"
    BY <1>2, <1>9, <2>1 DEF BillOf, Bills
  <2>3. c \in 0..Hold[j] /\ balance' + frozen' = (balance + frozen) - c
    BY <1>1, <1>9, BatchImageAssumption
  <2>4. Promise!Charge(j)
    BY <1>4, <1>9, <2>1, <2>2, <2>3
       DEF Promise!Charge, Promise!Bill, Promise!Thaw, Bills, Delivered
  <2> QED BY <2>4 DEF Promise!Next
<1>10. PICK ok \in BOOLEAN :
          \/ Reserve(j, ok) \/ Release(j, ok)
          \/ Capturing(j) /\ Capture(j, job[j].cost, ok)
  BY DEF LedgerBy
<1>11. CASE Reserve(j, ok)
  <2>1. \/ UNCHANGED ledger
        \/ /\ Hold[j] > 0 /\ "hold" \notin claims[j] /\ ClaimAs(j, "hold")
           /\ Hold[j] <= balance
           /\ balance' = balance - Hold[j] /\ frozen' = frozen + Hold[j]
    BY <1>1, <1>11 DEF Reserve
  <2> QED BY <1>5, <1>7, <2>1
<1>12. CASE Release(j, ok)
  <2>1. \/ UNCHANGED ledger
        \/ ClaimAs(j, "void") /\ UNCHANGED <<balance, frozen>>
        \/ /\ "hold" \in claims[j] /\ "release" \notin claims[j] /\ ClaimAs(j, "release")
           /\ Hold[j] <= frozen
           /\ balance' = balance + Hold[j] /\ frozen' = frozen - Hold[j]
    BY <1>1, <1>12 DEF Release
  <2> QED BY <1>5, <1>6, <1>8, <2>1
<1>13. CASE Capturing(j) /\ Capture(j, job[j].cost, ok)
  <2>1. job[j].cost \in Costs
    BY DEF TypeOK, JobRow
  <2>2. \/ UNCHANGED ledger
        \/ /\ job[j].cost <= Hold[j] /\ "capture" \notin claims[j] /\ ClaimAs(j, "capture")
           /\ Hold[j] <= frozen
           /\ balance' = balance + (Hold[j] - job[j].cost) /\ frozen' = frozen - Hold[j]
    BY <1>1, <1>13 DEF Capture
  <2> QED BY <1>5, <1>9, <1>13, <2>1, <2>2
<1> QED BY <1>10, <1>11, <1>12, <1>13

LEMMA RowsRefine ==
    ASSUME TypeOK, RowInv, PlanInv, WorkInv, ChargeInv, ChargeInv', [Next]_vars,
           UNCHANGED ledger
    PROVE  [Promise!Next]_<<Bills, balance + frozen, frozen, Delivered>>
<1>1. UNCHANGED <<Bills, balance + frozen, frozen>>
  BY DEF Bills, BillOf, Captured, Released, ledger
<1>2. ASSUME NEW k \in Jobs, Finished(k) PROVE Finished(k)'
  <2>1. job[k].submitted
    BY <1>2 DEF Finished, RowInv
  <2> QED BY <1>2, <2>1, LifeMoves, LifeStays DEF TypeOK
<1>3. PICK j \in Jobs : \A k \in Jobs \ {j} : job'[k] = job[k]
  BY RowsMoveAlone DEF OneRow
<1>4. \A k \in Jobs \ {j} : Finished(k)' <=> Finished(k)
  BY <1>3 DEF Finished
<1>5. CASE Finished(j)' <=> Finished(j)
  <2>1. Delivered' = Delivered
    <3> HIDE DEF Finished
    <3> QED BY <1>4, <1>5 DEF Delivered
  <2> QED BY <1>1, <2>1
<1>6. CASE Finished(j)' /\ ~Finished(j)
  <2>1. Captured(j)
    BY <1>6 DEF ChargeInv, CompletedIsCharged, Captured, ledger
  <2>2. Bills[j] \in {"charged", "both"}
    BY <2>1 DEF Bills, BillOf
  <2>3. Delivered' = Delivered \cup {j}
    <3> HIDE DEF Finished
    <3> QED BY <1>4, <1>6 DEF Delivered
  <2>4. Promise!Deliver(j)
    BY <1>1, <2>2, <2>3 DEF Promise!Deliver, Bills, Delivered
  <2> QED BY <2>4 DEF Promise!Next
<1> QED BY <1>2, <1>5, <1>6

LEMMA StepRefines ==
    TypeOK /\ LifeInv /\ ChargeInv /\ ChargeInv' /\ [Next]_vars
      => [Promise!Next]_<<Bills, balance + frozen, frozen, Delivered>>
BY LedgerActs, LedgerRefines, RowsRefine DEF LifeInv

LEMMA InitRefines == Init => Promise!Init
<1> SUFFICES ASSUME Init PROVE Promise!Init
  OBVIOUS
<1>1. \A j \in Jobs : claims[j] = {} /\ ~Finished(j)
  BY DEF Init, LedgerInit, Finished
<1>2. [j \in Jobs |-> BillOf(j)] = [j \in Jobs |-> IF Hold[j] = 0 THEN "held" ELSE "none"]
  BY <1>1 DEF BillOf, Captured, Released
<1>3. balance + frozen = Deposit /\ frozen \in 0..Deposit
  BY HoldAssumption DEF Init, LedgerInit
<1>4. {j \in Jobs : Finished(j)} = {}
  BY <1>1
<1> QED BY <1>2, <1>3, <1>4 DEF Promise!Init

\* The handlers, the recovery, the workers and the provider together do what
\* BatchImagePromise promises, for any number of jobs of the user.
THEOREM ImplementsPromise == Spec => KeepsPromise
<1>1. Init => Promise!Init
  BY InitRefines
<1>2. TypeOK /\ LifeInv /\ ChargeInv /\ ChargeInv' /\ [Next]_vars
        => [Promise!Next]_<<[j \in Jobs |-> BillOf(j)], balance + frozen, frozen,
                            {j \in Jobs : Finished(j)}>>
  BY StepRefines DEF Bills, Delivered
<1>3. Init => ChargeInv
  BY LifeInit
<1> QED BY <1>1, <1>2, <1>3, TypeCorrect, LifeHolds, ChargeStep, PTL
     DEF Spec, KeepsPromise, Promise!Spec
=============================================================================
