----------------------------- MODULE BatchImage -----------------------------
(***************************************************************************)
(* The life of batch image jobs: the handler of Submit, the handlers of    *)
(* Cancel, the recovery scan for submissions that died, the workers that   *)
(* poll the provider, index its results and settle the bill, and the       *)
(* provider's own job.  They share the job row, the ledger of              *)
(* BatchImageHold and the queue of BatchImageQueue.                        *)
(*                                                                         *)
(* Every call to the database, to Redis or to the provider is a step of    *)
(* its own.  A call may fail without effect, commit and lose its reply, or *)
(* be the last thing its process does; a live process may be so late that  *)
(* its lock, its active entry or its heartbeat lapses.  Faults says which  *)
(* of these a run has, and MaxFaults bounds how many.                      *)
(***************************************************************************)
EXTENDS BatchImageHold, Sequences

CONSTANTS Workers, NoWorker,
          Costs,        \* the actual costs a finished job may have
          MaxRetries,   \* batchImageSettlementMaxRetries
          Obstacles,    \* what may keep a job from its results for ever
          Faults,       \* the kinds of fault a behaviour may show
          MaxFaults     \* how many faults it may show

FaultKind == {"fail", "lost", "crash", "lapse"}

\* The account of the job is deleted or no longer supported; the provider has
\* put the results into its answer, which is refused at every poll; the output
\* of a batch that succeeded cannot be opened.
ObstacleKind == {"account", "inline", "output"}

ASSUME BatchImageAssumption ==
    /\ NoWorker \notin Workers
    /\ Jobs # {}
    /\ Costs \subseteq Nat /\ Costs # {}
    /\ MaxRetries \in Nat \ {0}
    /\ Obstacles \subseteq ObstacleKind
    /\ Faults \subseteq FaultKind
    /\ MaxFaults \in Nat

VARIABLES job,        \* job[j]: the row of batch_image_jobs
          upstream,   \* upstream[j]: the state of the provider's batch
          obstacle,   \* obstacle[j]: what keeps job j from its results, or "none"
          todo,       \* todo[j][h]: the steps handler h still has to take
          worker,     \* worker[w]: the program counter and job of a worker
          faults,     \* the faults shown so far
          late,       \* whether something lapsed under a live process
          ready, active, delayed, inflight, lock

Q == INSTANCE BatchImageQueue

queue == <<ready, active, delayed, inflight, lock>>

faultVars == <<faults, late>>

outside == <<upstream, obstacle>>

vars == <<ledger, queue, job, outside, todo, worker, faultVars>>

-----------------------------------------------------------------------------
(* The job row.  "none" is a job that has no row yet.  stale: updated_at is *)
(* older than the recovery cutoff.  failing: last_error_code starts with    *)
(* SETTLEMENT_.  cost: success_count at the price of the snapshot.          *)

Terminal == {"completed", "failed", "cancelled", "output_deleted"}

Status == Terminal \cup
    {"none", "created", "uploading", "submitted", "running", "indexing", "settling"}

\* Mutant: a job that is being settled can still be cancelled.
AllowedToCancel == [created   |-> {"uploading", "submitted", "cancelled"},
                    uploading |-> {"submitted", "cancelled"},
                    submitted |-> {"running", "indexing", "cancelled"},
                    running   |-> {"running", "indexing", "cancelled"},
                    indexing  |-> {"settling"},
                    settling  |-> {"completed", "cancelled"}]

Allowed == [created   |-> {"uploading", "submitted", "cancelled"},
            uploading |-> {"submitted", "cancelled"},
            submitted |-> {"running", "indexing", "cancelled"},
            running   |-> {"running", "indexing", "cancelled"},
            indexing  |-> {"settling"},
            settling  |-> {"completed"}]

CanTransition(from, to) ==
    IF from \in Terminal
      THEN to = "output_deleted" /\ from # "output_deleted"
      ELSE to = "failed" \/ to \in Allowed[from]

JobRow == [status : Status, submitted : BOOLEAN, stale : BOOLEAN,
           hidden : BOOLEAN, failing : BOOLEAN, retries : 0..MaxRetries,
           cost : Costs]

Unsubmitted(j) ==
    job[j].status \in {"created", "uploading"} /\ ~job[j].submitted

-----------------------------------------------------------------------------
(* Handlers are sequences of the steps they have left; a dead one has none. *)

Handler == {"submit", "cancel", "recover"}

Step == {"reserve", "items", "upload", "provider", "update", "abort", "enqueue",
         "queueFailed", "release", "record", "hide", "retry",
         "transition", "providerCancel"}

SubmitSteps == <<"reserve", "items", "upload", "provider", "update", "enqueue">>

At(j, h, s) == todo[j][h] # <<>> /\ Head(todo[j][h]) = s

Then(j, h, rest) == todo' = [todo EXCEPT ![j][h] = rest]

Advance(j, h) == Then(j, h, Tail(todo[j][h]))

\* The program counters of a worker.  One at "conflict" has no lock to drop.
WorkerPc == {"idle", "lock", "conflict", "pipeline", "process", "get", "apply",
             "index", "toSettling", "settle", "capture", "mark", "record",
             "exhaust", "releaseFailed", "failJob", "recheck", "releaseTerminal",
             "ack", "requeue", "unlock"}

\* job is the job the worker took last, saw what provider.Get returned.
UpstreamState == {"none", "queued", "running", "succeeded", "failed", "cancelled"}

WorkerState == [pc : WorkerPc, job : Jobs, saw : UpstreamState]

\* w is at pc with job j.
On(w, j, pc) == worker[w].pc = pc /\ worker[w].job = j

Holding(w, j) ==
    worker[w].job = j /\ worker[w].pc \notin {"idle", "lock", "conflict"}

TypeOK ==
    /\ LedgerTypeOK
    /\ Q!QueueTypeOK
    /\ job \in [Jobs -> JobRow]
    /\ upstream \in [Jobs -> UpstreamState]
    /\ obstacle \in [Jobs -> ObstacleKind \cup {"none"}]
    /\ todo \in [Jobs -> [Handler -> Seq(Step)]]
    /\ worker \in [Workers -> WorkerState]
    /\ faults \in 0..MaxFaults
    /\ late \in BOOLEAN

Init ==
    /\ LedgerInit
    /\ Q!QueueInit
    /\ job = [j \in Jobs |-> [status |-> "none", submitted |-> FALSE, stale |-> FALSE,
                              hidden |-> FALSE, failing |-> FALSE, retries |-> 0,
                              cost |-> CHOOSE c \in Costs : TRUE]]
    /\ upstream = [j \in Jobs |-> "none"]
    /\ obstacle = [j \in Jobs |-> "none"]
    /\ todo = [j \in Jobs |-> [h \in Handler |-> <<>>]]
    /\ worker = [w \in Workers |-> [pc |-> "idle", job |-> CHOOSE j \in Jobs : TRUE,
                                    saw |-> "none"]]
    /\ faults = 0
    /\ late = FALSE

-----------------------------------------------------------------------------
(* Faults, and a call with the reply its caller sees.                       *)

Fault(kind) ==
    /\ kind \in Faults
    /\ faults < MaxFaults
    /\ faults' = faults + 1
    /\ late' = (late \/ kind = "lapse")

\* Tx(r) is the call with reply r, and v the state it may change.
Call(Tx(_), v, ok) ==
    \/ Tx(ok) /\ UNCHANGED faultVars
    \/ ~ok /\ Fault("fail") /\ UNCHANGED v
    \/ ~ok /\ Fault("lost") /\ Tx(TRUE)

Write(j, row) == job' = [job EXCEPT ![j] = [row EXCEPT !.stale = FALSE]]

\* TransitionBatchImageJobStatus: locks the row and checks the transition.
Transition(j, to, ok) ==
    IF CanTransition(job[j].status, to)
      THEN ok /\ Write(j, [job[j] EXCEPT !.status = to])
      ELSE ~ok /\ UNCHANGED job

\* SetBatchImageJobSettlementFailed.  Counts above MaxRetries are not told apart.
CountRetry(j, ok) ==
    ok /\ Write(j, [job[j] EXCEPT !.retries = IF @ < MaxRetries THEN @ + 1 ELSE @,
                                  !.failing = TRUE])

MarkSettled(j, ok) ==
    IF job[j].status = "settling"
      THEN ok /\ Write(j, [job[j] EXCEPT !.status = "completed"])
      ELSE ~ok /\ UNCHANGED job

\* ReplaceBatchImageItemsForJob writes the counts only while indexing.
ReplaceItems(j, c, ok) ==
    IF job[j].status = "indexing"
      THEN ok /\ Write(j, [job[j] EXCEPT !.cost = c])
      ELSE ~ok /\ UNCHANGED job

-----------------------------------------------------------------------------
(* Submit.                                                                  *)

\* The checks that precede the row read and change nothing.
CreateJob(j) ==
    /\ job[j].status = "none"
    /\ Write(j, [job[j] EXCEPT !.status = "created"])
    /\ Then(j, "submit", SubmitSteps)
    /\ UNCHANGED <<ledger, queue, outside, worker, faultVars>>

\* A second Submit with the idempotency key of a submitted job enqueues it, which
\* Enqueue makes harmless while the first one is still at it; here it comes after.
ReplaySubmit(j) ==
    /\ job[j].status = "submitted" /\ todo[j]["submit"] = <<>>
    /\ Then(j, "submit", <<"enqueue">>)
    /\ UNCHANGED <<ledger, queue, job, outside, worker, faultVars>>

ReserveHold(j) ==
    /\ At(j, "submit", "reserve")
    /\ \E ok \in BOOLEAN :
         /\ Call(LAMBDA r : Reserve(j, r), ledger, ok)
         /\ IF ok THEN Advance(j, "submit")
                  ELSE Then(j, "submit", <<"record", "hide">>)
    /\ UNCHANGED <<queue, job, outside, worker>>

\* Whether the item rows were written matters to nothing below.
CreatePendingItems(j) ==
    /\ At(j, "submit", "items")
    /\ \/ Advance(j, "submit") /\ UNCHANGED faultVars
       \/ Then(j, "submit", <<"release", "record", "hide">>) /\ Fault("fail")
    /\ UNCHANGED <<ledger, queue, job, outside, worker>>

\* An invalid transition leaves the status of a cancelled job alone.
StartUpload(j) ==
    /\ At(j, "submit", "upload")
    /\ \E ok \in BOOLEAN :
         /\ Call(LAMBDA r : Transition(j, "uploading", r), job, ok)
         /\ CASE ok -> Advance(j, "submit")
              [] ~ok /\ faults' = faults -> Then(j, "submit", <<"release">>)
              [] OTHER -> Then(j, "submit", <<"release", "record", "hide">>)
    /\ UNCHANGED <<ledger, queue, outside, worker>>

\* provider.Submit refuses, or creates a batch whose reply may be lost.
SubmitToProvider(j) ==
    /\ At(j, "submit", "provider")
    /\ \/ /\ upstream' = [upstream EXCEPT ![j] = "queued"]
          /\ Advance(j, "submit") /\ UNCHANGED faultVars
       \/ /\ upstream' = [upstream EXCEPT ![j] = "queued"]
          /\ Then(j, "submit", <<"release", "record", "hide">>) /\ Fault("lost")
       \/ /\ Then(j, "submit", <<"release", "record", "hide">>)
          /\ UNCHANGED <<upstream, faultVars>>
    /\ UNCHANGED <<ledger, queue, job, obstacle, worker>>

\* UpdateBatchImageJobProviderSubmit.
RecordProviderJob(j) ==
    /\ At(j, "submit", "update")
    /\ \E ok \in BOOLEAN :
         /\ Call(LAMBDA r :
                   IF CanTransition(job[j].status, "submitted")
                     THEN r /\ Write(j, [job[j] EXCEPT !.status = "submitted",
                                                       !.submitted = TRUE])
                     ELSE ~r /\ UNCHANGED job, job, ok)
         /\ IF ok THEN Advance(j, "submit") ELSE Then(j, "submit", <<"abort">>)
    /\ UNCHANGED <<ledger, queue, outside, worker>>

\* provider.Cancel asks; the batch stops at once, later or not at all.
StopUpstream(j) ==
    \/ upstream[j] \in {"queued", "running"} /\ upstream' = [upstream EXCEPT ![j] = "cancelled"]
    \/ UNCHANGED upstream

AbortOrphan(j) ==
    /\ At(j, "submit", "abort")
    /\ StopUpstream(j)
    /\ Advance(j, "submit")
    /\ UNCHANGED <<ledger, queue, job, obstacle, worker, faultVars>>

\* RecordBatchImageJobSubmitFailure with markFailed writes "failed" over any
\* status; its error is ignored.
RecordFailure(j) ==
    /\ At(j, "submit", "record")
    /\ \E ok \in BOOLEAN :
         Call(LAMBDA r : r /\ Write(j, [job[j] EXCEPT !.status = "failed",
                                                      !.failing = FALSE]), job, ok)
    /\ Advance(j, "submit")
    /\ UNCHANGED <<ledger, queue, outside, worker>>

\* hidePreUpstreamSubmitFailure.
HideFailure(j) ==
    /\ At(j, "submit", "hide")
    /\ \E ok \in BOOLEAN :
         Call(LAMBDA r : IF job[j].status \in Terminal
                           THEN r /\ Write(j, [job[j] EXCEPT !.hidden = TRUE])
                           ELSE ~r /\ UNCHANGED job, job, ok)
    /\ Advance(j, "submit")
    /\ UNCHANGED <<ledger, queue, outside, worker>>

\* The QUEUE_FAILED code of a submission whose enqueue failed.
RecordQueueFailure(j) ==
    /\ At(j, "submit", "queueFailed")
    /\ \E ok \in BOOLEAN :
         Call(LAMBDA r : r /\ Write(j, [job[j] EXCEPT !.failing = FALSE]), job, ok)
    /\ Advance(j, "submit")
    /\ UNCHANGED <<ledger, queue, outside, worker>>

-----------------------------------------------------------------------------
(* Steps several handlers take.                                             *)

EnqueueJob(j, h) ==
    /\ At(j, h, "enqueue") \/ At(j, h, "retry")
    /\ \E ok \in BOOLEAN :
         /\ Call(LAMBDA r : r /\ Q!Enqueue(j), queue, ok)
         /\ IF ~ok /\ h = "submit" /\ At(j, h, "enqueue")
              THEN Then(j, h, <<"queueFailed">>)
              ELSE Advance(j, h)
    /\ UNCHANGED <<ledger, job, outside, worker>>

\* Submit records a release that failed as a failed job; all enqueue the job
\* so that a worker retries the release.
ReleaseHold(j, h) ==
    /\ At(j, h, "release")
    /\ \E ok \in BOOLEAN :
         /\ Call(LAMBDA r : Release(j, r), ledger, ok)
         /\ CASE ok -> Advance(j, h)
              [] ~ok /\ h = "submit" -> Then(j, h, <<"record", "retry">>)
              [] OTHER -> Then(j, h, <<"retry">>)
    /\ UNCHANGED <<queue, job, outside, worker>>

-----------------------------------------------------------------------------
(* Cancel reads the job and acts on what it read.                           *)

CancelSteps(row) ==
    CASE row.status \in {"failed", "cancelled"} -> <<"release">>
      [] row.status \in {"settling", "completed", "output_deleted"} -> <<>>
      [] OTHER -> IF row.submitted THEN <<"providerCancel", "enqueue">>
                                   ELSE <<"transition", "release">>

\* One Cancel of a job runs at a time.
ReadForCancel(j) ==
    /\ job[j].status # "none" /\ ~job[j].hidden
    /\ todo[j]["cancel"] = <<>>
    /\ Then(j, "cancel", CancelSteps(job[j]))
    /\ UNCHANGED <<ledger, queue, job, outside, worker, faultVars>>

CancelAtProvider(j) ==
    /\ At(j, "cancel", "providerCancel")
    /\ \/ StopUpstream(j) /\ Advance(j, "cancel")
       \/ Then(j, "cancel", <<>>) /\ UNCHANGED upstream
    /\ UNCHANGED <<ledger, queue, job, obstacle, worker, faultVars>>

CancelJob(j) ==
    /\ At(j, "cancel", "transition")
    /\ \E ok \in BOOLEAN :
         /\ Call(LAMBDA r : Transition(j, "cancelled", r), job, ok)
         /\ IF ok THEN Advance(j, "cancel") ELSE Then(j, "cancel", <<>>)
    /\ UNCHANGED <<ledger, queue, outside, worker>>

-----------------------------------------------------------------------------
(* ReleaseStaleUnsubmittedOnce.  updated_at grows old while no handler      *)
(* renews it; a live submission renews it at every step and by heartbeat.   *)

GrowStale(j) ==
    /\ Unsubmitted(j) /\ ~job[j].stale
    /\ IF todo[j]["submit"] = <<>> THEN UNCHANGED faultVars ELSE Fault("lapse")
    /\ job' = [job EXCEPT ![j].stale = TRUE]
    /\ UNCHANGED <<ledger, queue, outside, todo, worker>>

\* A scan that cannot tell whether it failed the job goes on to the next one.
FailStaleUnsubmitted(j) ==
    /\ Unsubmitted(j) /\ job[j].stale /\ Hold[j] > 0
    /\ todo[j]["recover"] = <<>>
    /\ \E ok \in BOOLEAN :
         /\ Call(LAMBDA r : r /\ Write(j, [job[j] EXCEPT !.status = "failed",
                                                         !.failing = FALSE]), job, ok)
         /\ Then(j, "recover", IF ok THEN <<"release">> ELSE <<>>)
    /\ UNCHANGED <<ledger, queue, outside, worker>>

-----------------------------------------------------------------------------
(* The provider's batch: it ends, by itself or because it was stopped.      *)

UpstreamRuns(j) ==
    /\ upstream[j] = "queued"
    /\ upstream' = [upstream EXCEPT ![j] = "running"]
    /\ UNCHANGED <<ledger, queue, job, obstacle, todo, worker, faultVars>>

UpstreamEnds(j) ==
    /\ upstream[j] \in {"queued", "running"}
    /\ \E s \in {"succeeded", "failed", "cancelled"} :
         upstream' = [upstream EXCEPT ![j] = s]
    /\ UNCHANGED <<ledger, queue, job, obstacle, todo, worker, faultVars>>

\* It succeeds with results the service cannot read, now or later.
UpstreamEndsUnreadable(j) ==
    /\ upstream[j] \in {"queued", "running"} /\ obstacle[j] = "none"
    /\ upstream' = [upstream EXCEPT ![j] = "succeeded"]
    /\ \E o \in Obstacles \cap {"inline", "output"} :
         obstacle' = [obstacle EXCEPT ![j] = o]
    /\ UNCHANGED <<ledger, queue, job, todo, worker, faultVars>>

\* The account may go at any time; a worker that is about to resolve it for a
\* job that was submitted and is not indexed yet is the first to miss it.
LoseAccount(j) ==
    /\ "account" \in Obstacles /\ obstacle[j] = "none"
    /\ job[j].status \in {"submitted", "running", "indexing"}
    /\ \E w \in Workers : On(w, j, "process")
    /\ obstacle' = [obstacle EXCEPT ![j] = "account"]
    /\ UNCHANGED <<ledger, queue, job, upstream, todo, worker, faultVars>>

-----------------------------------------------------------------------------
(* BatchImageWorker.RunOnce and what it calls.                              *)

Goto(w, pc) == worker' = [worker EXCEPT ![w].pc = pc]

\* A read that fails ends the round with an error: the job is requeued.
ReadFails(w) ==
    Fault("fail") /\ Goto(w, "requeue") /\ UNCHANGED <<ledger, queue, job, outside, todo>>

\* Mutant: a round that failed is acknowledged.
OrAck(w, ok, pc) == Goto(w, IF ok THEN pc ELSE "ack")

\* A call whose failure ends the round with an error.
OrRequeue(w, ok, pc) == Goto(w, IF ok THEN pc ELSE "requeue")

ReserveReady(w, j) ==
    /\ worker[w].pc = "idle"
    /\ Q!ReserveReady(j)
    /\ worker' = [worker EXCEPT ![w].pc = "lock", ![w].job = j]
    /\ UNCHANGED <<ledger, job, outside, todo, faultVars>>

TryAcquireJobLock(w, j) ==
    /\ On(w, j, "lock")
    /\ \E ok \in BOOLEAN :
         /\ Call(LAMBDA r : IF lock[j] = NoWorker THEN r /\ Q!TakeLock(j, w)
                                                  ELSE ~r /\ UNCHANGED queue,
                 queue, ok)
         /\ Goto(w, IF ok THEN "pipeline" ELSE "conflict")
    /\ UNCHANGED <<ledger, job, outside, todo>>

\* BatchImagePipelineProcessor.Process and the processor it delegates to each
\* read the job.
ReadForPipeline(w, j) ==
    /\ On(w, j, "pipeline")
    /\ \/ /\ Goto(w, IF job[j].status = "settling" THEN "settle" ELSE "process")
          /\ UNCHANGED <<ledger, queue, job, outside, todo, faultVars>>
       \/ ReadFails(w)

\* The account is resolved and the provider's job looked for at every round.
AfterProcessRead(j) ==
    CASE job[j].status \in {"failed", "cancelled"} -> "releaseTerminal"
      [] job[j].status \in {"settling", "completed", "output_deleted"} -> "ack"
      [] OTHER -> IF obstacle[j] = "account" \/ ~job[j].submitted THEN "requeue"
                  ELSE IF job[j].status = "indexing" THEN "index" ELSE "get"

ReadForProcess(w, j) ==
    /\ On(w, j, "process")
    /\ \/ /\ Goto(w, AfterProcessRead(j))
          /\ UNCHANGED <<ledger, queue, job, outside, todo, faultVars>>
       \/ ReadFails(w)

\* Results in the answer of a batch that succeeded make every poll an error.
Unreadable(j) == upstream[j] = "succeeded" /\ obstacle[j] = "inline"

GetFromProvider(w, j) ==
    /\ On(w, j, "get")
    /\ \/ /\ Unreadable(j) /\ Goto(w, "requeue")
          /\ UNCHANGED <<ledger, queue, job, outside, todo, faultVars>>
       \/ /\ ~Unreadable(j)
          /\ worker' = [worker EXCEPT ![w].pc = "apply", ![w].saw = upstream[j]]
          /\ UNCHANGED <<ledger, queue, job, outside, todo, faultVars>>
       \/ ReadFails(w)

\* What the provider's state asks of the job, and the step that follows.
Answer == [running   |-> [to |-> "running",   pc |-> "requeue"],
           succeeded |-> [to |-> "indexing",  pc |-> "index"],
           failed    |-> [to |-> "failed",    pc |-> "releaseTerminal"],
           cancelled |-> [to |-> "cancelled", pc |-> "releaseTerminal"]]

ApplyProviderState(w, j) ==
    /\ On(w, j, "apply")
    /\ IF worker[w].saw \in DOMAIN Answer
         THEN \E ok \in BOOLEAN :
                /\ Call(LAMBDA r : Transition(j, Answer[worker[w].saw].to, r), job, ok)
                /\ OrRequeue(w, ok, Answer[worker[w].saw].pc)
         ELSE Goto(w, "requeue") /\ UNCHANGED <<job, faultVars>>
    /\ UNCHANGED <<ledger, queue, outside, todo>>

\* The output cannot be opened, is unusable, or is counted into the job.
IndexResults(w, j) ==
    /\ On(w, j, "index")
    /\ \/ /\ obstacle[j] = "output" /\ Goto(w, "requeue")
          /\ UNCHANGED <<job, faultVars>>
       \/ \E ok \in BOOLEAN, c \in Costs :
            /\ obstacle[j] # "output"
            /\ Call(LAMBDA r : ReplaceItems(j, c, r), job, ok)
            /\ OrRequeue(w, ok, "toSettling")
       \/ \E ok \in BOOLEAN :
            /\ obstacle[j] # "output"
            /\ Call(LAMBDA r : Transition(j, "failed", r), job, ok)
            /\ OrRequeue(w, ok, "releaseTerminal")
    /\ UNCHANGED <<ledger, queue, outside, todo>>

StartSettling(w, j) ==
    /\ On(w, j, "toSettling")
    /\ \E ok \in BOOLEAN : Call(LAMBDA r : Transition(j, "settling", r), job, ok)
    /\ Goto(w, "requeue")
    /\ UNCHANGED <<ledger, queue, outside, todo>>

ReleaseTerminalHold(w, j) ==
    /\ On(w, j, "releaseTerminal")
    /\ \E ok \in BOOLEAN :
         Call(LAMBDA r : Release(j, r), ledger, ok) /\ OrRequeue(w, ok, "ack")
    /\ UNCHANGED <<queue, job, outside, todo>>

-----------------------------------------------------------------------------
(* BatchImageSettlementService.                                             *)

\* Mutant: the last retry does not take place.
RetryExhaustedEarly(row) ==
    row.status = "settling" /\ row.retries >= MaxRetries - 1 /\ row.failing

RetryExhausted(row) ==
    row.status = "settling" /\ row.retries >= MaxRetries /\ row.failing

AfterSettleRead(j) ==
    CASE job[j].status = "completed" -> "ack"
      [] job[j].status \notin {"completed", "settling"} -> "requeue"
      [] OTHER -> IF RetryExhausted(job[j]) THEN "exhaust"
                  ELSE IF job[j].cost > Hold[j] THEN "record" ELSE "capture"

ReadForSettle(w, j) ==
    /\ On(w, j, "settle")
    /\ \/ /\ Goto(w, AfterSettleRead(j))
          /\ UNCHANGED <<ledger, queue, job, outside, todo, faultVars>>
       \/ ReadFails(w)

CaptureHold(w, j) ==
    /\ On(w, j, "capture")
    /\ \E ok \in BOOLEAN :
         /\ Call(LAMBDA r : Capture(j, job[j].cost, r), ledger, ok)
         /\ Goto(w, IF ok THEN "mark" ELSE "record")
    /\ UNCHANGED <<queue, job, outside, todo>>

MarkJobSettled(w, j) ==
    /\ On(w, j, "mark")
    /\ \E ok \in BOOLEAN :
         Call(LAMBDA r : MarkSettled(j, r), job, ok) /\ OrRequeue(w, ok, "ack")
    /\ UNCHANGED <<ledger, queue, outside, todo>>

\* recordSettlementFailure: the last retry goes straight to the exhausted exit;
\* only a billing error makes the pipeline look at the job again.
RecordSettlementFailure(w, j) ==
    /\ On(w, j, "record")
    /\ \E ok \in BOOLEAN :
         /\ Call(LAMBDA r : CountRetry(j, r), job, ok)
         /\ Goto(w, IF ok /\ job'[j].retries >= MaxRetries THEN "exhaust"
                    ELSE IF job[j].cost > Hold[j] THEN "requeue" ELSE "recheck")
    /\ UNCHANGED <<ledger, queue, outside, todo>>

\* failExhaustedSettlement releases first and then fails the job.
ReleaseExhausted(w, j) ==
    /\ On(w, j, "exhaust")
    /\ \E ok \in BOOLEAN :
         /\ Call(LAMBDA r : Release(j, r), ledger, ok)
         /\ Goto(w, IF ok THEN "failJob" ELSE "releaseFailed")
    /\ UNCHANGED <<queue, job, outside, todo>>

RecordReleaseFailure(w, j) ==
    /\ On(w, j, "releaseFailed")
    /\ \E ok \in BOOLEAN : Call(LAMBDA r : CountRetry(j, r), job, ok)
    /\ Goto(w, "recheck")
    /\ UNCHANGED <<ledger, queue, outside, todo>>

FailExhaustedJob(w, j) ==
    /\ On(w, j, "failJob")
    /\ \E ok \in BOOLEAN :
         Call(LAMBDA r : Transition(j, "failed", r), job, ok) /\ OrRequeue(w, ok, "recheck")
    /\ UNCHANGED <<ledger, queue, outside, todo>>

\* After a billing error the pipeline asks whether the job is over.
Recheck(w, j) ==
    /\ On(w, j, "recheck")
    /\ \/ /\ OrRequeue(w, job[j].status \in Terminal, "ack")
          /\ UNCHANGED <<ledger, queue, job, outside, todo, faultVars>>
       \/ ReadFails(w)

-----------------------------------------------------------------------------
(* The end of a round: Ack or RequeueAfter, then the deferred lock release. *)

AckJob(w, j) ==
    /\ On(w, j, "ack")
    /\ \E ok \in BOOLEAN : Call(LAMBDA r : r /\ Q!Ack(j), queue, ok)
    /\ Goto(w, "unlock")
    /\ UNCHANGED <<ledger, job, outside, todo>>

RequeueJob(w, j) ==
    /\ On(w, j, "requeue") \/ On(w, j, "conflict")
    /\ \E ok \in BOOLEAN : Call(LAMBDA r : r /\ Q!RequeueAfter(j), queue, ok)
    /\ Goto(w, IF worker[w].pc = "conflict" THEN "idle" ELSE "unlock")
    /\ UNCHANGED <<ledger, job, outside, todo>>

ReleaseLock(w, j) ==
    /\ On(w, j, "unlock")
    /\ \E ok \in BOOLEAN : Call(LAMBDA r : r /\ Q!DropLock(j, w), queue, ok)
    /\ Goto(w, "idle")
    /\ UNCHANGED <<ledger, job, outside, todo>>

-----------------------------------------------------------------------------
(* Time.  A live worker renews its lock and its active entry by heartbeat;  *)
(* those of a dead one lapse, and those of one that is held up may.         *)

\* Mutant: nothing renews the lock and the active entry of a live worker.
NoHeartbeat(alive) == UNCHANGED faultVars

LapsesIf(alive) == IF alive THEN Fault("lapse") ELSE UNCHANGED faultVars

MoveDueDelayed(j) ==
    Q!MoveDueDelayedToReady(j) /\ UNCHANGED <<ledger, job, outside, todo, worker, faultVars>>

RecoverStaleActive(j) ==
    /\ Q!RecoverStaleActive(j)
    /\ LapsesIf(\E w \in Workers : worker[w].job = j /\ worker[w].pc # "idle")
    /\ UNCHANGED <<ledger, job, outside, todo, worker>>

LockExpires(j) ==
    /\ Q!ExpireLock(j)
    /\ LapsesIf(Holding(lock[j], j))
    /\ UNCHANGED <<ledger, job, outside, todo, worker>>

\* Cleanup of the outputs, by the owner or when they expire.
DeleteOutputs(j) ==
    /\ job[j].status = "completed"
    /\ Write(j, [job[j] EXCEPT !.status = "output_deleted"])
    /\ UNCHANGED <<ledger, queue, outside, todo, worker, faultVars>>

HandlerDies(j, h) ==
    /\ todo[j][h] # <<>>
    /\ Fault("crash")
    /\ Then(j, h, <<>>)
    /\ UNCHANGED <<ledger, queue, job, outside, worker>>

WorkerDies(w) ==
    /\ worker[w].pc # "idle"
    /\ Fault("crash")
    /\ Goto(w, "idle")
    /\ UNCHANGED <<ledger, queue, job, outside, todo>>

-----------------------------------------------------------------------------
SubmitStep(j) ==
    \/ ReserveHold(j) \/ CreatePendingItems(j) \/ StartUpload(j)
    \/ SubmitToProvider(j) \/ RecordProviderJob(j) \/ AbortOrphan(j)
    \/ RecordFailure(j) \/ HideFailure(j) \/ RecordQueueFailure(j)

HandlerStep(j) ==
    \/ SubmitStep(j) \/ CancelAtProvider(j) \/ CancelJob(j)
    \/ \E h \in Handler : EnqueueJob(j, h) \/ ReleaseHold(j, h)

ProcessStep(w, j) ==
    \/ ReadForPipeline(w, j) \/ ReadForProcess(w, j) \/ GetFromProvider(w, j)
    \/ ApplyProviderState(w, j) \/ IndexResults(w, j) \/ StartSettling(w, j)
    \/ ReleaseTerminalHold(w, j)

SettleStep(w, j) ==
    \/ ReadForSettle(w, j) \/ CaptureHold(w, j) \/ MarkJobSettled(w, j)
    \/ RecordSettlementFailure(w, j) \/ ReleaseExhausted(w, j)
    \/ RecordReleaseFailure(w, j) \/ FailExhaustedJob(w, j) \/ Recheck(w, j)

WorkerStep(w, j) ==
    \/ ReserveReady(w, j) \/ TryAcquireJobLock(w, j)
    \/ ProcessStep(w, j) \/ SettleStep(w, j)
    \/ AckJob(w, j) \/ RequeueJob(w, j) \/ ReleaseLock(w, j)

Next ==
    \/ \E j \in Jobs :
         \/ CreateJob(j) \/ ReplaySubmit(j) \/ ReadForCancel(j) \/ HandlerStep(j)
         \/ GrowStale(j) \/ FailStaleUnsubmitted(j)
         \/ UpstreamRuns(j) \/ UpstreamEnds(j) \/ UpstreamEndsUnreadable(j)
         \/ LoseAccount(j) \/ DeleteOutputs(j)
         \/ MoveDueDelayed(j) \/ RecoverStaleActive(j) \/ LockExpires(j)
         \/ \E h \in Handler : HandlerDies(j, h)
         \/ \E w \in Workers : WorkerStep(w, j)
    \/ \E w \in Workers : WorkerDies(w)

Spec == Init /\ [][Next]_vars

\* Live workers go on, timers fire, the queue's recovery runs and the provider's
\* batch ends; nobody has to submit, cancel, replay or delete, or to go on with it.
Fairness ==
    /\ \A j \in Jobs :
         /\ WF_vars(UpstreamEnds(j)) /\ WF_vars(LockExpires(j))
         /\ WF_vars(MoveDueDelayed(j)) /\ WF_vars(RecoverStaleActive(j))
    /\ \A w \in Workers : WF_vars(\E j \in Jobs : WorkerStep(w, j))

FairSpec == Spec /\ Fairness

-----------------------------------------------------------------------------
(* Properties.                                                              *)

Captured(j) == "capture" \in claims[j]
Released(j) == "release" \in claims[j]
Finished(j) == job[j].status \in {"completed", "output_deleted"}

\* Money moves between the balance, the frozen pool and the revenue; the three
\* statements of a hold never create or destroy any, in whatever order and how
\* often they are repeated (usage_billing_repo.go).
Conservation == balance + frozen + spent = Deposit

\* A job is completed, and its results can be downloaded, only after its hold
\* was captured: MarkBatchImageJobSettled never overtakes the capture.
CompletedIsCharged == \A j \in Jobs : Finished(j) => Captured(j)

\* A captured job is being settled or was: as long as no live process lost its
\* lock or heartbeat, no failure, cancel or retry takes a charged job elsewhere,
\* unless its hold was also released, over which see BilledOnce.  (A job without
\* a hold is charged nothing, and may fail after that.)
ChargedIsDelivered ==
    ~late => \A j \in Jobs :
      Captured(j) /\ ~Released(j) /\ Hold[j] > 0 =>
        Finished(j) \/ job[j].status = "settling"

\* The hold of a job that was not charged returns only when the job is over, did
\* not reach the provider or has used up the retries of its settlement, never
\* while it goes on (failExhaustedSettlement, releaseTerminalHold, Cancel,
\* recovery).
RefundedIsOver ==
    \A j \in Jobs : Released(j) /\ ~Captured(j) =>
      \/ job[j].status \in {"failed", "cancelled"}
      \/ Unsubmitted(j)
      \/ job[j].status = "settling" /\ job[j].retries >= MaxRetries

\* A job the workers have begun stays in the queue until it is settled: no crash
\* between two of the queue's structures and no lost reply drops it.
InHandIsQueued ==
    ~late => \A j \in Jobs :
      job[j].status \in {"running", "indexing", "settling"} => Q!Queued(j)

\* The job lock: no two workers process one job at a time, however often the
\* queue hands it out, unless the lock of a live worker lapsed.
OneWorker ==
    ~late => \A j \in Jobs : \A v, w \in Workers : Holding(v, j) /\ Holding(w, j) => v = w

\* The hold, capture and release of every job, and the completion that follows,
\* do what BatchImagePromise promises; a job that costs nothing needs no hold.
BillOf(j) ==
    CASE Captured(j) /\ ~Released(j) -> "charged"
      [] Released(j) /\ ~Captured(j) -> "refunded"
      [] Released(j) /\ Captured(j)  -> "both"
      [] OTHER -> IF "hold" \in claims[j] \/ Hold[j] = 0 THEN "held" ELSE "none"

Promise == INSTANCE BatchImagePromise WITH
    bill <- [j \in Jobs |-> BillOf(j)],
    funds <- balance + frozen,
    pool <- frozen,
    delivered <- {j \in Jobs : Finished(j)}

KeepsPromise == Promise!Spec

\* "After the retry limit is reached, the job is failed and the remaining hold is
\* released" (docs/BATCH_IMAGE_MVP.md): of a charged job nothing remains.  The
\* code does not keep it: a capture whose reply is lost counts as a failure, and
\* the release that ends the retries takes as much frozen money as the hold was,
\* which may be the hold of another job of the user.
BilledOnce == \A j \in Jobs : ~(Captured(j) /\ Released(j))

\* "At this point no refund may happen, or the upstream task costs money while
\* the user has his frozen balance back" (batch_image_billing_recovery.go): a
\* refunded job has no provider job that still runs.
RefundedNeverRuns ==
    \A j \in Jobs : Released(j) /\ job[j].submitted => upstream[j] \notin {"queued", "running"}

\* A hold that is in the queue does not stay frozen for ever: the workers' rounds,
\* their retries and the recovery of jobs of dead workers capture or release it.
\* The exceptions are a lapse, after which the job may fall out of the queue, and
\* an obstacle, with which the code requeues the job for ever.
\* "void": the release was claimed before there was a hold.
OwesHold(j) == "hold" \in claims[j] /\ "void" \notin claims[j]

QueuedIsSettled ==
    \A j \in Jobs :
      j \in inflight /\ OwesHold(j)
        ~> Captured(j) \/ Released(j) \/ late \/ obstacle[j] # "none"
=============================================================================
