------------------------- MODULE IdempotentExecute -------------------------
(***************************************************************************)
(* Concurrent calls of IdempotencyCoordinator.Execute with one key.  A     *)
(* call reads the time, claims the record (by inserting it, or by          *)
(* reclaiming one that expired or whose failure may be retried), executes  *)
(* the operation and records its outcome; the others replay a recorded     *)
(* outcome or are turned away.  Every statement on the record is a step    *)
(* and may fail; calls may die; the cleanup deletes expired records.  The  *)
(* operation is opaque: one that returns an error may have done a part of  *)
(* its work, and Execute runs it again all the same.                       *)
(*                                                                         *)
(* Calls with an ExecutionTimeout are `Detached': they renew the record    *)
(* while they execute.  The others rely on the TTL being longer than any   *)
(* request.  Any step may be late, and any renewal fail; `late' remembers   *)
(* that some call was not timely.                                          *)
(***************************************************************************)
EXTENDS IdempotencyRecord, FiniteSets

CONSTANTS
    Detached,     \* calls with an ExecutionTimeout
    Backoff,      \* FailedRetryBackoff
    RenewEvery,   \* interval of renewProcessingLease
    ClaimTime,    \* a timely call claims the record within this time,
    CallTime,     \* and ends within this time if it is not detached;
    MaxFailures   \* at most so many of its renewals fail

ASSUME DetachedAssumption == Detached \subseteq Callers
ASSUME ExecuteTimesAssumption ==
    /\ Backoff \in Nat /\ RenewEvery \in Nat \ {0}
    /\ ClaimTime \in Nat /\ CallTime \in Nat /\ MaxFailures \in Nat

VARIABLES
    fingerprint, \* the fingerprint of each call's request
    call,     \* each call: its step and what it has read
    late,     \* history: a call was not timely
    effects,  \* history: calls whose operation took effect and did not return
              \* an error: it succeeded, or its process ended
    partial,  \* history: calls whose operation returned an error and had taken
              \* effect, in part or as a whole
    answers,  \* history: whose outcome each replayed call returned
    born      \* history: the `now' of the first claim, 0 before

histVars == <<effects, partial, answers, born>>
vars == <<recordVars, fingerprint, call, late, histVars>>

\* now:      the time read at the start
\* id, from: id and status of the record as the call read it; the id is that
\*           of its claim later
\* failed:   the operation returned an error
\* ended:    when it returned
\* renewAt:  when the renewal goroutine ticks next, 0 when it is not running
\* failures: failed renewals
Claiming == {"create", "get", "reclaimExpired", "getLatest", "reclaimFailed"}
Steps == Claiming \cup {"idle", "execute", "mark", "done"}

Calls == [pc : Steps, now : Nat, id : Nat, from : Statuses, failed : BOOLEAN,
          ended : Nat, renewAt : Nat, failures : 0..MaxFailures]

Idle == [pc |-> "idle", now |-> 0, id |-> 0, from |-> "none",
         failed |-> FALSE, ended |-> 0, renewAt |-> 0, failures |-> 0]

TypeOK ==
    /\ RecordTypeOK
    /\ fingerprint \in [Callers -> Fingerprints]
    /\ call \in [Callers -> Calls]
    /\ late \in BOOLEAN
    /\ effects \subseteq Callers /\ partial \subseteq Callers
    /\ answers \in [Callers -> Callers \cup {Nobody}]
    /\ born \in 0..MaxClock

Init ==
    /\ RecordInit
    /\ fingerprint \in [Callers -> Fingerprints]
    /\ late = FALSE
    /\ call = [c \in Callers |-> Idle]
    /\ effects = {} /\ partial = {}
    /\ answers = [c \in Callers |-> Nobody]
    /\ born = 0

At(c, step) == call[c].pc = step
Now(c) == call[c].now
GoTo(c, step) == call' = [call EXCEPT ![c].pc = step]
Stop(c) == call' = [call EXCEPT ![c] = [Idle EXCEPT !.pc = "done"]]
Unwritten == UNCHANGED <<recordVars, histVars>>

StartExecute(c) ==
    /\ At(c, "idle")
    /\ call' = [call EXCEPT ![c].pc = "create", ![c].now = clock]
    /\ Unwritten

\* The claim is the call's: it starts the renewals and the operation.
Claim(c, id) ==
    /\ call' = [call EXCEPT
          ![c].pc = "execute", ![c].id = id,
          ![c].renewAt = IF c \in Detached THEN clock + RenewEvery ELSE 0]
    /\ born' = IF born = 0 THEN Now(c) ELSE born
    /\ UNCHANGED <<clock, effects, partial, answers>>

Create(c) ==
    /\ At(c, "create")
    /\ CreateProcessing(fingerprint[c], Now(c))
    /\ Claim(c, lastId + 1)

CreateConflicts(c) ==
    /\ At(c, "create")
    /\ Exists
    /\ GoTo(c, "get")
    /\ Unwritten

Read(c, step) ==
    call' = [call EXCEPT ![c].pc = step, ![c].id = row.id, ![c].from = row.status]

\* What the call does with a record it may not reclaim as expired: replay,
\* "in progress", "retry backoff", or reclaim a failure.
Replay(c) ==
    /\ row.status = "succeeded"
    /\ answers' = [answers EXCEPT ![c] = row.response]
    /\ Stop(c)
    /\ UNCHANGED <<recordVars, effects, partial, born>>

TurnAway(c) ==
    /\ \/ row.status = "processing"
       \/ row.status = "failed_retryable" /\ Locked(row, Now(c))
    /\ Stop(c)
    /\ Unwritten

RetryFailure(c) ==
    /\ row.status = "failed_retryable" /\ ~Locked(row, Now(c))
    /\ Read(c, "reclaimFailed")
    /\ Unwritten

Answer(c) == Replay(c) \/ TurnAway(c) \/ RetryFailure(c)

MissingOnly(c) == ~Exists \* mutant of Mismatch

\* The record is gone, or belongs to another request.
Mismatch(c) == ~Exists \/ row.fingerprint # fingerprint[c]

GetMismatch(c) ==
    /\ call[c].pc \in {"get", "getLatest"}
    /\ Mismatch(c)
    /\ Stop(c)
    /\ Unwritten

GetExisting(c) ==
    /\ At(c, "get")
    /\ ~Mismatch(c)
    /\ \/ Expired(row, Now(c)) /\ Read(c, "reclaimExpired") /\ Unwritten
       \/ ~Expired(row, Now(c)) /\ Answer(c)

ReclaimExpired(c) ==
    /\ At(c, "reclaimExpired")
    /\ TryReclaim(call[c].id, call[c].from, Now(c))
    /\ Claim(c, call[c].id)

ReclaimExpiredMisses(c) ==
    /\ At(c, "reclaimExpired")
    /\ ~Reclaimable(call[c].id, call[c].from, Now(c))
    /\ GoTo(c, "getLatest")
    /\ Unwritten

\* The expiry is not looked at again.
GetLatest(c) ==
    /\ At(c, "getLatest")
    /\ ~Mismatch(c)
    /\ Answer(c)

ReclaimFailed(c) ==
    /\ At(c, "reclaimFailed")
    /\ TryReclaim(call[c].id, "failed_retryable", Now(c))
    /\ Claim(c, call[c].id)

ReclaimFailedMisses(c) ==
    /\ At(c, "reclaimFailed")
    /\ ~Reclaimable(call[c].id, "failed_retryable", Now(c))
    /\ Stop(c)
    /\ Unwritten

StoreFails(c) ==
    /\ call[c].pc \in Claiming
    /\ Stop(c)
    /\ Unwritten

\* The operation returns, with its effect or with an error.  It need not be
\* atomic: CreateAccount returns an error with the account stored when binding
\* its groups fails.
Execute(c) ==
    /\ At(c, "execute")
    /\ \E error \in BOOLEAN :
          /\ call' = [call EXCEPT ![c].pc = "mark", ![c].failed = error,
                                  ![c].ended = clock]
          /\ effects' = IF error THEN effects ELSE effects \cup {c}
          /\ partial' \in IF error THEN {partial, partial \cup {c}} ELSE {partial}
    /\ UNCHANGED <<recordVars, answers, born>>

\* A detached call's record lives on from the end of the operation.
Expiry(c) == TTL + (IF c \in Detached THEN call[c].ended ELSE Now(c))

\* The outcome is recorded, or recording it fails; the call returns.
Mark(c) ==
    /\ At(c, "mark")
    /\ \/ /\ ~call[c].failed
          /\ MarkSucceeded(call[c].id, c, Expiry(c))
       \/ /\ call[c].failed
          /\ MarkFailedRetryable(call[c].id, call[c].ended + Backoff, Expiry(c))
       \/ UNCHANGED <<row, lastId>>
    /\ Stop(c)
    /\ UNCHANGED <<clock, histVars>>

\* Renewal of a detached call's record; it ends when the row is not its own.
Due(c) == call[c].renewAt # 0 /\ call[c].renewAt <= clock

Renew(c) ==
    /\ Due(c)
    /\ ExtendProcessingLock(call[c].id, fingerprint[c])
    /\ call' = [call EXCEPT ![c].renewAt = clock + RenewEvery]
    /\ UNCHANGED <<clock, histVars>>

RenewFails(c) ==
    /\ Due(c)
    /\ call' = [call EXCEPT ![c].renewAt = clock + RenewEvery,
                  ![c].failures = IF @ < MaxFailures THEN @ + 1 ELSE @]
    /\ late' = (late \/ call[c].failures = MaxFailures)
    /\ UNCHANGED fingerprint
    /\ Unwritten

RenewEnds(c) ==
    /\ Due(c)
    /\ ~Extendable(call[c].id, fingerprint[c])
    /\ call' = [call EXCEPT ![c].renewAt = 0]
    /\ Unwritten

\* The process ends, maybe after the operation took effect.
Die(c) ==
    /\ call[c].pc \in Claiming \cup {"execute", "mark"}
    /\ Stop(c)
    /\ effects' \in IF At(c, "execute") THEN {effects, effects \cup {c}} ELSE {effects}
    /\ UNCHANGED <<recordVars, partial, answers, born>>

Timely(c) ==
    /\ call[c].pc \in Claiming => clock < Now(c) + ClaimTime
    /\ call[c].pc \in {"execute", "mark"} /\ c \notin Detached
          => clock < Now(c) + CallTime
    /\ ~Due(c)

Wait ==
    /\ Tick
    /\ late' = (late \/ \E c \in Callers : ~Timely(c))
    /\ UNCHANGED <<fingerprint, call, histVars>>

Cleanup == DeleteExpired /\ UNCHANGED <<fingerprint, call, late, histVars>>

Advance(c) ==
    /\ \/ StartExecute(c) \/ Create(c) \/ CreateConflicts(c)
       \/ GetMismatch(c) \/ GetExisting(c) \/ GetLatest(c)
       \/ ReclaimExpired(c) \/ ReclaimExpiredMisses(c)
       \/ ReclaimFailed(c) \/ ReclaimFailedMisses(c) \/ StoreFails(c)
       \/ Execute(c) \/ Mark(c) \/ Die(c)
       \/ Renew(c) \/ RenewEnds(c)
    /\ UNCHANGED <<fingerprint, late>>

Next ==
    \/ \E c \in Callers : Advance(c) \/ RenewFails(c)
    \/ Cleanup
    \/ Wait

Spec == Init /\ [][Next]_vars

-----------------------------------------------------------------------------
(***************************************************************************)
(* Within the TTL of the first claim an operation that took effect and did *)
(* not return an error is not run again, and no other one is: whatever is  *)
(* slow, dies or is not recorded.  Only after an error is the operation    *)
(* run again, and what it had done by then (partial) may be done twice.    *)
(***************************************************************************)
OnceWithinTTL ==
    born # 0 /\ clock < born + TTL /\ effects # {} =>
        /\ Cardinality(effects) = 1
        /\ \A c \in Callers : ~At(c, "execute")

(***************************************************************************)
(* A replayed answer is the outcome of a call with the same request that   *)
(* took effect, though claims, marks and the cleanup only go by the id.    *)
(***************************************************************************)
ReplayedOwnRequest ==
    \A c \in Callers : answers[c] # Nobody =>
        /\ answers[c] \in effects
        /\ fingerprint[answers[c]] = fingerprint[c]

(***************************************************************************)
(* If claims are made within a lease and requests end within the TTL (or   *)
(* renew their record), two calls never execute at the same time, across   *)
(* expiry, reclaims, cleanup, failed renewals and unrecorded outcomes.     *)
(***************************************************************************)
OneExecution ==
    ~late => \A c, d \in Callers :
       c # d => ~(At(c, "execute") /\ At(d, "execute"))
=============================================================================
