------------------------ MODULE SystemOperationLock ------------------------
(***************************************************************************)
(* The global lock of the administrator's system operations (update,       *)
(* rollback, restart): one idempotency record whose fingerprint is the id  *)
(* of the operation.  An operation acquires the lock, runs while a loop    *)
(* renews the lease, and releases it.  Every statement on the record is a  *)
(* step; the record's statements may fail, operations may die with their   *)
(* process.                                                                *)
(*                                                                         *)
(* The durations of the program become bounds on how late a step may be:   *)
(* time does not pass beyond them (Timely).                                *)
(***************************************************************************)
EXTENDS IdempotencyRecord

CONSTANTS
    RenewEvery,   \* renewInterval
    AcquireTime,  \* bound on the time Acquire takes
    RunTime,      \* bound on the time from Acquire's start to the release
    MaxFailures,  \* renewals of one operation that may fail
    MayDie        \* whether processes die

\* The fingerprint of an operation is its own id.
ASSUME OwnIdAssumption == Fingerprints = Callers
ASSUME LockTimesAssumption ==
    /\ RenewEvery \in Nat \ {0}
    /\ AcquireTime \in Nat /\ RunTime \in Nat /\ MaxFailures \in Nat
    /\ MayDie \in BOOLEAN

\* A record outlives an operation: one hour against fifteen minutes.
ASSUME LongTTLAssumption ==
    AcquireTime <= RunTime /\ RunTime + AcquireTime < TTL

VARIABLE op  \* each operation: what its handler and its lock object keep

vars == <<recordVars, op>>

\* now:      the time Acquire read
\* id, from: id and status of the record as Acquire read it; the id is the
\*           recordID of the lock object later
\* created:  history, the operation inserted the record; no step reads it
\* renewAt:  when the renewal loop ticks next, 0 when it is not running
\* failures: failed renewals
Acquiring == {"create", "get", "reclaim"}
Steps == Acquiring \cup {"idle", "run", "release", "ending", "done"}

Operations == [pc : Steps, now : Nat, id : Nat, from : Statuses,
               created : BOOLEAN, renewAt : Nat, failures : 0..MaxFailures]

Idle == [pc |-> "idle", now |-> 0, id |-> 0, from |-> "none",
         created |-> FALSE, renewAt |-> 0, failures |-> 0]

TypeOK ==
    /\ RecordTypeOK
    /\ op \in [Callers -> Operations]

Init == RecordInit /\ op = [o \in Callers |-> Idle]

GoTo(o, step) == op' = [op EXCEPT ![o].pc = step]

\* Nothing of the operation is left but the row.
End(o) == op' = [op EXCEPT ![o] = [Idle EXCEPT !.pc = "done"]]

StartAcquire(o) ==
    /\ op[o].pc = "idle"
    /\ op' = [op EXCEPT ![o].pc = "create", ![o].now = clock]
    /\ UNCHANGED recordVars

\* The lock object is made and its renewal loop started.
Enter(o, id, inserted) ==
    /\ op' = [op EXCEPT ![o].pc = "run", ![o].id = id, ![o].created = inserted,
                        ![o].renewAt = clock + RenewEvery]
    /\ UNCHANGED clock

Create(o) ==
    /\ op[o].pc = "create"
    /\ CreateProcessing(o, op[o].now)
    /\ Enter(o, lastId + 1, TRUE)

CreateConflicts(o) ==
    /\ op[o].pc = "create"
    /\ Exists
    /\ GoTo(o, "get")
    /\ UNCHANGED recordVars

IsBusy(r, now) == r.status = "processing" /\ Locked(r, now)

\* ErrSystemOperationBusy, or the record was deleted meanwhile.
GetExisting(o) ==
    /\ op[o].pc = "get"
    /\ IF ~Exists \/ IsBusy(row, op[o].now)
       THEN End(o)
       ELSE op' = [op EXCEPT ![o].pc = "reclaim", ![o].id = row.id,
                             ![o].from = row.status]
    /\ UNCHANGED recordVars

Reclaim(o) ==
    /\ op[o].pc = "reclaim"
    /\ TryReclaim(op[o].id, op[o].from, op[o].now)
    /\ Enter(o, op[o].id, FALSE)

ReclaimMisses(o) ==
    /\ op[o].pc = "reclaim"
    /\ ~Reclaimable(op[o].id, op[o].from, op[o].now)
    /\ End(o)
    /\ UNCHANGED recordVars

StoreFails(o) ==
    /\ op[o].pc \in Acquiring
    /\ End(o)
    /\ UNCHANGED recordVars

\* One tick of the renewal loop.  It goes on after an error of the store, and
\* ends when the row is not its own ("ownership_lost").  When the channel is
\* closed and the ticker is due, select may serve the ticker once more.
Due(o) == op[o].renewAt # 0 /\ op[o].renewAt <= clock

Renew(o) ==
    /\ Due(o)
    /\ ExtendProcessingLock(op[o].id, o)
    /\ op' = [op EXCEPT ![o].renewAt = clock + RenewEvery]
    /\ UNCHANGED clock

RenewFails(o) ==
    /\ Due(o)
    /\ op[o].failures < MaxFailures
    /\ op' = [op EXCEPT ![o].renewAt = clock + RenewEvery,
                        ![o].failures = @ + 1]
    /\ UNCHANGED recordVars

OwnershipLost(o) ==
    /\ Due(o)
    /\ ~Extendable(op[o].id, o)
    /\ op' = [op EXCEPT ![o].renewAt = 0]
    /\ UNCHANGED recordVars

\* The update or rollback is over; Release closes the loop's channel.
Finish(o) ==
    /\ op[o].pc = "run"
    /\ GoTo(o, "release")
    /\ UNCHANGED recordVars

\* Release records success or failure; the handler ignores its error.
Release(o) ==
    /\ op[o].pc = "release"
    /\ \/ MarkSucceeded(op[o].id, o, clock + TTL)
       \/ MarkFailedRetryable(op[o].id, clock, clock + TTL)
       \/ UNCHANGED <<row, lastId>>
    /\ GoTo(o, "ending")
    /\ UNCHANGED clock

\* The renewal loop sees the closed channel.
StopRenewing(o) ==
    /\ op[o].pc = "ending"
    /\ End(o)
    /\ UNCHANGED recordVars

\* The process ends, with its renewal loop and without a release.
Die(o) ==
    /\ MayDie
    /\ op[o].pc \notin {"idle", "done"}
    /\ End(o)
    /\ UNCHANGED recordVars

\* A release is given two seconds by the handler, the update fifteen minutes.
Timely(o) ==
    /\ op[o].pc \in Acquiring => clock < op[o].now + AcquireTime
    /\ op[o].pc = "run" => clock < op[o].now + RunTime
    /\ op[o].pc \notin {"release", "ending"}
    /\ ~Due(o)

Wait ==
    /\ \A o \in Callers : Timely(o)
    /\ Tick
    /\ UNCHANGED op

Cleanup == DeleteExpired /\ UNCHANGED op

Next ==
    \/ \E o \in Callers :
          \/ StartAcquire(o) \/ Create(o) \/ CreateConflicts(o)
          \/ GetExisting(o) \/ Reclaim(o) \/ ReclaimMisses(o) \/ StoreFails(o)
          \/ Renew(o) \/ RenewFails(o) \/ OwnershipLost(o)
          \/ Finish(o) \/ Release(o) \/ StopRenewing(o) \/ Die(o)
    \/ Cleanup
    \/ Wait

Spec == Init /\ [][Next]_vars

-----------------------------------------------------------------------------
Running(o) == op[o].pc = "run"

(***************************************************************************)
(* The lock as the handlers rely on it: two system operations never run at *)
(* the same time (ErrSystemOperationBusy: another operation is in          *)
(* progress).  The code does not keep it: TryReclaim leaves the            *)
(* fingerprint of the operation that inserted the row, so the renewals of  *)
(* an operation that got the lock by reclaiming it match no row, its loop  *)
(* ends, and after one lease the next operation enters.                    *)
(***************************************************************************)
OneOperation ==
    \A o, p \in Callers : o # p => ~(Running(o) /\ Running(p))

(***************************************************************************)
(* What is left of it: an operation whose Acquire inserted the row is      *)
(* alone until it ends, through failed renewals, other operations' calls,  *)
(* late ticks of earlier holders' loops and the cleanup.                   *)
(***************************************************************************)
CreatorIsExclusive ==
    \A o, p \in Callers :
        o # p /\ Running(o) /\ Running(p) => ~op[o].created /\ ~op[p].created

(***************************************************************************)
(* The cleanup never deletes the row of a running operation, whether or    *)
(* not its renewals still work: every way to get the lock sets expires_at  *)
(* beyond the longest operation, and no other operation's mark shortens    *)
(* it.                                                                     *)
(***************************************************************************)
RunningKeepsRow == \A o \in Callers : Running(o) => row.id = op[o].id

(***************************************************************************)
(* And of two that got the lock by reclaiming: one that enters beside a    *)
(* running one read its clock a lease after that one did, up to the time   *)
(* an Acquire takes.  So of several that read the row as free together one *)
(* gets it.  The exception is a row that was marked under the running one: *)
(* Release writes by the id of the row alone, so an operation that lost    *)
(* the lock ends the lease of its successor.                               *)
(***************************************************************************)
EntriesAreLeaseApart ==
    [][\A o, p \in Callers :
          Running(o) /\ ~Running(p) /\ Running(p)' /\ row.status = "processing"
              => op[o].now + Lease <= op[p].now + AcquireTime]_vars

(***************************************************************************)
(* Why RunningKeepsRow and EntriesAreLeaseApart hold: the times an         *)
(* operation keeps are not in the future and not too old, and whoever      *)
(* writes the row, for itself or late for a lock it lost, leaves it an     *)
(* expiry of a TTL, and if it is processing a lease, from a recent time.   *)
(***************************************************************************)
TimesInv ==
    \A o \in Callers :
        /\ op[o].now <= clock
        /\ op[o].pc \in Acquiring => clock <= op[o].now + AcquireTime
        /\ Running(o) => clock <= op[o].now + RunTime

IdInv ==
    \A o \in Callers :
        op[o].pc \in {"reclaim", "run", "release"} => op[o].id # 0

RowInv ==
    \A o \in Callers : Running(o) =>
        /\ row.id = op[o].id
        /\ row.expiresAt + AcquireTime >= op[o].now + TTL
        /\ row.status = "processing" =>
             row.lockedUntil + AcquireTime >= op[o].now + Lease

IndInv == TypeOK /\ TimesInv /\ IdInv /\ RowInv
=============================================================================
