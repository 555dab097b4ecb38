------------------------- MODULE IdempotencyRecord -------------------------
(***************************************************************************)
(* The row of idempotency_records for one (scope, key), and the statements *)
(* of the repository on it, each one atomic.  The calls of the coordinator *)
(* (IdempotentExecute) and the global lock of the system operations        *)
(* (SystemOperationLock) are built from them.                              *)
(*                                                                         *)
(* Time is an integer clock.  A caller passes the times it computed from   *)
(* the `now' it read earlier; processes are assumed to agree on the clock. *)
(* A locked_until of NULL is 0: every statement and check treats it as a   *)
(* time that has passed.  The id tells an inserted row from the one that   *)
(* was deleted before it.                                                  *)
(***************************************************************************)
EXTENDS Naturals

CONSTANTS
    Callers,       \* calls (or operations) that use this key
    Fingerprints,  \* request fingerprints of those calls
    Nobody,        \* no caller, no fingerprint
    Lease,         \* ProcessingTimeout: how long a claim is locked
    TTL,           \* how long a record lives
    MaxClock       \* bound on the clock

ASSUME NobodyAssumption == Nobody \notin Callers \cup Fingerprints
ASSUME TimesAssumption ==
    /\ Lease \in Nat \ {0}
    /\ TTL \in Nat \ {0}
    /\ MaxClock \in Nat \ {0}

VARIABLES
    clock,   \* the time
    row,     \* the record, or NoRow
    lastId   \* the id of the last inserted record

recordVars == <<clock, row, lastId>>

NoRow == [id |-> 0, fingerprint |-> Nobody, status |-> "none",
          response |-> Nobody, lockedUntil |-> 0, expiresAt |-> 0]

Statuses == {"none", "processing", "succeeded", "failed_retryable"}

Rows == [id : Nat, fingerprint : Fingerprints \cup {Nobody}, status : Statuses,
         response : Callers \cup {Nobody},
         lockedUntil : Nat, expiresAt : Nat]

RecordTypeOK ==
    /\ clock \in 1..MaxClock
    /\ row \in Rows
    /\ lastId \in Nat
    /\ row = NoRow \/ (row.id = lastId /\ row.id # 0)

RecordInit == clock = 1 /\ row = NoRow /\ lastId = 0

Exists == row.id # 0
ExpiredByLock(r, now) == r.lockedUntil <= now \* mutant of Expired
Expired(r, now) == r.expiresAt <= now
Locked(r, now) == r.lockedUntil > now

\* INSERT ... ON CONFLICT DO NOTHING, by a caller that read `now'.
CreateProcessing(f, now) ==
    /\ ~Exists
    /\ lastId' = lastId + 1
    /\ row' = [id |-> lastId + 1, fingerprint |-> f, status |-> "processing",
               response |-> Nobody,
               lockedUntil |-> now + Lease, expiresAt |-> now + TTL]

\* Mutants of Reclaimable.
ReclaimableLocked(id, from, now) == row.id = id /\ row.status = from
ReclaimableUnlocked(id, from, now) == ~Locked(row, now)

\* The WHERE of TryReclaim: the row still has the status the caller read and
\* is not locked.  Neither its expiry nor its fingerprint is looked at.
Reclaimable(id, from, now) ==
    row.id = id /\ row.status = from /\ ~Locked(row, now)

\* Mutant of TryReclaim: the old expiry is left.
TryReclaimKeepsExpiry(id, from, now) ==
    /\ Reclaimable(id, from, now)
    /\ row' = [row EXCEPT !.status = "processing", !.lockedUntil = now + Lease]
    /\ UNCHANGED lastId

\* The row becomes the caller's, under the fingerprint it was created with.
TryReclaim(id, from, now) ==
    /\ Reclaimable(id, from, now)
    /\ row' = [row EXCEPT !.status = "processing",
                          !.lockedUntil = now + Lease, !.expiresAt = now + TTL]
    /\ UNCHANGED lastId

\* The WHERE of ExtendProcessingLock.
Extendable(id, f) ==
    row.id = id /\ row.status = "processing" /\ row.fingerprint = f

\* Mutant of ExtendProcessingLock: only the expiry is extended.
ExtendExpiry(id, f) ==
    /\ Extendable(id, f)
    /\ row' = [row EXCEPT !.expiresAt = clock + TTL]
    /\ UNCHANGED lastId

\* The renewal loops pass the time of the tick they serve.
ExtendProcessingLock(id, f) ==
    /\ Extendable(id, f)
    /\ row' = [row EXCEPT !.lockedUntil = clock + Lease,
                          !.expiresAt = clock + TTL]
    /\ UNCHANGED lastId

\* Mutant of MarkSucceeded: a deleted row is written again.
MarkSucceededAnyway(id, response, expires) ==
    /\ row' = [row EXCEPT !.status = "succeeded", !.response = response,
                          !.lockedUntil = 0, !.expiresAt = expires]
    /\ UNCHANGED lastId

\* MarkSucceeded and MarkFailedRetryable find the row by id alone; of a
\* deleted row nothing is updated, and that is not an error.
MarkSucceeded(id, response, expires) ==
    /\ row' = IF row.id = id
              THEN [row EXCEPT !.status = "succeeded", !.response = response,
                               !.lockedUntil = 0, !.expiresAt = expires]
              ELSE row
    /\ UNCHANGED lastId

MarkFailedRetryable(id, until, expires) ==
    /\ row' = IF row.id = id
              THEN [row EXCEPT !.status = "failed_retryable",
                               !.lockedUntil = until, !.expiresAt = expires]
              ELSE row
    /\ UNCHANGED lastId

\* The cleanup deletes expired rows, whatever their status.
DeleteExpired ==
    /\ Exists /\ Expired(row, clock)
    /\ row' = NoRow
    /\ UNCHANGED <<clock, lastId>>

Tick ==
    /\ clock < MaxClock
    /\ clock' = clock + 1
    /\ UNCHANGED <<row, lastId>>
=============================================================================
