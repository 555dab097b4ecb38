----------------------- MODULE IdempotencyRecordProofs -----------------------
(***************************************************************************)
(* Lemmas about the statements of IdempotencyRecord: what each one writes  *)
(* has its type, and no statement but INSERT and DELETE changes which row  *)
(* there is.                                                               *)
(***************************************************************************)
EXTENDS IdempotencyRecord, TLAPS

\* A reclaim or a renewal leaves the row with its id and new times.
LEMMA WriteType ==
  ASSUME RecordTypeOK, row.id # 0, NEW s \in Statuses,
         NEW until \in Nat, NEW expires \in Nat,
         row' = [row EXCEPT !.status = s, !.lockedUntil = until,
                            !.expiresAt = expires],
         lastId' = lastId
  PROVE  row' \in Rows /\ row'.id = lastId' /\ lastId' \in Nat \ {0}
<1>1. row' \in Rows /\ row'.id = row.id
  BY DEF RecordTypeOK, Rows
<1>2. row.id = lastId
  BY DEF RecordTypeOK, NoRow
<1> QED
  BY <1>1, <1>2 DEF RecordTypeOK

\* An insertion makes a row with a new id.
LEMMA CreateType ==
  ASSUME RecordTypeOK, NEW f \in Fingerprints, NEW now \in Nat,
         CreateProcessing(f, now)
  PROVE  row' \in Rows /\ row'.id = lastId' /\ lastId' \in Nat \ {0}
BY TimesAssumption DEF RecordTypeOK, CreateProcessing, Rows, Statuses

\* A reclaim.
LEMMA ReclaimType ==
  ASSUME RecordTypeOK, NEW id \in Nat, id # 0, NEW from, NEW now \in Nat,
         TryReclaim(id, from, now)
  PROVE  row' \in Rows /\ row'.id = lastId' /\ lastId' \in Nat \ {0}
<1>1. now + Lease \in Nat /\ now + TTL \in Nat
  BY TimesAssumption
<1>2. row.id # 0
  BY DEF TryReclaim, Reclaimable
<1>3. "processing" \in Statuses
  BY DEF Statuses
<1> QED
  BY <1>1, <1>2, <1>3, WriteType DEF TryReclaim

\* A renewal.
LEMMA ExtendType ==
  ASSUME RecordTypeOK, NEW id, NEW f, ExtendProcessingLock(id, f)
  PROVE  row' \in Rows /\ row'.id = lastId' /\ lastId' \in Nat \ {0}
<1>1. row' \in Rows /\ row'.id = row.id
  <2>1. clock + Lease \in Nat /\ clock + TTL \in Nat
    BY TimesAssumption DEF RecordTypeOK
  <2> QED
    BY <2>1 DEF RecordTypeOK, ExtendProcessingLock, Rows
<1>2. row.id = lastId /\ lastId # 0
  BY DEF RecordTypeOK, ExtendProcessingLock, Extendable, NoRow
<1> QED
  BY <1>1, <1>2 DEF RecordTypeOK, ExtendProcessingLock

\* The outcome of an operation, whether or not its row is still there.
LEMMA MarkType ==
  ASSUME RecordTypeOK, NEW id \in Nat \ {0}, NEW response \in Callers,
         NEW until \in Nat, NEW expires \in Nat,
         \/ MarkSucceeded(id, response, expires)
         \/ MarkFailedRetryable(id, until, expires)
  PROVE  /\ row' \in Rows /\ lastId' \in Nat
         /\ row' = NoRow \/ (row'.id = lastId' /\ lastId' # 0)
<1>1. row.id # id => row' = row
  BY DEF MarkSucceeded, MarkFailedRetryable
<1>2. row.id = id => row' \in Rows /\ row'.id = id
  <2>1. CASE MarkSucceeded(id, response, expires)
    BY <2>1 DEF MarkSucceeded, RecordTypeOK, Rows, Statuses
  <2>2. CASE MarkFailedRetryable(id, until, expires)
    BY <2>2 DEF MarkFailedRetryable, RecordTypeOK, Rows, Statuses
  <2> QED
    BY <2>1, <2>2
<1>3. row.id = id => id = lastId
  BY DEF RecordTypeOK, NoRow
<1>4. lastId' = lastId
  BY DEF MarkSucceeded, MarkFailedRetryable
<1> QED
  BY <1>1, <1>2, <1>3, <1>4 DEF RecordTypeOK
=============================================================================
