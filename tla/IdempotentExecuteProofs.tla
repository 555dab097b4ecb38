---------------------- MODULE IdempotentExecuteProofs ----------------------
(***************************************************************************)
(* Machine-checked proofs about IdempotentExecute, for every number of     *)
(* calls and requests, any failures, and all durations; OneExecution needs *)
(* those that the code relies on (Timed).                                  *)
(***************************************************************************)
EXTENDS IdempotentExecute, IdempotencyRecordProofs, FiniteSetTheorems

-----------------------------------------------------------------------------
(* The inductive invariants.                                                *)

\* The operation of c runs, or its outcome is to be recorded.
Active(c) == call[c].pc \in {"execute", "mark"}

\* The call knows a record.
Knows(c) == Active(c) \/ call[c].pc \in {"reclaimExpired", "getLatest", "reclaimFailed"}

\* Nobody knows a record or a time that there was not.
KnownInv ==
    /\ \A c \in Callers : Knows(c) => call[c].id \in 1..lastId
    /\ \A c \in Callers : call[c].renewAt # 0 => Active(c) /\ c \in Detached
    /\ \A c \in Callers : Now(c) <= clock /\ call[c].ended <= clock
    /\ \A c \in Callers : call[c].pc \notin {"idle", "done"} => Now(c) > 0
    /\ born <= clock

\* A record that a call knows by its id has the fingerprint of its request, and
\* the response in a record is the outcome of such a call.
OwnInv ==
    /\ \A c \in Callers : Knows(c) /\ call[c].id = row.id => row.fingerprint = fingerprint[c]
    /\ row.response # Nobody =>
         row.response \in effects /\ fingerprint[row.response] = row.fingerprint
    /\ \A c \in Callers : At(c, "mark") /\ ~call[c].failed => c \in effects
    /\ ReplayedOwnRequest

\* The call that runs is the only one, and the record says so.
Alone ==
    \A c \in Callers : Active(c) =>
      /\ row.status = "processing" /\ row.id = call[c].id
      /\ \A d \in Callers : Active(d) => d = c

\* Within the TTL of the first claim the record is there, no call takes it for
\* expired, and nobody retries what took effect.
WindowInv ==
    /\ born = 0 => ~Exists /\ effects = {} /\ \A c \in Callers : ~Knows(c)
    /\ born # 0 /\ clock < born + TTL =>
         /\ Exists /\ row.expiresAt >= born + TTL
         /\ row.status = "failed_retryable" => row.lockedUntil >= born
         /\ \A c \in Callers : ~At(c, "reclaimExpired")
         /\ Alone
         /\ \A c \in Callers : Active(c) => Now(c) >= born
         /\ \A c \in Callers : At(c, "mark") => call[c].ended >= born
         /\ effects # {} => /\ row.status # "failed_retryable"
                            /\ \A c \in Callers : Active(c) => At(c, "mark") /\ ~call[c].failed
         /\ \A d, e \in effects : d = e

IndInv == TypeOK /\ KnownInv /\ OwnInv /\ WindowInv

\* How long so many renewals take.
Slack(n) == n * RenewEvery

\* The durations of the code: a claim is locked longer than it takes, a request
\* ends within the TTL, and the renewals reach over their failures.
Timed ==
    /\ ClaimTime < Lease /\ CallTime < TTL
    /\ ClaimTime + RenewEvery + Slack(MaxFailures) < TTL

\* The renewals of c that may still fail.
Spare(c) == MaxFailures - call[c].failures

\* While calls are timely the record of a running call outlives it, and who has
\* taken it for expired finds it locked.
LeaseInv ==
    ~late =>
      /\ \A c \in Callers : call[c].pc \in Claiming => clock <= Now(c) + ClaimTime
      /\ Alone
      /\ \A c \in Callers : Active(c) =>
           /\ row.expiresAt > clock
           /\ c \notin Detached => row.expiresAt >= Now(c) + TTL
           /\ c \in Detached => /\ call[c].renewAt # 0 /\ clock <= call[c].renewAt
                                /\ row.expiresAt > call[c].renewAt + Slack(Spare(c))
           /\ \A d \in Callers :
                At(d, "reclaimExpired") /\ call[d].id = row.id /\ call[d].from = "processing"
                  => Locked(row, Now(d))

-----------------------------------------------------------------------------
(* The steps.                                                               *)

\* What a call does with a record that it does not take for expired.
LEMMA AnswerCases ==
    ASSUME NEW c \in Callers, Answer(c)
    PROVE  /\ UNCHANGED <<recordVars, effects, partial, born>>
           /\ \/ Stop(c)
              \/ /\ row.status = "failed_retryable" /\ ~Locked(row, Now(c))
                 /\ Read(c, "reclaimFailed")
           /\ \/ UNCHANGED answers
              \/ answers' = [answers EXCEPT ![c] = row.response]
BY DEF Answer, Replay, TurnAway, RetryFailure, Unwritten, histVars

\* Renewals that take no longer than others.
LEMMA SlackGrows ==
    ASSUME NEW m \in Nat, NEW n \in Nat
    PROVE  /\ Slack(m) \in Nat
           /\ Slack(m + 1) = Slack(m) + RenewEvery
           /\ m <= n => Slack(m) <= Slack(n)
<1>0. RenewEvery \in Nat
  BY ExecuteTimesAssumption
<1>1. Slack(m) \in Nat /\ Slack(m + 1) = Slack(m) + RenewEvery
  BY <1>0 DEF Slack
<1>2. ASSUME m <= n PROVE Slack(m) <= Slack(n)
  <2>1. PICK d \in Nat : n = m + d
    BY <1>2
  <2>2. n * RenewEvery = m * RenewEvery + d * RenewEvery
    BY <1>0, <2>1
  <2>3. d * RenewEvery \in Nat /\ m * RenewEvery \in Nat
    BY <1>0
  <2> QED BY <2>2, <2>3 DEF Slack
<1> QED BY <1>1, <1>2

\* A call stops, and is forgotten.
LEMMA Stopped ==
    ASSUME call \in [Callers -> Calls], NEW c \in Callers, Stop(c)
    PROVE  /\ call'[c].pc = "done" /\ call'[c].now = 0 /\ call'[c].ended = 0
           /\ call'[c].renewAt = 0
           /\ \A d \in Callers : d # c => call'[d] = call[d]
BY DEF Stop, Idle, Calls

\* A call has read the record and goes on.
LEMMA HasRead ==
    ASSUME call \in [Callers -> Calls], NEW c \in Callers, NEW step, Read(c, step)
    PROVE  /\ call'[c] = [call[c] EXCEPT !.pc = step, !.id = row.id, !.from = row.status]
           /\ call'[c].pc = step /\ call'[c].id = row.id /\ call'[c].from = row.status
           /\ call'[c].now = call[c].now /\ call'[c].ended = call[c].ended
           /\ call'[c].renewAt = call[c].renewAt
           /\ \A d \in Callers : d # c => call'[d] = call[d]
BY DEF Read, Calls

\* The operation has returned.
LEMMA HasExecuted ==
    ASSUME call \in [Callers -> Calls], NEW c \in Callers, Execute(c)
    PROVE  \E error \in BOOLEAN :
           /\ effects' = IF error THEN effects ELSE effects \cup {c}
           /\ partial' \in {partial, partial \cup {c}}
           /\ call'[c].pc = "mark" /\ call'[c].failed = error /\ call'[c].ended = clock
           /\ call'[c].id = call[c].id /\ call'[c].now = call[c].now
           /\ call'[c].renewAt = call[c].renewAt /\ call'[c].failures = call[c].failures
           /\ \A d \in Callers : d # c => call'[d] = call[d]
           /\ call[c].pc = "execute" /\ UNCHANGED <<recordVars, answers, born>>
BY DEF Execute, Calls, At

\* A step of c that leaves it knowing a record that there is, or none.
LEMMA KnownMoves ==
    ASSUME KnownInv, TypeOK, NEW c \in Callers, UNCHANGED <<clock, lastId, born>>,
           \A d \in Callers : d # c => call'[d] = call[d],
           Knows(c)' => call'[c].id \in 1..lastId,
           call'[c].renewAt # 0 => Active(c)' /\ c \in Detached,
           call'[c].now <= clock /\ call'[c].ended <= clock,
           call'[c].pc \notin {"idle", "done"} => call'[c].now > 0
    PROVE  KnownInv'
BY DEF KnownInv, Knows, Active, Now

\* The outcome is recorded in the record the call knows, or nowhere.
LEMMA MarkCases ==
    ASSUME row \in Rows, call \in [Callers -> Calls], NEW c \in Callers, Mark(c)
    PROVE  /\ At(c, "mark") /\ UNCHANGED <<clock, lastId, histVars>>
           /\ call'[c].pc = "done" /\ \A d \in Callers : d # c => call'[d] = call[d]
           /\ \/ row' = row
              \/ /\ row.id = call[c].id /\ row'.id = row.id
                 /\ row'.fingerprint = row.fingerprint /\ row'.expiresAt = Expiry(c)
                 /\ \/ /\ ~call[c].failed /\ row'.status = "succeeded" /\ row'.response = c
                    \/ /\ call[c].failed /\ row'.status = "failed_retryable"
                       /\ row'.response = row.response
                       /\ row'.lockedUntil = call[c].ended + Backoff
<1>1. /\ At(c, "mark") /\ UNCHANGED <<clock, lastId, histVars>>
      /\ call'[c].pc = "done" /\ \A d \in Callers : d # c => call'[d] = call[d]
  BY Stopped DEF Mark, MarkSucceeded, MarkFailedRetryable, histVars
<1>2. CASE MarkSucceeded(call[c].id, c, Expiry(c)) /\ ~call[c].failed /\ row' # row
  BY <1>1, <1>2 DEF MarkSucceeded, Rows
<1>3. CASE /\ MarkFailedRetryable(call[c].id, call[c].ended + Backoff, Expiry(c))
           /\ call[c].failed /\ row' # row
  BY <1>1, <1>3 DEF MarkFailedRetryable, Rows
<1> QED BY <1>1, <1>2, <1>3 DEF Mark

\* A claim makes the call the owner of the record.
LEMMA ClaimMoves ==
    ASSUME call \in [Callers -> Calls], NEW c \in Callers, NEW id, Claim(c, id)
    PROVE  /\ call'[c].pc = "execute" /\ call'[c].id = id /\ call'[c].now = call[c].now
           /\ call'[c].failures = call[c].failures /\ call'[c].ended = call[c].ended
           /\ call'[c].renewAt = IF c \in Detached THEN clock + RenewEvery ELSE 0
           /\ \A d \in Callers : d # c => call'[d] = call[d]
           /\ UNCHANGED <<clock, effects, partial, answers>>
           /\ born' = IF born = 0 THEN Now(c) ELSE born
BY DEF Claim, Calls

\* What follows from Timed.
LEMMA TimedFacts ==
    ASSUME Timed, TypeOK, NEW c \in Callers
    PROVE  /\ Slack(Spare(c)) \in Nat /\ Slack(MaxFailures) \in Nat
           /\ Slack(Spare(c)) <= Slack(MaxFailures)
           /\ ClaimTime < TTL /\ ClaimTime < Lease /\ CallTime < TTL
           /\ ClaimTime + RenewEvery + Slack(MaxFailures) < TTL
<1>1. MaxFailures \in Nat /\ RenewEvery \in Nat /\ ClaimTime \in Nat /\ TTL \in Nat
  BY ExecuteTimesAssumption, TimesAssumption
<1>2. Spare(c) \in Nat /\ Spare(c) <= MaxFailures
  BY <1>1 DEF TypeOK, Calls, Spare
<1>3. Slack(Spare(c)) \in Nat /\ Slack(MaxFailures) \in Nat /\ Slack(Spare(c)) <= Slack(MaxFailures)
  BY <1>1, <1>2, SlackGrows
<1> QED BY <1>1, <1>3 DEF Timed

\* A claim in time is locked and lives long enough.
LEMMA ClaimLease ==
    ASSUME Timed, IndInv, LeaseInv, ~late, NEW c \in Callers, call[c].pc \in Claiming,
           \A d \in Callers : ~Active(d),
           Claim(c, row'.id), row'.status = "processing",
           row'.expiresAt = Now(c) + TTL, row'.lockedUntil = Now(c) + Lease
    PROVE  LeaseInv'
<1>1. /\ call'[c].pc = "execute" /\ call'[c].id = row'.id /\ call'[c].now = call[c].now
      /\ call'[c].failures = call[c].failures
      /\ call'[c].renewAt = IF c \in Detached THEN clock + RenewEvery ELSE 0
      /\ clock' = clock /\ \A d \in Callers : d # c => call'[d] = call[d]
  BY ClaimMoves DEF IndInv, TypeOK
<1>2. clock <= Now(c) + ClaimTime
  BY DEF LeaseInv
<1>3. /\ clock \in Nat /\ call[c].now \in Nat /\ ClaimTime \in Nat /\ TTL \in Nat /\ Lease \in Nat
      /\ RenewEvery \in Nat \ {0} /\ \A d \in Callers : call[d].now \in Nat
  BY ExecuteTimesAssumption, TimesAssumption DEF IndInv, TypeOK, RecordTypeOK, Calls
<1>4. /\ Slack(Spare(c)) \in Nat /\ Slack(MaxFailures) \in Nat
      /\ Slack(Spare(c)) <= Slack(MaxFailures) /\ ClaimTime < TTL /\ ClaimTime < Lease
      /\ ClaimTime + RenewEvery + Slack(MaxFailures) < TTL
  BY TimedFacts DEF IndInv
<1>5. Spare(c)' = Spare(c)
  BY <1>1 DEF Spare
<1>6. \A d \in Callers : Active(d)' => d = c
  BY <1>1 DEF Active
<1>7. row'.expiresAt > clock'
  BY <1>1, <1>2, <1>3, <1>4 DEF Now
<1>8. c \in Detached => /\ call'[c].renewAt # 0 /\ clock' <= call'[c].renewAt
                        /\ row'.expiresAt > call'[c].renewAt + Slack(Spare(c)')
  <2>1. Now(c) + TTL > clock + RenewEvery + Slack(Spare(c))
    BY <1>2, <1>3, <1>4 DEF Now
  <2> QED BY <2>1, <1>1, <1>3, <1>5
<1>9. ASSUME NEW d \in Callers, At(d, "reclaimExpired")' PROVE Locked(row, Now(d))'
  <2>1. call'[d].now <= clock
    BY <1>1, <1>9 DEF IndInv, KnownInv, At, Now
  <2> QED BY <2>1, <1>1, <1>2, <1>3, <1>4, <1>9 DEF Locked, Now, At
<1>10. Alone'
  BY <1>1, <1>6 DEF Alone
<1>11. \A d \in Callers : call'[d].pc \in Claiming => clock' <= Now(d)' + ClaimTime
  BY <1>1 DEF LeaseInv, Now, Claiming
<1>12. row'.expiresAt >= Now(c)' + TTL
  BY <1>1, <1>3 DEF Now
<1> QED BY <1>6, <1>7, <1>8, <1>9, <1>10, <1>11, <1>12 DEF LeaseInv

\* A renewal that fails leaves time for those that may still fail.
LEMMA RenewFailsLease ==
    ASSUME Timed, IndInv, LeaseInv, NEW c \in Callers, RenewFails(c), ~late'
    PROVE  LeaseInv'
<1> DEFINE f == call[c].failures
           r == call[c].renewAt
<1>1. call \in [Callers -> Calls] /\ clock \in Nat /\ r \in Nat /\ f \in 0..MaxFailures
  BY TimesAssumption DEF IndInv, TypeOK, RecordTypeOK, Calls
<1>2. MaxFailures \in Nat /\ RenewEvery \in Nat \ {0}
  BY ExecuteTimesAssumption
<1>3. ~late /\ f # MaxFailures
  <2>1. late' = (late \/ f = MaxFailures)
    BY DEF RenewFails
  <2> QED BY <2>1, Zenon
<1>4. f < MaxFailures
  BY <1>1, <1>2, <1>3
<1>5. /\ call'[c].renewAt = clock + RenewEvery /\ call'[c].pc = call[c].pc
      /\ call'[c].id = call[c].id /\ call'[c].failures = f + 1 /\ call'[c].now = call[c].now
      /\ \A d \in Callers : d # c => call'[d] = call[d]
  BY <1>1, <1>4 DEF RenewFails, Calls
<1>6. UNCHANGED recordVars /\ r # 0 /\ r <= clock
  BY DEF RenewFails, Due, Unwritten
<1>7. Active(c) /\ c \in Detached
  BY <1>6 DEF IndInv, KnownInv
<1>8. r = clock
  <2>1. clock <= r
    BY <1>3, <1>7 DEF LeaseInv
  <2> QED BY <2>1, <1>1, <1>6
<1>9. Slack(Spare(c)) = Slack(Spare(c)') + RenewEvery /\ Slack(Spare(c)') \in Nat
  <2>1. Spare(c) = MaxFailures - f /\ Spare(c)' = MaxFailures - (f + 1)
    BY <1>5 DEF Spare
  <2>2. MaxFailures - (f + 1) \in Nat /\ MaxFailures - f = (MaxFailures - (f + 1)) + 1
    BY <1>1, <1>2, <1>4
  <2> QED BY <2>1, <2>2, SlackGrows
<1>10. row.expiresAt > (clock + RenewEvery) + Slack(Spare(c)')
  <2>1. row.expiresAt > clock + Slack(Spare(c))
    BY <1>3, <1>7, <1>8 DEF LeaseInv
  <2>2. row.expiresAt \in Nat
    BY DEF IndInv, TypeOK, RecordTypeOK, Rows
  <2> QED BY <2>1, <2>2, <1>1, <1>2, <1>9
<1>11. /\ \A d \in Callers : Active(d)' => Active(d)
       /\ \A d \in Callers : call'[d].pc = call[d].pc /\ call'[d].id = call[d].id
                            /\ call'[d].now = call[d].now /\ call'[d].from = call[d].from
  <2>1. call'[c].from = call[c].from
    BY <1>1, <1>4 DEF RenewFails, Calls
  <2> QED BY <2>1, <1>5 DEF Active
<1>12. clock' <= call'[c].renewAt /\ call'[c].renewAt # 0
  BY <1>1, <1>2, <1>5, <1>6 DEF recordVars
<1>13. \A d \in Callers : d # c => Spare(d)' = Spare(d)
  BY <1>5 DEF Spare
<1>14. \A d \in Callers : Active(d) => d = c
  BY <1>3, <1>7 DEF LeaseInv, Alone
<1>15. row' = row /\ clock' = clock
  BY <1>6 DEF recordVars
<1>16. Alone'
  BY <1>3, <1>11, <1>15 DEF LeaseInv, Alone, Active
<1>17. \A d \in Callers : call'[d].pc \in Claiming => clock' <= Now(d)' + ClaimTime
  BY <1>3, <1>11, <1>15 DEF LeaseInv, Now
<1>18. /\ row'.expiresAt > clock'
       /\ row'.expiresAt > call'[c].renewAt + Slack(Spare(c)')
       /\ \A d \in Callers :
            At(d, "reclaimExpired")' /\ call'[d].id = row'.id /\ call'[d].from = "processing"
              => Locked(row, Now(d))'
  <2>1. row'.expiresAt > clock'
    BY <1>3, <1>7, <1>15 DEF LeaseInv
  <2>2. row'.expiresAt > call'[c].renewAt + Slack(Spare(c)')
    BY <1>5, <1>10, <1>15
  <2>3. ASSUME NEW d \in Callers, At(d, "reclaimExpired")', call'[d].id = row'.id,
               call'[d].from = "processing"
        PROVE  Locked(row, Now(d))'
    <3>1. At(d, "reclaimExpired") /\ call[d].id = row.id /\ call[d].from = "processing"
      BY <1>11, <1>15, <2>3 DEF At
    <3>2. Locked(row, Now(d))
      BY <1>3, <1>7, <3>1 DEF LeaseInv
    <3> QED BY <1>11, <1>15, <3>2 DEF Locked, Now
  <2> QED BY <2>1, <2>2, <2>3
<1> QED BY <1>7, <1>11, <1>12, <1>14, <1>16, <1>17, <1>18 DEF LeaseInv

\* What a call does that reads the record: it returns, or goes on to reclaim.
LEMMA Gets ==
    ASSUME TypeOK, NEW c \in Callers, Advance(c), GetExisting(c) \/ GetLatest(c)
    PROVE  /\ call[c].pc \in {"get", "getLatest"} /\ Exists
           /\ row.fingerprint = fingerprint[c]
           /\ UNCHANGED <<clock, row, lastId, fingerprint, late, effects, partial, born>>
           /\ \/ UNCHANGED answers
              \/ answers' = [answers EXCEPT ![c] = row.response]
           /\ \A d \in Callers : d # c => call'[d] = call[d]
           /\ \/ /\ call'[c].pc = "done" /\ call'[c].now = 0 /\ call'[c].ended = 0
                 /\ call'[c].renewAt = 0
              \/ /\ call'[c].pc \in {"reclaimExpired", "reclaimFailed"}
                 /\ call'[c].id = row.id /\ call'[c].now = call[c].now
                 /\ call'[c].ended = call[c].ended /\ call'[c].renewAt = call[c].renewAt
                 /\ call'[c].pc = "reclaimExpired" => Expired(row, Now(c))
<1>1. call \in [Callers -> Calls] /\ UNCHANGED <<fingerprint, late>>
  BY DEF TypeOK, Advance
<1>2. /\ call[c].pc \in {"get", "getLatest"} /\ Exists /\ row.fingerprint = fingerprint[c]
  BY DEF GetExisting, GetLatest, Mismatch, At
<1>3. \/ Answer(c)
      \/ Expired(row, Now(c)) /\ Read(c, "reclaimExpired") /\ Unwritten
  BY DEF GetExisting, GetLatest
<1>4. /\ UNCHANGED <<clock, row, lastId, effects, partial, born>>
      /\ \/ UNCHANGED answers
         \/ answers' = [answers EXCEPT ![c] = row.response]
  BY <1>3, AnswerCases DEF recordVars, Unwritten, histVars
<1>5. CASE Stop(c)
  BY <1>1, <1>2, <1>4, <1>5, Stopped
<1>6. CASE \E s \in {"reclaimExpired", "reclaimFailed"} :
             Read(c, s) /\ (s = "reclaimExpired" => Expired(row, Now(c)))
  <2>1. PICK s \in {"reclaimExpired", "reclaimFailed"} :
              Read(c, s) /\ (s = "reclaimExpired" => Expired(row, Now(c)))
    BY <1>6
  <2>2. /\ call'[c].pc = s /\ call'[c].id = row.id /\ call'[c].now = call[c].now
        /\ call'[c].ended = call[c].ended /\ call'[c].renewAt = call[c].renewAt
        /\ \A d \in Callers : d # c => call'[d] = call[d]
    BY <1>1, <2>1, HasRead
  <2> QED BY <1>1, <1>2, <1>4, <2>1, <2>2
<1> QED BY <1>3, <1>5, <1>6, AnswerCases

\* The reads preserve what the calls know.
LEMMA KnownGets ==
    ASSUME TypeOK, KnownInv, NEW c \in Callers, Advance(c), GetExisting(c) \/ GetLatest(c)
    PROVE  KnownInv'
<1>1. row.id \in 1..lastId
  BY Gets DEF Exists, TypeOK, RecordTypeOK, Rows, NoRow
<1>2. /\ call[c].renewAt = 0 /\ call[c].now > 0 /\ call[c].now <= clock /\ 0 <= clock
      /\ call[c].ended <= clock
  BY Gets, TimesAssumption DEF KnownInv, Active, TypeOK, RecordTypeOK, Now
<1>3. UNCHANGED <<clock, lastId, born>> /\ \A d \in Callers : d # c => call'[d] = call[d]
  BY Gets
<1>4. /\ Knows(c)' => call'[c].id \in 1..lastId
      /\ call'[c].renewAt # 0 => Active(c)' /\ c \in Detached
      /\ call'[c].now <= clock /\ call'[c].ended <= clock
      /\ call'[c].pc \notin {"idle", "done"} => call'[c].now > 0
  BY <1>1, <1>2, Gets DEF Knows, Active
<1> QED BY <1>3, <1>4, KnownMoves

\* A read returns the outcome of a call with the same request.
LEMMA OwnGets ==
    ASSUME TypeOK, OwnInv, NEW c \in Callers, Advance(c), GetExisting(c) \/ GetLatest(c)
    PROVE  OwnInv'
<1>1. /\ UNCHANGED <<row, fingerprint, effects>> /\ row.fingerprint = fingerprint[c]
      /\ ~At(c, "mark")' /\ \A d \in Callers : d # c => call'[d] = call[d]
  BY Gets DEF At
<1>2. \A d \in Callers : d # c => (Knows(d)' <=> Knows(d)) /\ (At(d, "mark")' <=> At(d, "mark"))
  BY <1>1 DEF Knows, Active, At
<1>3. ReplayedOwnRequest'
  <2>1. answers \in [Callers -> Callers \cup {Nobody}]
    BY DEF TypeOK
  <2>2. CASE UNCHANGED answers
    BY <1>1, <2>2 DEF OwnInv, ReplayedOwnRequest
  <2>3. CASE answers' = [answers EXCEPT ![c] = row.response]
    BY <1>1, <2>1, <2>3 DEF OwnInv, ReplayedOwnRequest
  <2> QED BY <2>2, <2>3, Gets
<1> QED BY <1>1, <1>2, <1>3 DEF OwnInv

\* Within the TTL of the first claim a read does not find the record expired.
LEMMA WindowGets ==
    ASSUME TypeOK, KnownInv, WindowInv, NEW c \in Callers, Advance(c),
           GetExisting(c) \/ GetLatest(c)
    PROVE  WindowInv'
<1>1. /\ UNCHANGED <<clock, row, effects, born>> /\ Exists
      /\ ~Active(c)' /\ ~At(c, "mark")' /\ \A d \in Callers : d # c => call'[d] = call[d]
      /\ At(c, "reclaimExpired")' => Expired(row, Now(c))
  BY Gets DEF At, Active
<1>2. \A d \in Callers : d # c => /\ Active(d)' <=> Active(d)
                                  /\ At(d, "mark")' <=> At(d, "mark")
                                  /\ At(d, "reclaimExpired")' <=> At(d, "reclaimExpired")
  BY <1>1 DEF Active, At
<1>3. born # 0
  BY <1>1 DEF WindowInv
<1>4. ASSUME clock < born + TTL PROVE ~At(c, "reclaimExpired")'
  <2>1. row.expiresAt >= born + TTL
    BY <1>3, <1>4 DEF WindowInv
  <2>2. Now(c) <= clock
    BY DEF KnownInv
  <2>3. /\ row.expiresAt \in Nat /\ Now(c) \in Nat /\ clock \in Nat /\ born \in Nat /\ TTL \in Nat
    BY TimesAssumption DEF TypeOK, RecordTypeOK, Rows, Calls, Now
  <2> QED BY <1>1, <1>4, <2>1, <2>2, <2>3 DEF Expired
<1>5. CASE ~(clock < born + TTL)
  BY <1>1, <1>3, <1>5 DEF WindowInv
<1>6. CASE clock < born + TTL
  <2>1. Alone'
    BY <1>1, <1>2, <1>3, <1>6 DEF WindowInv, Alone
  <2>2. /\ \A d \in Callers : ~At(d, "reclaimExpired")'
        /\ \A d \in Callers : Active(d)' => Now(d)' >= born'
        /\ \A d \in Callers : At(d, "mark")' => call'[d].ended >= born'
    BY <1>1, <1>2, <1>3, <1>4, <1>6 DEF WindowInv, Now
  <2>3. effects' # {} => /\ row'.status # "failed_retryable"
                         /\ \A d \in Callers : Active(d)' => At(d, "mark")' /\ ~call'[d].failed
    BY <1>1, <1>2, <1>3, <1>6 DEF WindowInv
  <2>4. /\ Exists' /\ row'.expiresAt >= born' + TTL
        /\ row'.status = "failed_retryable" => row'.lockedUntil >= born'
        /\ \A d, e \in effects' : d = e
    BY <1>1, <1>3, <1>6 DEF WindowInv, Exists
  <2> QED BY <1>1, <1>3, <2>1, <2>2, <2>3, <2>4 DEF WindowInv
<1> QED BY <1>5, <1>6

\* While a timely call runs, a read does not find its record expired.
LEMMA LeaseGets ==
    ASSUME TypeOK, KnownInv, LeaseInv, NEW c \in Callers, Advance(c),
           GetExisting(c) \/ GetLatest(c)
    PROVE  LeaseInv'
<1>1. /\ UNCHANGED <<clock, row, late>> /\ ~Active(c)' /\ call[c].pc \in Claiming
      /\ \A d \in Callers : d # c => call'[d] = call[d]
      /\ At(c, "reclaimExpired")' => Expired(row, Now(c))
      /\ call'[c].pc \in Claiming => call'[c].now = call[c].now
  BY Gets DEF At, Active, Claiming
<1>2. \A d \in Callers : d # c => /\ Active(d)' <=> Active(d)
                                  /\ At(d, "reclaimExpired")' <=> At(d, "reclaimExpired")
                                  /\ Spare(d)' = Spare(d) /\ Now(d)' = Now(d)
  BY <1>1 DEF Active, At, Spare, Now
<1>3. CASE late
  BY <1>1, <1>3 DEF LeaseInv
<1>4. CASE ~late
  <2>1. /\ Alone
        /\ \A d \in Callers : call[d].pc \in Claiming => clock <= Now(d) + ClaimTime
        /\ \A d \in Callers : Active(d) =>
             /\ row.expiresAt > clock
             /\ d \notin Detached => row.expiresAt >= Now(d) + TTL
             /\ d \in Detached => /\ call[d].renewAt # 0 /\ clock <= call[d].renewAt
                                  /\ row.expiresAt > call[d].renewAt + Slack(Spare(d))
             /\ \A e \in Callers :
                  At(e, "reclaimExpired") /\ call[e].id = row.id /\ call[e].from = "processing"
                    => Locked(row, Now(e))
    BY <1>4 DEF LeaseInv
  <2>2. \A d \in Callers : call'[d].pc \in Claiming => clock' <= Now(d)' + ClaimTime
    BY <1>1, <1>2, <2>1 DEF Now
  <2>3. Alone'
    BY <1>1, <1>2, <2>1 DEF Alone
  <2>4. (\E d \in Callers : Active(d)) => ~At(c, "reclaimExpired")'
    <3>1. /\ row.expiresAt \in Nat /\ Now(c) \in Nat /\ clock \in Nat /\ ClaimTime \in Nat
      BY TimesAssumption, ExecuteTimesAssumption DEF TypeOK, RecordTypeOK, Rows, Calls, Now
    <3>2. Now(c) <= clock
      BY DEF KnownInv
    <3> QED BY <1>1, <2>1, <3>1, <3>2 DEF Expired
  <2>5. ASSUME NEW d \in Callers, Active(d)'
        PROVE  /\ row'.expiresAt > clock'
               /\ d \notin Detached => row'.expiresAt >= Now(d)' + TTL
               /\ d \in Detached => /\ call'[d].renewAt # 0 /\ clock' <= call'[d].renewAt
                                    /\ row'.expiresAt > call'[d].renewAt + Slack(Spare(d)')
    <3>1. d # c /\ Active(d)
      BY <1>1, <1>2, <2>5
    <3> QED BY <1>1, <1>2, <2>1, <3>1
  <2>6. ASSUME NEW d \in Callers, Active(d)', NEW e \in Callers, At(e, "reclaimExpired")',
               call'[e].id = row'.id, call'[e].from = "processing"
        PROVE  Locked(row, Now(e))'
    <3>1. d # c /\ Active(d) /\ e # c
      BY <1>1, <1>2, <2>4, <2>6
    <3>2. Locked(row, Now(e))
      BY <1>1, <1>2, <2>1, <2>6, <3>1
    <3> QED BY <1>1, <1>2, <3>1, <3>2 DEF Locked
  <2> QED BY <2>2, <2>3, <2>5, <2>6 DEF LeaseInv
<1> QED BY <1>3, <1>4

\* A claim leaves a call that knows the record that is now.
LEMMA KnownClaims ==
    ASSUME TypeOK, KnownInv, NEW c \in Callers, call[c].pc \in Claiming,
           Claim(c, row'.id), row'.id \in 1..lastId', lastId' \in Nat, lastId <= lastId'
    PROVE  KnownInv'
<1>1. /\ call'[c].pc = "execute" /\ call'[c].id = row'.id /\ call'[c].now = call[c].now
      /\ call'[c].ended = call[c].ended /\ UNCHANGED clock
      /\ call'[c].renewAt # 0 => c \in Detached
      /\ \A d \in Callers : d # c => call'[d] = call[d]
      /\ born' = IF born = 0 THEN Now(c) ELSE born
  BY ClaimMoves DEF TypeOK
<1>2. call[c].now <= clock /\ call[c].now > 0 /\ call[c].ended <= clock /\ born <= clock
  BY DEF KnownInv, Claiming, Now
<1>3. ASSUME NEW d \in Callers, d # c, Knows(d)' PROVE call'[d].id \in 1..lastId'
  <2>1. Knows(d) /\ call'[d] = call[d]
    BY <1>1, <1>3 DEF Knows, Active
  <2>2. call[d].id \in 1..lastId /\ lastId \in Nat
    BY <2>1 DEF KnownInv, TypeOK, RecordTypeOK
  <2> QED BY <2>1, <2>2
<1>4. \A d \in Callers : Knows(d)' => call'[d].id \in 1..lastId'
  BY <1>1, <1>3
<1>5. \A d \in Callers : call'[d].renewAt # 0 => Active(d)' /\ d \in Detached
  BY <1>1 DEF KnownInv, Active
<1>6. \A d \in Callers : /\ Now(d)' <= clock' /\ call'[d].ended <= clock'
                         /\ call'[d].pc \notin {"idle", "done"} => Now(d)' > 0
  BY <1>1, <1>2 DEF KnownInv, Now
<1>7. born' <= clock'
  BY <1>1, <1>2 DEF Now
<1> QED BY <1>4, <1>5, <1>6, <1>7 DEF KnownInv

\* What the calls know.
LEMMA KnownStep ==
    ASSUME IndInv, TypeOK', [Next]_vars
    PROVE  KnownInv'
<1>1. ASSUME NEW c \in Callers, Advance(c), GetExisting(c) \/ GetLatest(c) PROVE KnownInv'
  BY <1>1, KnownGets DEF IndInv
<1>2. ASSUME NEW c \in Callers, Advance(c), Execute(c) PROVE KnownInv'
  <2>1. /\ call'[c].pc = "mark" /\ call'[c].id = call[c].id /\ call'[c].now = call[c].now
        /\ call'[c].ended = clock /\ call'[c].renewAt = call[c].renewAt
        /\ call[c].pc = "execute" /\ UNCHANGED recordVars /\ UNCHANGED born
        /\ \A d \in Callers : d # c => call'[d] = call[d]
    BY <1>2, HasExecuted DEF IndInv, TypeOK
  <2>2. UNCHANGED <<clock, lastId, born>> /\ clock \in Nat
    BY <2>1, TimesAssumption DEF recordVars, IndInv, TypeOK, RecordTypeOK
  <2>3. /\ call[c].id \in 1..lastId /\ call[c].now > 0 /\ call[c].now <= clock
        /\ call[c].renewAt # 0 => c \in Detached
    BY <2>1 DEF IndInv, KnownInv, Knows, Active, Now
  <2>4. Active(c)'
    BY <2>1 DEF Active
  <2> QED BY <2>1, <2>2, <2>3, <2>4, KnownMoves DEF IndInv
<1> USE TimesAssumption, ExecuteTimesAssumption
        DEF IndInv, TypeOK, RecordTypeOK, KnownInv, Knows, Active, Calls, Rows, Unwritten,
            recordVars, histVars, At, Now, Exists, NoRow, Idle, Claiming
<1>3. ASSUME NEW c \in Callers, Advance(c), ~GetExisting(c), ~GetLatest(c), ~Execute(c)
      PROVE  KnownInv'
  <2>1. CASE StartExecute(c)
    BY <1>3, <2>1 DEF Advance, StartExecute
  <2>2. CASE Create(c)
    <3>1. row'.id = lastId + 1 /\ lastId' = lastId + 1
      BY <2>2 DEF Create, CreateProcessing
    <3> QED BY <3>1, <2>2, KnownClaims DEF Create
  <2>3. CASE CreateConflicts(c)
    BY <1>3, <2>3 DEF Advance, CreateConflicts, GoTo
  <2>4. CASE GetMismatch(c)
    BY <1>3, <2>4 DEF Advance, GetMismatch, Stop
  <2>5. CASE ReclaimExpired(c)
    <3>1. row'.id = row.id /\ row.id = call[c].id /\ UNCHANGED lastId
      BY <2>5 DEF ReclaimExpired, TryReclaim, Reclaimable
    <3>2. Claim(c, row'.id) /\ row'.id \in 1..lastId'
      BY <3>1, <2>5 DEF ReclaimExpired
    <3> QED BY <3>1, <3>2, <2>5, KnownClaims DEF ReclaimExpired
  <2>6. CASE ReclaimExpiredMisses(c)
    BY <1>3, <2>6 DEF Advance, ReclaimExpiredMisses, GoTo
  <2>7. CASE ReclaimFailed(c)
    <3>1. row'.id = row.id /\ row.id = call[c].id /\ UNCHANGED lastId
      BY <2>7 DEF ReclaimFailed, TryReclaim, Reclaimable
    <3>2. Claim(c, row'.id) /\ row'.id \in 1..lastId'
      BY <3>1, <2>7 DEF ReclaimFailed
    <3> QED BY <3>1, <3>2, <2>7, KnownClaims DEF ReclaimFailed
  <2>8. CASE ReclaimFailedMisses(c)
    BY <1>3, <2>8 DEF Advance, ReclaimFailedMisses, Stop
  <2>9. CASE StoreFails(c)
    BY <1>3, <2>9 DEF Advance, StoreFails, Stop
  <2>10. CASE Mark(c)
    BY <1>3, <2>10 DEF Advance, Mark, MarkSucceeded, MarkFailedRetryable, Stop, Expiry
  <2>11. CASE Die(c)
    BY <1>3, <2>11 DEF Advance, Die, Stop
  <2>12. CASE Renew(c)
    BY <1>3, <2>12 DEF Advance, Renew, ExtendProcessingLock, Extendable, Due
  <2>13. CASE RenewEnds(c)
    BY <1>3, <2>13 DEF Advance, RenewEnds, Due
  <2> QED BY <1>3, <2>1, <2>2, <2>3, <2>4, <2>5, <2>6, <2>7,
             <2>8, <2>9, <2>10, <2>11, <2>12, <2>13 DEF Advance
<1>4. ASSUME NEW c \in Callers, RenewFails(c) PROVE KnownInv'
  <2>1. /\ call'[c].pc = call[c].pc /\ call'[c].id = call[c].id /\ call'[c].now = call[c].now
        /\ call'[c].ended = call[c].ended /\ \A d \in Callers : d # c => call'[d] = call[d]
        /\ UNCHANGED <<clock, lastId, born>> /\ call[c].renewAt # 0
    BY <1>4 DEF RenewFails, Due
  <2> QED BY <2>1
<1>5. CASE Cleanup
  BY <1>5 DEF Cleanup, DeleteExpired, Expired
<1>6. CASE Wait
  BY <1>6 DEF Wait, Tick
<1>7. CASE UNCHANGED vars
  BY <1>7 DEF vars
<1> QED BY <1>1, <1>2, <1>3, <1>4, <1>5, <1>6, <1>7 DEF Next

\* Whose the record is.
LEMMA OwnStep ==
    ASSUME IndInv, [Next]_vars
    PROVE  OwnInv'
<1>1. ASSUME NEW c \in Callers, Advance(c), GetExisting(c) \/ GetLatest(c) PROVE OwnInv'
  BY <1>1, OwnGets DEF IndInv
<1>2. ASSUME NEW c \in Callers, Advance(c), Execute(c) PROVE OwnInv'
  <2>1. PICK error \in BOOLEAN :
          /\ effects' = IF error THEN effects ELSE effects \cup {c}
          /\ call'[c].pc = "mark" /\ call'[c].failed = error /\ call'[c].id = call[c].id
          /\ \A d \in Callers : d # c => call'[d] = call[d]
          /\ call[c].pc = "execute" /\ UNCHANGED <<recordVars, answers>>
    BY <1>2, HasExecuted DEF IndInv, TypeOK
  <2>2. effects \subseteq effects' /\ (~error => c \in effects')
    BY <2>1
  <2>3. UNCHANGED <<row, answers, fingerprint>>
    BY <1>2, <2>1 DEF Advance, recordVars
  <2>4. \A d \in Callers : Knows(d)' => Knows(d) /\ call'[d].id = call[d].id
    BY <2>1 DEF Knows, Active
  <2>5. \A d \in Callers : At(d, "mark")' /\ ~call'[d].failed => d \in effects'
    BY <2>1, <2>2 DEF At, IndInv, OwnInv
  <2>6. ReplayedOwnRequest'
    BY <2>2, <2>3 DEF IndInv, OwnInv, ReplayedOwnRequest
  <2> QED BY <2>2, <2>3, <2>4, <2>5, <2>6 DEF IndInv, OwnInv
<1> USE TimesAssumption, ExecuteTimesAssumption, NobodyAssumption
        DEF IndInv, TypeOK, RecordTypeOK, KnownInv, OwnInv, ReplayedOwnRequest, Knows,
            Active, Calls, Rows, Unwritten, recordVars, histVars, At, Now, Exists, NoRow,
            Idle, Claiming
<1>3. ASSUME NEW c \in Callers, Advance(c), ~GetExisting(c), ~GetLatest(c), ~Execute(c)
      PROVE  OwnInv'
  <2>1. CASE StartExecute(c)
    BY <1>3, <2>1 DEF Advance, StartExecute
  <2>2. CASE Create(c)
    BY <1>3, <2>2 DEF Advance, Create, Claim, CreateProcessing
  <2>3. CASE CreateConflicts(c)
    BY <1>3, <2>3 DEF Advance, CreateConflicts, GoTo
  <2>4. CASE GetMismatch(c)
    BY <1>3, <2>4 DEF Advance, GetMismatch, Stop
  <2>5. CASE ReclaimExpired(c)
    <3>1. Claim(c, call[c].id) /\ UNCHANGED <<lastId, fingerprint>>
          /\ row'.id = row.id /\ row'.fingerprint = row.fingerprint /\ row'.response = row.response
      BY <1>3, <2>5 DEF Advance, ReclaimExpired, TryReclaim
    <3>2. /\ call'[c].pc = "execute" /\ call'[c].id = call[c].id /\ call'[c].now = call[c].now
          /\ call'[c].ended = call[c].ended
          /\ call'[c].renewAt = IF c \in Detached THEN clock + RenewEvery ELSE 0
          /\ \A d \in Callers : d # c => call'[d] = call[d]
          /\ UNCHANGED <<clock, effects, partial, answers>> /\ born' = IF born = 0 THEN Now(c) ELSE born
      BY <3>1, ClaimMoves
    <3>3. Knows(c)
      BY <2>5 DEF ReclaimExpired
    <3> QED BY <3>1, <3>2, <3>3
  <2>6. CASE ReclaimExpiredMisses(c)
    BY <1>3, <2>6 DEF Advance, ReclaimExpiredMisses, GoTo
  <2>7. CASE ReclaimFailed(c)
    <3>1. Claim(c, call[c].id) /\ UNCHANGED <<lastId, fingerprint>>
          /\ row'.id = row.id /\ row'.fingerprint = row.fingerprint /\ row'.response = row.response
      BY <1>3, <2>7 DEF Advance, ReclaimFailed, TryReclaim
    <3>2. /\ call'[c].pc = "execute" /\ call'[c].id = call[c].id /\ call'[c].now = call[c].now
          /\ call'[c].ended = call[c].ended
          /\ call'[c].renewAt = IF c \in Detached THEN clock + RenewEvery ELSE 0
          /\ \A d \in Callers : d # c => call'[d] = call[d]
          /\ UNCHANGED <<clock, effects, partial, answers>> /\ born' = IF born = 0 THEN Now(c) ELSE born
      BY <3>1, ClaimMoves
    <3>3. Knows(c)
      BY <2>7 DEF ReclaimFailed
    <3> QED BY <3>1, <3>2, <3>3
  <2>8. CASE ReclaimFailedMisses(c)
    BY <1>3, <2>8 DEF Advance, ReclaimFailedMisses, Stop
  <2>9. CASE StoreFails(c)
    BY <1>3, <2>9 DEF Advance, StoreFails, Stop
  <2>10. CASE Mark(c)
    <3>1. /\ \A d \in Callers : d # c => call'[d] = call[d]
          /\ ~Knows(c)' /\ ~At(c, "mark")'
          /\ UNCHANGED <<effects, answers, fingerprint>>
      BY <1>3, <2>10, Stopped DEF Mark, Advance
    <3>2. row'.id = row.id /\ row'.fingerprint = row.fingerprint
      BY <2>10, MarkCases
    <3>3. CASE row'.response = row.response
      BY <3>1, <3>2, <3>3
    <3>4. CASE row'.response # row.response
      <4>1. row'.response = c /\ row.id = call[c].id /\ ~call[c].failed /\ At(c, "mark")
        BY <3>4, <2>10, MarkCases
      <4> QED BY <3>1, <3>2, <4>1
    <3> QED BY <3>3, <3>4
  <2>11. CASE Die(c)
    BY <1>3, <2>11 DEF Advance, Die, Stop
  <2>12. CASE Renew(c)
    BY <1>3, <2>12 DEF Advance, Renew, ExtendProcessingLock, Extendable, Due
  <2>13. CASE RenewEnds(c)
    BY <1>3, <2>13 DEF Advance, RenewEnds, Due
  <2> QED BY <1>3, <2>1, <2>2, <2>3, <2>4, <2>5, <2>6, <2>7,
             <2>8, <2>9, <2>10, <2>11, <2>12, <2>13 DEF Advance
<1>4. ASSUME NEW c \in Callers, RenewFails(c) PROVE OwnInv'
  BY <1>4 DEF RenewFails, Due
<1>5. CASE Cleanup
  BY <1>5 DEF Cleanup, DeleteExpired, Expired
<1>6. CASE Wait
  BY <1>6 DEF Wait, Tick
<1>7. CASE UNCHANGED vars
  BY <1>7 DEF vars
<1> QED BY <1>1, <1>2, <1>3, <1>4, <1>5, <1>6, <1>7 DEF Next

\* A call that stops leaves the window as it is.
LEMMA WindowKept ==
    ASSUME WindowInv, UNCHANGED <<clock, row, effects, born>>,
           \A d \in Callers : Knows(d)' => call'[d] = call[d]
    PROVE  WindowInv'
<1>1. \A d \in Callers : /\ Knows(d)' => Knows(d)
                         /\ Active(d)' => Active(d) /\ call'[d] = call[d]
                         /\ At(d, "mark")' => At(d, "mark") /\ call'[d] = call[d]
                         /\ At(d, "reclaimExpired")' => At(d, "reclaimExpired")
  BY DEF Knows, Active, At
<1>2. CASE born = 0
  BY <1>1, <1>2 DEF WindowInv, Exists
<1>3. CASE ~(clock < born + TTL) /\ born # 0
  BY <1>3 DEF WindowInv
<1>4. CASE clock < born + TTL /\ born # 0
  <2>1. Alone'
    BY <1>1, <1>4 DEF WindowInv, Alone
  <2>2. \A d \in Callers : /\ Active(d)' => Now(d)' >= born'
                           /\ At(d, "mark")' => call'[d].ended >= born'
                           /\ ~At(d, "reclaimExpired")'
    BY <1>1, <1>4 DEF WindowInv, Now
  <2>3. effects' # {} => /\ row'.status # "failed_retryable"
                         /\ \A d \in Callers : Active(d)' => At(d, "mark")' /\ ~call'[d].failed
    BY <1>1, <1>4 DEF WindowInv, At
  <2> QED BY <1>4, <2>1, <2>2, <2>3 DEF WindowInv, Exists
<1> QED BY <1>2, <1>3, <1>4

\* Within the TTL of the first claim.
LEMMA WindowStep ==
    ASSUME IndInv, [Next]_vars
    PROVE  WindowInv'
<1>1. ASSUME NEW c \in Callers, Advance(c), GetExisting(c) \/ GetLatest(c) PROVE WindowInv'
  BY <1>1, WindowGets DEF IndInv
<1>2. ASSUME NEW c \in Callers, Advance(c), Execute(c) PROVE WindowInv'
  <2>1. PICK error \in BOOLEAN :
          /\ effects' = IF error THEN effects ELSE effects \cup {c}
          /\ call'[c].pc = "mark" /\ call'[c].failed = error /\ call'[c].ended = clock
          /\ call'[c].id = call[c].id /\ call'[c].now = call[c].now
          /\ \A d \in Callers : d # c => call'[d] = call[d]
          /\ call[c].pc = "execute" /\ UNCHANGED <<recordVars, born>>
    BY <1>2, HasExecuted DEF IndInv, TypeOK
  <2>2. UNCHANGED <<clock, row, born>> /\ born <= clock
    BY <2>1 DEF recordVars, IndInv, KnownInv
  <2>3. Active(c) /\ Active(c)' /\ \A d \in Callers : Active(d)' <=> Active(d)
    BY <2>1 DEF Active
  <2>4. born # 0
    BY <2>3 DEF IndInv, WindowInv, Knows
  <2>5. CASE ~(clock < born + TTL)
    BY <2>2, <2>4, <2>5 DEF WindowInv
  <2>6. CASE clock < born + TTL
    <3>1. effects = {}
      BY <2>1, <2>3, <2>4, <2>6 DEF IndInv, WindowInv, At
    <3>2. \A d \in Callers : Active(d) => d = c
      BY <2>3, <2>4, <2>6 DEF IndInv, WindowInv, Alone
    <3>3. Alone' /\ row.status = "processing"
      BY <2>1, <2>2, <2>3, <2>4, <2>6 DEF IndInv, WindowInv, Alone
    <3>4. /\ \A d \in Callers : Active(d)' => Now(d)' >= born'
          /\ \A d \in Callers : At(d, "mark")' => call'[d].ended >= born'
      <4>1. \A d \in Callers : At(d, "mark")' => d = c
        BY <2>3, <3>2 DEF At, Active
      <4>2. call'[c].ended >= born' /\ \A d \in Callers : Now(d)' = Now(d)
        <5>1. born \in Nat /\ clock \in Nat
          BY TimesAssumption DEF IndInv, TypeOK, RecordTypeOK
        <5> QED BY <2>1, <2>2, <5>1 DEF Now
      <4> QED BY <2>2, <2>3, <2>4, <2>6, <4>1, <4>2 DEF IndInv, WindowInv
    <3>5. effects' # {} => \A d \in Callers : Active(d)' => At(d, "mark")' /\ ~call'[d].failed
      BY <2>1, <2>3, <3>1, <3>2 DEF At
    <3>6. \A d, e \in effects' : d = e
      BY <2>1, <3>1
    <3>7. \A d \in Callers : ~At(d, "reclaimExpired")'
      BY <2>1, <2>4, <2>6 DEF IndInv, WindowInv, At
    <3>8. /\ Exists' /\ row'.expiresAt >= born' + TTL
          /\ row'.status # "failed_retryable"
      BY <2>2, <2>4, <2>6, <3>3 DEF IndInv, WindowInv, Exists
    <3> QED BY <2>2, <2>4, <3>3, <3>4, <3>5, <3>6, <3>7, <3>8 DEF WindowInv
  <2> QED BY <2>5, <2>6
<1> USE TimesAssumption, ExecuteTimesAssumption
        DEF IndInv, TypeOK, RecordTypeOK, KnownInv, WindowInv, Alone, Knows, Active, Calls,
            Rows, Expired, Locked, Unwritten, recordVars, histVars, At, Now, Exists, NoRow,
            Idle, Claiming
<1>3. ASSUME NEW c \in Callers, Advance(c), ~GetExisting(c), ~GetLatest(c), ~Execute(c)
      PROVE  WindowInv'
  <2>1. CASE StartExecute(c)
    BY <1>3, <2>1 DEF Advance, StartExecute
  <2>2. CASE Create(c)
    <3>1. /\ row'.id = lastId + 1 /\ row'.status = "processing" /\ row'.expiresAt = Now(c) + TTL
          /\ call'[c].pc = "execute" /\ call'[c].id = lastId + 1 /\ call'[c].now = call[c].now
          /\ \A d \in Callers : d # c => call'[d] = call[d]
          /\ UNCHANGED <<clock, effects>> /\ ~Exists
          /\ born' = IF born = 0 THEN Now(c) ELSE born
      BY <2>2 DEF Create, Claim, CreateProcessing
    <3>2. CASE born = 0
      <4>1. Now(c) > 0 /\ \A d \in Callers : Active(d)' => d = c
        BY <3>1, <3>2, <2>2 DEF Create
      <4> QED BY <3>1, <3>2, <4>1
    <3>3. CASE born # 0
      BY <3>1, <3>3
    <3> QED BY <3>2, <3>3
  <2>3. CASE CreateConflicts(c)
    BY <1>3, <2>3 DEF Advance, CreateConflicts, GoTo
  <2>4. CASE GetMismatch(c)
    BY <1>3, <2>4 DEF Advance, GetMismatch, Stop
  <2>5. CASE ReclaimExpired(c)
    BY <1>3, <2>5 DEF Advance, ReclaimExpired, Claim, TryReclaim, Reclaimable
  <2>6. CASE ReclaimExpiredMisses(c)
    BY <1>3, <2>6 DEF Advance, ReclaimExpiredMisses, GoTo
  <2>7. CASE ReclaimFailed(c)
    <3>1. /\ Claim(c, call[c].id) /\ row.status = "failed_retryable"
          /\ row'.id = row.id /\ row.id = call[c].id /\ ~Locked(row, Now(c))
          /\ row'.status = "processing" /\ row'.expiresAt = Now(c) + TTL
      BY <2>7 DEF ReclaimFailed, TryReclaim, Reclaimable
    <3>2. /\ call'[c].pc = "execute" /\ call'[c].id = call[c].id /\ call'[c].now = call[c].now
          /\ \A d \in Callers : d # c => call'[d] = call[d]
          /\ UNCHANGED <<clock, effects>> /\ born' = IF born = 0 THEN Now(c) ELSE born
      BY <3>1, ClaimMoves
    <3>3. born # 0 /\ born' = born
      BY <3>2, <2>7 DEF ReclaimFailed
    <3>4. CASE ~(clock < born + TTL)
      BY <3>2, <3>3, <3>4
    <3>5. CASE clock < born + TTL
      <4>1. /\ row.lockedUntil >= born /\ effects = {} /\ \A d \in Callers : ~Active(d)
            /\ Exists /\ \A d \in Callers : ~At(d, "reclaimExpired")
        BY <3>1, <3>3, <3>5
      <4>2. Now(c) >= born
        BY <3>1, <4>1
      <4> QED BY <3>1, <3>2, <3>3, <4>1, <4>2
    <3> QED BY <3>4, <3>5
  <2>8. CASE ReclaimFailedMisses(c)
    BY <1>3, <2>8 DEF Advance, ReclaimFailedMisses, Stop
  <2>9. CASE StoreFails(c)
    BY <1>3, <2>9 DEF Advance, StoreFails, Stop
  <2>10. CASE Mark(c)
    <3>1. /\ At(c, "mark") /\ UNCHANGED <<clock, effects, born>>
          /\ ~Knows(c)' /\ \A d \in Callers : d # c => call'[d] = call[d]
      BY <2>10, Stopped DEF Mark
    <3>2. CASE row' = row
      <4>1. /\ UNCHANGED <<clock, row, effects, born>>
            /\ \A d \in Callers : Knows(d)' => call'[d] = call[d]
        BY <3>1, <3>2
      <4> HIDE DEF WindowInv, Knows
      <4> QED BY <4>1, WindowKept
    <3>3. CASE row' # row
      <4>1. /\ row.id = call[c].id /\ row'.id = row.id /\ row'.expiresAt = Expiry(c)
            /\ \/ ~call[c].failed /\ row'.status = "succeeded"
               \/ /\ call[c].failed /\ row'.status = "failed_retryable"
                  /\ row'.lockedUntil = call[c].ended + Backoff
        BY <3>3, <2>10, MarkCases
      <4>2. born # 0
        BY <3>1
      <4>3. ASSUME clock < born + TTL
            PROVE  Expiry(c) >= born + TTL /\ call[c].ended + Backoff >= born
        BY <3>1, <4>2, <4>3 DEF Expiry
      <4> QED BY <3>1, <4>1, <4>2, <4>3
    <3> QED BY <3>2, <3>3
  <2>11. CASE Die(c)
    <3>1. /\ UNCHANGED <<recordVars, born>> /\ call'[c].pc = "done"
          /\ \A d \in Callers : d # c => call'[d] = call[d]
          /\ effects' = effects \/ (At(c, "execute") /\ effects' = effects \cup {c})
      BY <2>11, Stopped DEF Die
    <3>2. CASE effects' = effects
      <4>1. /\ UNCHANGED <<clock, row, effects, born>>
            /\ \A d \in Callers : Knows(d)' => call'[d] = call[d]
        BY <3>1, <3>2
      <4> HIDE DEF WindowInv, Knows
      <4> QED BY <4>1, WindowKept
    <3>3. CASE At(c, "execute") /\ effects' = effects \cup {c}
      <4>1. born # 0 /\ Active(c)
        BY <3>3
      <4>2. CASE ~(clock < born + TTL)
        BY <3>1, <4>1, <4>2
      <4>3. CASE clock < born + TTL
        <5>1. /\ effects = {} /\ row.status = "processing"
              /\ \A d \in Callers : Active(d) => d = c
          BY <3>3, <4>1, <4>3
        <5>2. effects' = {c} /\ \A d \in Callers : ~Active(d)'
          BY <3>1, <3>3, <5>1
        <5> QED BY <3>1, <4>1, <4>3, <5>1, <5>2
      <4> QED BY <4>2, <4>3
    <3> QED BY <3>1, <3>2, <3>3
  <2>12. CASE Renew(c)
    BY <1>3, <2>12 DEF Advance, Renew, ExtendProcessingLock, Extendable, Due
  <2>13. CASE RenewEnds(c)
    BY <1>3, <2>13 DEF Advance, RenewEnds, Due
  <2> QED BY <1>3, <2>1, <2>2, <2>3, <2>4, <2>5, <2>6, <2>7,
             <2>8, <2>9, <2>10, <2>11, <2>12, <2>13 DEF Advance
<1>4. ASSUME NEW c \in Callers, RenewFails(c) PROVE WindowInv'
  BY <1>4 DEF RenewFails, Due
<1>5. CASE Cleanup
  BY <1>5 DEF Cleanup, DeleteExpired, Expired
<1>6. CASE Wait
  BY <1>6 DEF Wait, Tick
<1>7. CASE UNCHANGED vars
  BY <1>7 DEF vars
<1> QED BY <1>1, <1>2, <1>3, <1>4, <1>5, <1>6, <1>7 DEF Next

\* While the calls are timely.
LEMMA LeaseStep ==
    ASSUME Timed, IndInv, LeaseInv, [Next]_vars
    PROVE  LeaseInv'
<1>1. ASSUME NEW c \in Callers, Advance(c), GetExisting(c) \/ GetLatest(c) PROVE LeaseInv'
  BY <1>1, LeaseGets DEF IndInv
<1>2. ASSUME NEW c \in Callers, Advance(c), Execute(c) PROVE LeaseInv'
  <2>1. /\ call'[c].pc = "mark" /\ call'[c].id = call[c].id /\ call'[c].now = call[c].now
        /\ call'[c].renewAt = call[c].renewAt /\ call'[c].failures = call[c].failures
        /\ \A d \in Callers : d # c => call'[d] = call[d]
        /\ call[c].pc = "execute" /\ UNCHANGED recordVars
    BY <1>2, HasExecuted DEF IndInv, TypeOK
  <2>2. UNCHANGED <<clock, row, late>>
    BY <1>2, <2>1 DEF Advance, recordVars
  <2>3. \A d \in Callers :
          /\ Active(d)' <=> Active(d)
          /\ call'[d].pc \in Claiming => call[d].pc \in Claiming
          /\ At(d, "reclaimExpired")' => d # c /\ At(d, "reclaimExpired")
          /\ Now(d)' = Now(d) /\ call'[d].id = call[d].id
          /\ call'[d].renewAt = call[d].renewAt /\ Spare(d)' = Spare(d)
    BY <2>1 DEF Active, At, Claiming, Now, Spare
  <2>4. ~late => Alone'
    BY <2>2, <2>3 DEF LeaseInv, Alone
  <2>5. ASSUME ~late, NEW d \in Callers, Active(d), NEW e \in Callers,
               At(e, "reclaimExpired")', call'[e].id = row'.id, call'[e].from = "processing"
        PROVE  Locked(row, Now(e))'
    <3>1. call'[e] = call[e] /\ At(e, "reclaimExpired")
      BY <2>1, <2>3, <2>5
    <3>2. Locked(row, Now(e))
      BY <2>2, <2>5, <3>1 DEF LeaseInv
    <3> QED BY <2>2, <2>3, <3>2 DEF Locked
  <2>6. ASSUME ~late, NEW d \in Callers, Active(d)'
        PROVE  /\ row'.expiresAt > clock'
               /\ d \notin Detached => row'.expiresAt >= Now(d)' + TTL
               /\ d \in Detached => /\ call'[d].renewAt # 0 /\ clock' <= call'[d].renewAt
                                    /\ row'.expiresAt > call'[d].renewAt + Slack(Spare(d)')
    BY <2>2, <2>3, <2>6 DEF LeaseInv
  <2>7. ~late => \A d \in Callers : call'[d].pc \in Claiming => clock' <= Now(d)' + ClaimTime
    BY <2>2, <2>3 DEF LeaseInv
  <2> QED BY <2>2, <2>3, <2>4, <2>5, <2>6, <2>7 DEF LeaseInv
<1> USE TimesAssumption, ExecuteTimesAssumption
        DEF IndInv, TypeOK, RecordTypeOK, KnownInv, OwnInv, LeaseInv, Spare, Alone, Timed,
            Knows, Active, Calls, Rows, Expired, Locked, Reclaimable, Unwritten,
            recordVars, histVars, At, Now, Exists, NoRow, Idle, Claiming
<1>3. ASSUME NEW c \in Callers, Advance(c), ~GetExisting(c), ~GetLatest(c), ~Execute(c)
      PROVE  LeaseInv'
  <2>1. CASE StartExecute(c)
    BY <1>3, <2>1 DEF Advance, StartExecute
  <2>2. CASE Create(c)
    <3>1. CASE late
      BY <1>3, <3>1 DEF Advance
    <3>2. CASE ~late
      <4>1. \A d \in Callers : ~Active(d)
        BY <3>2, <2>2 DEF Create, CreateProcessing
      <4>2. /\ call[c].pc \in Claiming /\ Claim(c, row'.id) /\ row'.status = "processing"
            /\ row'.expiresAt = Now(c) + TTL /\ row'.lockedUntil = Now(c) + Lease
        BY <2>2 DEF Create, CreateProcessing
      <4> QED BY <3>2, <4>1, <4>2, ClaimLease
    <3> QED BY <3>1, <3>2
  <2>3. CASE CreateConflicts(c)
    BY <1>3, <2>3 DEF Advance, CreateConflicts, GoTo
  <2>4. CASE GetMismatch(c)
    BY <1>3, <2>4 DEF Advance, GetMismatch, Stop
  <2>5. CASE ReclaimExpired(c)
    <3>1. CASE late
      BY <1>3, <3>1 DEF Advance
    <3>2. CASE ~late
      <4>1. \A d \in Callers : ~Active(d)
        BY <3>2, <2>5 DEF ReclaimExpired, TryReclaim
      <4>2. row'.id = row.id /\ row.id = call[c].id
        BY <2>5 DEF ReclaimExpired, TryReclaim
      <4>3. /\ call[c].pc \in Claiming /\ Claim(c, row'.id) /\ row'.status = "processing"
            /\ row'.expiresAt = Now(c) + TTL /\ row'.lockedUntil = Now(c) + Lease
        BY <4>2, <2>5 DEF ReclaimExpired, TryReclaim
      <4> QED BY <3>2, <4>1, <4>3, ClaimLease
    <3> QED BY <3>1, <3>2
  <2>6. CASE ReclaimExpiredMisses(c)
    BY <1>3, <2>6 DEF Advance, ReclaimExpiredMisses, GoTo
  <2>7. CASE ReclaimFailed(c)
    <3>1. CASE late
      BY <1>3, <3>1 DEF Advance
    <3>2. CASE ~late
      <4>1. \A d \in Callers : ~Active(d)
        BY <3>2, <2>7 DEF ReclaimFailed, TryReclaim
      <4>2. row'.id = row.id /\ row.id = call[c].id
        BY <2>7 DEF ReclaimFailed, TryReclaim
      <4>3. /\ call[c].pc \in Claiming /\ Claim(c, row'.id) /\ row'.status = "processing"
            /\ row'.expiresAt = Now(c) + TTL /\ row'.lockedUntil = Now(c) + Lease
        BY <4>2, <2>7 DEF ReclaimFailed, TryReclaim
      <4> QED BY <3>2, <4>1, <4>3, ClaimLease
    <3> QED BY <3>1, <3>2
  <2>8. CASE ReclaimFailedMisses(c)
    BY <1>3, <2>8 DEF Advance, ReclaimFailedMisses, Stop
  <2>9. CASE StoreFails(c)
    BY <1>3, <2>9 DEF Advance, StoreFails, Stop
  <2>10. CASE Mark(c)
    BY <1>3, <2>10 DEF Advance, Mark, MarkSucceeded, MarkFailedRetryable, Stop, Expiry
  <2>11. CASE Die(c)
    BY <1>3, <2>11 DEF Advance, Die, Stop
  <2>12. CASE Renew(c)
    <3>1. CASE late
      BY <1>3, <3>1 DEF Advance
    <3>2. CASE ~late
      <4>1. /\ call'[c].renewAt = clock + RenewEvery /\ call'[c].pc = call[c].pc
            /\ call'[c].id = call[c].id /\ call'[c].failures = call[c].failures
            /\ call'[c].now = call[c].now
            /\ \A d \in Callers : d # c => call'[d] = call[d]
        BY <2>12 DEF Renew
      <4>2. /\ row'.status = row.status /\ row'.id = row.id /\ row'.lockedUntil = clock + Lease
            /\ row'.expiresAt = clock + TTL /\ UNCHANGED clock
        BY <2>12 DEF Renew, ExtendProcessingLock
      <4>3. Active(c) /\ c \in Detached /\ \A d \in Callers : Active(d) => d = c
        BY <3>2, <2>12 DEF Renew, Due
      <4>4. clock + TTL > clock + RenewEvery + Slack(Spare(c)) /\ clock + TTL > clock
        BY TimedFacts
      <4>5. Spare(c)' = Spare(c)
        BY <4>1
      <4>6. ASSUME NEW d \in Callers PROVE clock + Lease > call'[d].now
        BY <4>1
      <4> HIDE DEF Spare, Timed
      <4> QED BY <3>2, <4>1, <4>2, <4>3, <4>4, <4>5, <4>6
    <3> QED BY <3>1, <3>2
  <2>13. CASE RenewEnds(c)
    <3>1. late
      BY <2>13 DEF RenewEnds, Due, Extendable
    <3> QED BY <1>3, <3>1 DEF Advance
  <2> QED BY <1>3, <2>1, <2>2, <2>3, <2>4, <2>5, <2>6, <2>7,
             <2>8, <2>9, <2>10, <2>11, <2>12, <2>13 DEF Advance
<1>4. ASSUME NEW c \in Callers, RenewFails(c) PROVE LeaseInv'
  BY <1>4, RenewFailsLease DEF LeaseInv
<1>5. CASE Cleanup
  BY <1>5 DEF Cleanup, DeleteExpired, Expired
<1>6. CASE Wait
  <2>1. CASE late'
    BY <2>1
  <2>2. CASE ~late'
    <3>1. /\ ~late /\ clock' = clock + 1 /\ UNCHANGED <<row, lastId, call>>
          /\ \A c \in Callers : Timely(c)
      BY <2>2, <1>6 DEF Wait, Tick
    <3>2. \A c \in Callers : call[c].pc \in Claiming => clock' <= Now(c) + ClaimTime
      BY <3>1 DEF Timely
    <3>3. ASSUME NEW c \in Callers, Active(c), c \notin Detached PROVE row.expiresAt > clock'
      <4>1. clock < Now(c) + CallTime /\ row.expiresAt >= Now(c) + TTL
        BY <3>1, <3>3 DEF Timely
      <4> QED BY <3>1, <4>1
    <3>4. ASSUME NEW c \in Callers, Active(c), c \in Detached
          PROVE  clock' <= call[c].renewAt /\ row.expiresAt > clock'
      <4>1. call[c].renewAt > clock
        BY <3>1, <3>4 DEF Timely, Due
      <4>2. row.expiresAt > call[c].renewAt + Slack(Spare(c)) /\ Slack(Spare(c)) \in Nat
        BY <3>1, <3>4, TimedFacts
      <4> QED BY <3>1, <4>1, <4>2
    <3> HIDE DEF Timed
    <3> QED BY <2>2, <3>1, <3>2, <3>3, <3>4
  <2> QED BY <2>1, <2>2
<1>7. CASE UNCHANGED vars
  BY <1>7 DEF vars
<1> QED BY <1>1, <1>2, <1>3, <1>4, <1>5, <1>6, <1>7 DEF Next

\* What the steps of a call write in its record of the call.
LEMMA IdleType == Idle \in Calls
BY ExecuteTimesAssumption DEF Idle, Calls, Steps, Statuses

\* A call goes to its next step, or stops.
LEMMA GoesOn ==
    ASSUME call \in [Callers -> Calls], NEW c \in Callers
    PROVE  /\ \A s \in Steps : GoTo(c, s) => call' \in [Callers -> Calls]
           /\ Stop(c) => call' \in [Callers -> Calls]
<1>1. ASSUME NEW s \in Steps, NEW r \in Calls PROVE [r EXCEPT !.pc = s] \in Calls
  BY DEF Calls
<1>2. ASSUME NEW s \in Steps, GoTo(c, s) PROVE call' \in [Callers -> Calls]
  BY <1>1, <1>2 DEF GoTo
<1>3. ASSUME Stop(c) PROVE call' \in [Callers -> Calls]
  <2> DEFINE r == [Idle EXCEPT !.pc = "done"]
  <2>1. r \in Calls
    BY <1>1, IdleType DEF Steps
  <2>2. call' = [call EXCEPT ![c] = r]
    BY <1>3 DEF Stop
  <2> HIDE DEF r
  <2> QED BY <2>1, <2>2
<1> QED BY <1>2, <1>3

\* A call notes the record it has read.
LEMMA ReadType ==
    ASSUME call \in [Callers -> Calls], row \in Rows, NEW c \in Callers,
           NEW s \in Steps, Read(c, s)
    PROVE  call' \in [Callers -> Calls]
<1>1. [call[c] EXCEPT !.pc = s, !.id = row.id, !.from = row.status] \in Calls
  BY DEF Calls, Rows
<1> QED BY <1>1 DEF Read

\* A call claims the record; the first claim is remembered.
LEMMA ClaimType ==
    ASSUME TypeOK, KnownInv, NEW c \in Callers, NEW id \in Nat, Claim(c, id)
    PROVE  call' \in [Callers -> Calls] /\ born' \in 0..MaxClock
<1> DEFINE at == IF c \in Detached THEN clock + RenewEvery ELSE 0
           r == [call[c] EXCEPT !.pc = "execute", !.id = id, !.renewAt = at]
<1>1. at \in Nat
  BY TimesAssumption, ExecuteTimesAssumption DEF TypeOK, RecordTypeOK
<1>2. call' = [call EXCEPT ![c] = r]
  BY DEF Claim
<1> HIDE DEF at
<1>3. r \in Calls
  BY <1>1 DEF TypeOK, Calls, Steps
<1> HIDE DEF r
<1>4. Now(c) \in 0..MaxClock
  <2>1. Now(c) \in Nat /\ Now(c) <= clock /\ clock \in 1..MaxClock /\ MaxClock \in Nat
    BY TimesAssumption DEF TypeOK, RecordTypeOK, KnownInv, Calls, Now
  <2> QED BY <2>1
<1>5. born' = IF born = 0 THEN Now(c) ELSE born
  BY DEF Claim
<1> QED BY <1>2, <1>3, <1>4, <1>5 DEF TypeOK

\* Every statement writes times that were read from the clock, and what a call
\* returns is in the record.
LEMMA TypeStep ==
    ASSUME IndInv, [Next]_vars
    PROVE  TypeOK'
<1> USE DEF IndInv, TypeOK
<1>a. /\ clock \in Nat /\ row \in Rows /\ row.id \in Nat /\ lastId \in Nat
      /\ row.response \in Callers \cup {Nobody}
  BY TimesAssumption DEF RecordTypeOK, Rows
<1>b. UNCHANGED recordVars => RecordTypeOK'
  BY DEF RecordTypeOK, recordVars
<1>c. ASSUME UNCHANGED clock, row' \in Rows, lastId' \in Nat,
             row' = NoRow \/ (row'.id = lastId' /\ lastId' # 0)
      PROVE  RecordTypeOK'
  BY <1>c DEF RecordTypeOK
<1>d. \A c \in Callers : /\ call[c] \in Calls /\ call[c].now \in Nat /\ call[c].id \in Nat
                         /\ call[c].ended \in Nat /\ fingerprint[c] \in Fingerprints
  BY DEF Calls
<1>e. \A c \in Callers : call[c].pc \in {"reclaimExpired", "reclaimFailed", "mark"}
                           => call[c].id \in Nat \ {0}
  BY <1>a DEF KnownInv, Knows, Active
<1>f. ASSUME NEW c \in Callers, UNCHANGED <<fingerprint, late>>, Unwritten,
             call' \in [Callers -> Calls]
      PROVE  TypeOK'
  BY <1>b, <1>f DEF Unwritten, histVars
<1>g. ASSUME NEW c \in Callers, NEW id \in Nat, Claim(c, id), UNCHANGED <<fingerprint, late>>,
             row' \in Rows /\ row'.id = lastId' /\ lastId' \in Nat \ {0}
      PROVE  TypeOK'
  <2>1. RecordTypeOK'
    BY <1>c, <1>g DEF Claim
  <2>2. call' \in [Callers -> Calls] /\ born' \in 0..MaxClock
    BY <1>g, ClaimType
  <2> QED BY <1>g, <2>1, <2>2 DEF Claim
<1>h. ASSUME NEW c \in Callers, Answer(c), UNCHANGED <<fingerprint, late>>
      PROVE  TypeOK'
  <2>1. UNCHANGED <<recordVars, effects, partial, born>>
    BY <1>h, AnswerCases
  <2>2. call' \in [Callers -> Calls]
    BY <1>a, <1>h, AnswerCases, GoesOn, ReadType DEF Steps, Claiming
  <2>3. answers' \in [Callers -> Callers \cup {Nobody}]
    <3>1. CASE UNCHANGED answers
      BY <3>1
    <3>2. CASE answers' = [answers EXCEPT ![c] = row.response]
      BY <1>a, <3>2
    <3> QED BY <3>1, <3>2, <1>h, AnswerCases
  <2> QED BY <1>b, <1>h, <2>1, <2>2, <2>3
<1>1. ASSUME NEW c \in Callers, Advance(c) PROVE TypeOK'
  <2>0. UNCHANGED <<fingerprint, late>>
    BY <1>1 DEF Advance
  <2>1. CASE StartExecute(c)
    <3>1. [call[c] EXCEPT !.pc = "create", !.now = clock] \in Calls
      BY <1>a, <1>d DEF Calls, Steps, Claiming
    <3>2. call' = [call EXCEPT ![c] = [call[c] EXCEPT !.pc = "create", !.now = clock]]
      BY <2>1 DEF StartExecute
    <3> QED BY <3>1, <3>2, <2>0, <2>1, <1>f DEF StartExecute
  <2>2. CASE Create(c)
    <3>1. row' \in Rows /\ row'.id = lastId' /\ lastId' \in Nat \ {0}
      BY <2>2, <1>d, CreateType DEF Create, Now
    <3> QED BY <3>1, <2>0, <2>2, <1>a, <1>g DEF Create
  <2>3. CASE CreateConflicts(c)
    BY <2>0, <2>3, <1>f, GoesOn DEF CreateConflicts, Steps, Claiming
  <2>4. CASE GetMismatch(c)
    BY <2>0, <2>4, <1>f, GoesOn DEF GetMismatch
  <2>5. CASE GetExisting(c)
    <3>1. CASE Answer(c)
      BY <3>1, <2>0, <1>h
    <3>2. CASE ~Answer(c)
      <4>1. Read(c, "reclaimExpired") /\ Unwritten
        BY <2>5, <3>2 DEF GetExisting
      <4>2. call' \in [Callers -> Calls]
        BY <1>a, <4>1, ReadType DEF Steps, Claiming
      <4> QED BY <2>0, <4>1, <4>2, <1>f
    <3> QED BY <3>1, <3>2
  <2>6. CASE GetLatest(c)
    BY <2>0, <2>6, <1>h DEF GetLatest
  <2>7. CASE ReclaimExpired(c)
    <3>1. row' \in Rows /\ row'.id = lastId' /\ lastId' \in Nat \ {0}
      BY <2>7, <1>d, <1>e, ReclaimType DEF ReclaimExpired, At, Now
    <3> QED BY <3>1, <2>0, <2>7, <1>d, <1>g DEF ReclaimExpired
  <2>8. CASE ReclaimExpiredMisses(c)
    BY <2>0, <2>8, <1>f, GoesOn DEF ReclaimExpiredMisses, Steps, Claiming
  <2>9. CASE ReclaimFailed(c)
    <3>1. row' \in Rows /\ row'.id = lastId' /\ lastId' \in Nat \ {0}
      BY <2>9, <1>d, <1>e, ReclaimType DEF ReclaimFailed, At, Now
    <3> QED BY <3>1, <2>0, <2>9, <1>d, <1>g DEF ReclaimFailed
  <2>10. CASE ReclaimFailedMisses(c)
    BY <2>0, <2>10, <1>f, GoesOn DEF ReclaimFailedMisses
  <2>11. CASE StoreFails(c)
    BY <2>0, <2>11, <1>f, GoesOn DEF StoreFails
  <2>12. CASE Execute(c)
    <3>1. PICK error \in BOOLEAN :
            /\ call' = [call EXCEPT ![c].pc = "mark", ![c].failed = error, ![c].ended = clock]
            /\ effects' = IF error THEN effects ELSE effects \cup {c}
            /\ partial' \in {partial, partial \cup {c}}
      BY <2>12 DEF Execute
    <3>2. [call[c] EXCEPT !.pc = "mark", !.failed = error, !.ended = clock] \in Calls
      BY <1>a, <1>d DEF Calls, Steps
    <3>3. call' \in [Callers -> Calls]
      BY <3>1, <3>2
    <3> QED BY <3>1, <3>3, <2>0, <2>12, <1>b DEF Execute
  <2>13. CASE Mark(c)
    <3>1. call' \in [Callers -> Calls] /\ UNCHANGED <<clock, histVars>>
      BY <2>13, GoesOn DEF Mark
    <3>2. Expiry(c) \in Nat /\ call[c].ended + Backoff \in Nat
      BY <1>d, TimesAssumption, ExecuteTimesAssumption DEF Expiry, Now
    <3>3. RecordTypeOK'
      <4>1. CASE UNCHANGED <<row, lastId>>
        BY <4>1, <3>1, <1>b DEF recordVars
      <4>2. CASE ~UNCHANGED <<row, lastId>>
        <5>1. /\ row' \in Rows /\ lastId' \in Nat
              /\ row' = NoRow \/ (row'.id = lastId' /\ lastId' # 0)
          BY <4>2, <3>2, <2>13, <1>e, MarkType DEF Mark, At
        <5> QED BY <5>1, <3>1, <1>c
      <4> QED BY <4>1, <4>2
    <3> QED BY <3>1, <3>3, <2>0 DEF histVars
  <2>14. CASE Die(c)
    <3>1. call' \in [Callers -> Calls]
      BY <2>14, GoesOn DEF Die
    <3>2. effects' \subseteq Callers
      BY <2>14 DEF Die
    <3> QED BY <2>0, <2>14, <3>1, <3>2, <1>b DEF Die
  <2>15. CASE Renew(c)
    <3> DEFINE at == clock + RenewEvery
    <3>1. row' \in Rows /\ row'.id = lastId' /\ lastId' \in Nat \ {0}
      BY <2>15, ExtendType DEF Renew
    <3>2. at \in Nat
      BY <1>a, ExecuteTimesAssumption
    <3>3. call' = [call EXCEPT ![c].renewAt = at] /\ UNCHANGED <<clock, histVars>>
      BY <2>15 DEF Renew
    <3> HIDE DEF at
    <3>4. [call[c] EXCEPT !.renewAt = at] \in Calls
      BY <3>2, <1>d DEF Calls
    <3>5. call' \in [Callers -> Calls]
      BY <3>3, <3>4
    <3>6. RecordTypeOK'
      BY <3>1, <3>3, <1>c
    <3> QED BY <3>3, <3>5, <3>6, <2>0 DEF histVars
  <2>16. CASE RenewEnds(c)
    <3>1. [call[c] EXCEPT !.renewAt = 0] \in Calls
      BY <1>d DEF Calls
    <3>2. call' \in [Callers -> Calls]
      BY <2>16, <3>1 DEF RenewEnds
    <3> QED BY <3>2, <2>0, <2>16, <1>f DEF RenewEnds
  <2> QED BY <1>1, <2>1, <2>2, <2>3, <2>4, <2>5, <2>6, <2>7, <2>8,
             <2>9, <2>10, <2>11, <2>12, <2>13, <2>14, <2>15, <2>16 DEF Advance
<1>2. ASSUME NEW c \in Callers, RenewFails(c) PROVE TypeOK'
  <2> DEFINE at == clock + RenewEvery
             f == call[c].failures
             n == IF f < MaxFailures THEN f + 1 ELSE f
  <2>1. at \in Nat /\ n \in 0..MaxFailures
    BY <1>a, <1>d, ExecuteTimesAssumption DEF Calls
  <2>2. call' = [call EXCEPT ![c] = [call[c] EXCEPT !.renewAt = at, !.failures = n]]
    BY <1>2 DEF RenewFails
  <2>3. late' \in BOOLEAN
    BY <1>2, Zenon DEF RenewFails
  <2>4. UNCHANGED fingerprint /\ Unwritten
    BY <1>2 DEF RenewFails
  <2> HIDE DEF at, n
  <2>5. [call[c] EXCEPT !.renewAt = at, !.failures = n] \in Calls
    BY <2>1, <1>d DEF Calls
  <2>6. call' \in [Callers -> Calls]
    BY <2>2, <2>5
  <2> QED BY <1>b, <2>3, <2>4, <2>6 DEF Unwritten, histVars
<1>3. CASE Cleanup
  <2>1. NoRow \in Rows
    BY DEF NoRow, Rows, Statuses
  <2>2. RecordTypeOK'
    BY <1>3, <2>1 DEF Cleanup, DeleteExpired, RecordTypeOK
  <2> QED BY <1>3, <2>2 DEF Cleanup, histVars
<1>4. CASE Wait
  <2>1. RecordTypeOK'
    BY <1>4, TimesAssumption DEF Wait, Tick, RecordTypeOK
  <2>2. late' \in BOOLEAN
    BY <1>4, Zenon DEF Wait
  <2> QED BY <1>4, <2>1, <2>2 DEF Wait, histVars
<1>5. CASE UNCHANGED vars
  BY <1>5, <1>b DEF vars, histVars
<1> QED BY <1>1, <1>2, <1>3, <1>4, <1>5 DEF Next

-----------------------------------------------------------------------------
(* The theorems.                                                            *)

\* The invariants hold when nothing has been called.
LEMMA Initially == Init => IndInv /\ LeaseInv /\ ~late
<1> SUFFICES ASSUME Init PROVE IndInv /\ LeaseInv /\ ~late
  OBVIOUS
<1>1. /\ RecordInit /\ fingerprint \in [Callers -> Fingerprints] /\ late = FALSE
      /\ call = [c \in Callers |-> Idle] /\ effects = {} /\ partial = {} /\ born = 0
      /\ answers = [c \in Callers |-> Nobody]
  BY DEF Init
<1>2. \A c \in Callers : /\ call[c] \in Calls /\ call[c].pc = "idle" /\ call[c].renewAt = 0
                         /\ Now(c) = 0 /\ call[c].ended = 0
  BY <1>1, IdleType DEF Idle, Now
<1>3. clock = 1 /\ row = NoRow /\ lastId = 0
  BY <1>1 DEF RecordInit
<1>4. RecordTypeOK
  BY <1>3, TimesAssumption DEF RecordTypeOK, Rows, NoRow, Statuses
<1>5. TypeOK
  <2>1. call \in [Callers -> Calls] /\ answers \in [Callers -> Callers \cup {Nobody}]
    BY <1>1, IdleType
  <2>2. 0 \in 0..MaxClock /\ {} \subseteq Callers /\ FALSE \in BOOLEAN
    BY TimesAssumption
  <2> QED BY <1>1, <1>4, <2>1, <2>2 DEF TypeOK
<1>6. \A c \in Callers : ~Knows(c) /\ ~Active(c) /\ ~At(c, "mark") /\ call[c].pc \notin Claiming
  BY <1>2 DEF Knows, Active, At, Claiming
<1>7. KnownInv
  BY <1>1, <1>2, <1>3, <1>6 DEF KnownInv
<1>8. OwnInv
  BY <1>1, <1>3, <1>6 DEF OwnInv, ReplayedOwnRequest, NoRow
<1>9. WindowInv
  BY <1>1, <1>3, <1>6 DEF WindowInv, Exists, NoRow
<1>10. LeaseInv
  BY <1>6 DEF LeaseInv, Alone
<1> QED BY <1>1, <1>5, <1>7, <1>8, <1>9, <1>10 DEF IndInv

\* The invariants hold in every state.
LEMMA Invariance == Spec => []IndInv
<1>1. Init => IndInv
  BY Initially
<1>2. IndInv /\ [Next]_vars => IndInv'
  BY TypeStep, KnownStep, OwnStep, WindowStep DEF IndInv
<1> QED BY <1>1, <1>2, PTL DEF Spec

(***************************************************************************)
(* Type correctness: every statement of the coordinator writes a record    *)
(* and every step leaves a call that has their types.                      *)
(***************************************************************************)
THEOREM TypeCorrect == Spec => []TypeOK
<1>1. IndInv => TypeOK
  BY DEF IndInv
<1> QED BY <1>1, Invariance, PTL

(***************************************************************************)
(* ReplayedOwnRequest: Execute only replays the outcome of a call with the *)
(* same request.                                                           *)
(***************************************************************************)
THEOREM ReplayIsOwn == Spec => []ReplayedOwnRequest
<1>1. IndInv => ReplayedOwnRequest
  BY DEF IndInv, OwnInv
<1> QED BY <1>1, Invariance, PTL

(***************************************************************************)
(* OnceWithinTTL: whatever is late, dies or fails, within the TTL of the   *)
(* first claim of a key no operation runs again once one took effect and   *)
(* did not return an error.                                                *)
(***************************************************************************)
THEOREM EffectOnce == Spec => []OnceWithinTTL
<1>1. ASSUME IndInv, born # 0, clock < born + TTL, effects # {}
      PROVE  Cardinality(effects) = 1 /\ \A c \in Callers : ~At(c, "execute")
  <2>1. \A d, e \in effects : d = e
    BY <1>1 DEF IndInv, WindowInv
  <2>2. PICK d \in effects : TRUE
    BY <1>1
  <2>3. effects = {d}
    BY <2>1, <2>2
  <2>4. \A c \in Callers : Active(c) => At(c, "mark")
    BY <1>1 DEF IndInv, WindowInv
  <2> QED BY <2>3, <2>4, FS_Singleton DEF Active, At
<1>2. IndInv => OnceWithinTTL
  BY <1>1 DEF OnceWithinTTL
<1> QED BY <1>2, Invariance, PTL

(***************************************************************************)
(* OneExecution: with the durations that the code relies on, timely calls  *)
(* of Execute with one key never run at the same time.                     *)
(***************************************************************************)
THEOREM OneAtATime ==
    ASSUME Timed PROVE Spec => []OneExecution
<1>1. Init => LeaseInv
  BY Initially
<1>2. IndInv /\ LeaseInv /\ [Next]_vars => LeaseInv'
  BY LeaseStep
<1>3. LeaseInv => OneExecution
  BY DEF LeaseInv, Alone, OneExecution, Active, At
<1> QED BY <1>1, <1>2, <1>3, Invariance, PTL DEF Spec
=============================================================================
