-------------------------- MODULE BatchImageQueue ---------------------------
(***************************************************************************)
(* The Redis queue of the batch image workers (batch_image_queue.go).  A   *)
(* job waits in the ready list, is kept in the active set while a worker   *)
(* has it and in the delayed set between two rounds.  The inflight key     *)
(* makes a job enter the queue once; the lock key gives it to one worker.  *)
(* Each operation is one Lua script or one MULTI/EXEC.  The order of the   *)
(* ready list is abstracted to the number of entries of each job, and the  *)
(* seven days an inflight key lives are longer than a behaviour.           *)
(***************************************************************************)
EXTENDS Naturals

CONSTANTS Jobs, Workers,
          NoWorker      \* the value of a lock key that does not exist

VARIABLES ready,      \* ready[j]: the entries of the job in the ready list
          active,     \* the jobs in the active sorted set
          delayed,    \* the jobs in the delayed sorted set
          inflight,   \* the jobs that have an inflight key
          lock        \* lock[j]: the worker whose token the lock key holds

QueueTypeOK ==
    /\ ready \in [Jobs -> Nat]
    /\ active \subseteq Jobs /\ delayed \subseteq Jobs /\ inflight \subseteq Jobs
    /\ lock \in [Jobs -> Workers \cup {NoWorker}]

QueueInit ==
    /\ ready = [j \in Jobs |-> 0]
    /\ active = {} /\ delayed = {} /\ inflight = {}
    /\ lock = [j \in Jobs |-> NoWorker]

\* A job that some structure of the queue will hand to a worker again.
Queued(j) == ready[j] > 0 \/ j \in active \cup delayed

PushReady(j) == ready' = [ready EXCEPT ![j] = @ + 1]

-----------------------------------------------------------------------------
(* A job that has an inflight key is "already queued": nothing is pushed.   *)
Enqueue(j) ==
    IF j \in inflight
      THEN UNCHANGED <<ready, active, delayed, inflight, lock>>
      ELSE /\ inflight' = inflight \cup {j}
           /\ PushReady(j)
           /\ UNCHANGED <<active, delayed, lock>>

ReserveReady(j) ==
    /\ ready[j] > 0
    /\ ready' = [ready EXCEPT ![j] = @ - 1]
    /\ active' = active \cup {j}
    /\ UNCHANGED <<delayed, inflight, lock>>

TakeLock(j, w) ==
    /\ lock[j] = NoWorker
    /\ lock' = [lock EXCEPT ![j] = w]
    /\ UNCHANGED <<ready, active, delayed, inflight>>

\* The release script deletes the key only when it holds the caller's token.
DropLock(j, w) ==
    /\ lock' = [lock EXCEPT ![j] = IF @ = w THEN NoWorker ELSE @]
    /\ UNCHANGED <<ready, active, delayed, inflight>>

ExpireLock(j) ==
    /\ lock[j] # NoWorker
    /\ lock' = [lock EXCEPT ![j] = NoWorker]
    /\ UNCHANGED <<ready, active, delayed, inflight>>

\* Every delay the workers use is positive.
RequeueAfter(j) ==
    /\ active' = active \ {j}
    /\ delayed' = delayed \cup {j}
    /\ UNCHANGED <<ready, inflight, lock>>

Ack(j) ==
    /\ active' = active \ {j}
    /\ delayed' = delayed \ {j}
    /\ inflight' = inflight \ {j}
    /\ UNCHANGED <<ready, lock>>

MoveDueDelayedToReady(j) ==
    /\ j \in delayed
    /\ delayed' = delayed \ {j}
    /\ PushReady(j)
    /\ UNCHANGED <<active, inflight, lock>>

\* Mutant: a stale job leaves the active set for nowhere.
DropStaleActive(j) ==
    /\ j \in active
    /\ active' = active \ {j}
    /\ UNCHANGED <<ready, delayed, inflight, lock>>

RecoverStaleActive(j) ==
    /\ j \in active
    /\ active' = active \ {j}
    /\ PushReady(j)
    /\ UNCHANGED <<delayed, inflight, lock>>
=============================================================================
