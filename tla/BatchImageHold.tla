--------------------------- MODULE BatchImageHold ---------------------------
(***************************************************************************)
(* The money of one user's batch image jobs: what the three billing        *)
(* transactions of usage_billing_repo.go do to users.balance and           *)
(* users.frozen_balance.  A submission moves the job's hold from the       *)
(* balance to the frozen pool, the settlement captures it (the actual cost *)
(* stays with the service, the rest returns) and a failed or cancelled job *)
(* releases it.  Each transaction first claims a request id of its own in  *)
(* usage_billing_dedup, so it takes effect once; nothing in the database   *)
(* relates the capture of a job to its release, and the frozen pool is one *)
(* number for all jobs of the user.                                        *)
(***************************************************************************)
EXTENDS Integers, FiniteSets

CONSTANTS Jobs,      \* the batch image jobs of the user
          Hold,      \* Hold[j]: hold_amount of the job
          Deposit,   \* what the user owns at the start, frozen or not
          Elsewhere  \* how much of it may be frozen for jobs not in Jobs

ASSUME HoldAssumption ==
    /\ IsFiniteSet(Jobs)
    /\ Hold \in [Jobs -> Nat]
    /\ Deposit \in Nat
    /\ Elsewhere \subseteq 0..Deposit /\ Elsewhere # {}

VARIABLES balance,   \* users.balance
          frozen,    \* users.frozen_balance
          spent,     \* what captures have kept so far (a history variable)
          claims     \* claims[j]: the request ids of the job that are claimed

ledger == <<balance, frozen, spent, claims>>

\* "hold", "capture" and "release" are claims whose effect was applied; "void"
\* is the release id claimed by a release that found no hold and changed
\* nothing.  The dedup table does not tell "release" from "void".
Claim == {"hold", "capture", "release", "void"}

LedgerTypeOK ==
    /\ balance \in Nat
    /\ frozen \in Nat
    /\ spent \in Nat
    /\ claims \in [Jobs -> SUBSET Claim]

LedgerInit ==
    /\ frozen \in Elsewhere
    /\ balance = Deposit - frozen
    /\ spent = 0
    /\ claims = [j \in Jobs |-> {}]

ClaimAs(j, c) == claims' = [claims EXCEPT ![j] = @ \cup {c}]

-----------------------------------------------------------------------------
(* Reserve, capture and release, each with the reply ok to its caller.      *)

\* reserveBatchImageBalanceHold: nothing to do for a hold of zero or a claim
\* that exists; else the balance must cover the hold.
Reserve(j, ok) ==
    \/ /\ ok
       /\ Hold[j] = 0 \/ "hold" \in claims[j]
       /\ UNCHANGED ledger
    \/ /\ Hold[j] > 0 /\ "hold" \notin claims[j]
       /\ IF balance >= Hold[j]
            THEN /\ ok
                 /\ balance' = balance - Hold[j]
                 /\ frozen' = frozen + Hold[j]
                 /\ ClaimAs(j, "hold")
                 /\ UNCHANGED spent
            ELSE ~ok /\ UNCHANGED ledger

\* Mutant: one request id for all statements of a job.
CaptureSharesId(j, c, ok) ==
    \/ ok /\ claims[j] # {} /\ UNCHANGED ledger
    \/ claims[j] = {} /\ ~ok /\ UNCHANGED ledger

\* Mutant: what the job did not cost is not given back.
CaptureKeepsRemainder(j, c, ok) ==
    \/ ok /\ "capture" \in claims[j] /\ UNCHANGED ledger
    \/ /\ "capture" \notin claims[j]
       /\ IF c <= Hold[j] /\ frozen >= Hold[j]
            THEN /\ ok
                 /\ frozen' = frozen - Hold[j]
                 /\ spent' = spent + c
                 /\ ClaimAs(j, "capture")
                 /\ UNCHANGED balance
            ELSE ~ok /\ UNCHANGED ledger

\* captureBatchImageBalanceHold for an actual cost c: refused when c exceeds
\* the hold or the pool of the user is smaller than the hold.
Capture(j, c, ok) ==
    \/ ok /\ "capture" \in claims[j] /\ UNCHANGED ledger
    \/ /\ "capture" \notin claims[j]
       /\ IF c <= Hold[j] /\ frozen >= Hold[j]
            THEN /\ ok
                 /\ balance' = balance + (Hold[j] - c)
                 /\ frozen' = frozen - Hold[j]
                 /\ spent' = spent + c
                 /\ ClaimAs(j, "capture")
            ELSE ~ok /\ UNCHANGED ledger

\* Mutant: a release without a look at the hold and at the pool.
ReleasePhantom(j, ok) ==
    \/ ok /\ "release" \in claims[j] /\ UNCHANGED ledger
    \/ /\ ok /\ "release" \notin claims[j]
       /\ balance' = balance + Hold[j]
       /\ frozen' = frozen - Hold[j]
       /\ ClaimAs(j, "release")
       /\ UNCHANGED spent

\* Mutant: the hold is given back and stays frozen as well.
ReleaseKeepsFrozen(j, ok) ==
    \/ ok /\ claims[j] \cap {"release", "void"} # {} /\ UNCHANGED ledger
    \/ /\ ok /\ claims[j] \cap {"hold", "release"} = {"hold"}
       /\ balance' = balance + Hold[j]
       /\ ClaimAs(j, "release")
       /\ UNCHANGED <<frozen, spent>>

\* releaseBatchImageBalanceHold: a release without a hold keeps its claim and
\* moves nothing.
Release(j, ok) ==
    \/ /\ ok
       /\ Hold[j] = 0 \/ claims[j] \cap {"release", "void"} # {}
       /\ UNCHANGED ledger
    \/ /\ Hold[j] > 0 /\ claims[j] \cap {"release", "void"} = {}
       /\ IF "hold" \notin claims[j]
            THEN ok /\ ClaimAs(j, "void") /\ UNCHANGED <<balance, frozen, spent>>
            ELSE IF frozen >= Hold[j]
              THEN /\ ok
                   /\ balance' = balance + Hold[j]
                   /\ frozen' = frozen - Hold[j]
                   /\ ClaimAs(j, "release")
                   /\ UNCHANGED spent
              ELSE ~ok /\ UNCHANGED ledger

LedgerStep(Costs) ==
    \E j \in Jobs, ok \in BOOLEAN :
        Reserve(j, ok) \/ Release(j, ok) \/ \E c \in Costs : Capture(j, c, ok)
=============================================================================
