------------------------- MODULE BatchImagePromise -------------------------
(***************************************************************************)
(* What the billing of batch image jobs promises the user, whatever the    *)
(* handlers, the workers and the provider do: a job is charged at most     *)
(* once and never more than its hold, refunded at most once, and its       *)
(* results are delivered only after it was charged, and for good.  It is   *)
(* not both charged and refunded as far as the user's frozen money tells:  *)
(* the second of the two needs as much frozen money as the first has       *)
(* taken, which only other jobs of the user can have there.                *)
(***************************************************************************)
EXTENDS Integers

CONSTANTS Jobs, Hold, Deposit

VARIABLES bill,       \* bill[j]: "none", "held", "charged", "refunded" or "both"
          funds,      \* what belongs to the user, frozen or not
          pool,       \* the frozen part of it
          delivered   \* the jobs whose results the user has got

Init ==
    /\ bill = [j \in Jobs |-> IF Hold[j] = 0 THEN "held" ELSE "none"]
    /\ funds = Deposit
    /\ pool \in 0..Deposit
    /\ delivered = {}

Bill(j, from, to) == bill[j] = from /\ bill' = [bill EXCEPT ![j] = to]

Thaw(j) == Hold[j] <= pool /\ pool' = pool - Hold[j]

Freeze(j) ==
    /\ Bill(j, "none", "held")
    /\ Hold[j] <= funds - pool /\ pool' = pool + Hold[j]
    /\ UNCHANGED <<funds, delivered>>

Charge(j) ==
    /\ Bill(j, "held", "charged") \/ Bill(j, "refunded", "both")
    /\ Thaw(j)
    /\ \E c \in 0..Hold[j] : funds' = funds - c
    /\ UNCHANGED delivered

Refund(j) ==
    /\ Bill(j, "held", "refunded") \/ Bill(j, "charged", "both")
    /\ Thaw(j)
    /\ UNCHANGED <<funds, delivered>>

Deliver(j) ==
    /\ bill[j] \in {"charged", "both"}
    /\ delivered' = delivered \cup {j}
    /\ UNCHANGED <<bill, funds, pool>>

Next == \E j \in Jobs : Freeze(j) \/ Charge(j) \/ Refund(j) \/ Deliver(j)

Spec == Init /\ [][Next]_<<bill, funds, pool, delivered>>
=============================================================================
