---------------------------- MODULE RefundPromise ----------------------------
(***************************************************************************)
(* What the refund of an order promises, with nothing about concurrent     *)
(* calls, stale plans, the audit log's entries or the statuses of failure. *)
(*                                                                         *)
(* The user: the credit is taken back once, not again while a part of it   *)
(* is held, and an attempt only ends without a refund when it has returned *)
(* what it took or has left the mark that keeps the next one from taking.  *)
(* The operator: an order is called refunded when the gateway has paid the *)
(* amount, a refund the gateway said it left open is neither asked for     *)
(* again nor ended otherwise than as the gateway decides, refunded is      *)
(* final, and all refunds together stay within what was paid.  Nothing     *)
(* keeps a refund whose answer was lost (unheard) from being asked for     *)
(* again.  Once the outcome of a statement on the balance or an entry of   *)
(* the audit log was lost (lost), nothing is promised of what is taken;    *)
(* the promises about the gateway stay.                                    *)
(***************************************************************************)
EXTENDS Integers

CONSTANT Amount      \* what the order credited

VARIABLES
    phase,      \* "open", "executing", "pending" or "refunded"
    taken,      \* of the credit, taken from the user's balance and held
    marked,     \* the mark is set
    lost,       \* an entry of the audit log or the outcome of a deduction was lost
    viaGateway, \* the order was paid through the gateway
    asked,      \* the refund the gateway left open: its amount and decision
    unheard,    \* refunds the gateway left open with its answer lost, their sum
    paid,       \* what the gateway has paid back
    given       \* the recorded amount of a pending or finished refund

NotAsked == [state |-> "none", amt |-> 0]

Undecided == asked.state \in {"pending", "done"}

\* An attempt may end: it holds nothing, or the mark says so.
Settled(amount, mark) == lost \/ mark \/ amount = 0

\* An order nobody refunded yet, or one an older version left pending, with
\* its deduction returned or, when that had failed, marked.
Init ==
    /\ \/ /\ phase = "open" /\ asked = NotAsked /\ given = 0
          /\ taken = 0 /\ marked = FALSE
          /\ viaGateway \in BOOLEAN
       \/ /\ phase = "pending"
          /\ given \in 1..Amount
          /\ asked = [state |-> "pending", amt |-> given]
          /\ \/ taken = 0 /\ marked = FALSE
             \/ taken = given /\ marked = TRUE
          /\ viaGateway = TRUE
    /\ lost = FALSE
    /\ unheard = 0
    /\ paid = 0

-----------------------------------------------------------------------------
(* One attempt *)

Begin ==
    /\ phase = "open"
    /\ phase' = "executing"
    /\ UNCHANGED <<taken, marked, lost, viaGateway, asked, unheard, paid, given>>

\* Taking may be reported as an error.
Take ==
    /\ phase = "executing"
    /\ lost \/ taken = 0
    /\ \E a \in 1..Amount : taken' = taken + a
    /\ lost' \in {lost, TRUE}
    /\ UNCHANGED <<phase, marked, viaGateway, asked, unheard, paid, given>>

\* An attempt returns all it took.
GiveBack ==
    /\ phase = "executing"
    /\ taken' \in 0..(taken - 1)
    /\ lost \/ taken' = 0
    /\ UNCHANGED <<phase, marked, lost, viaGateway, asked, unheard, paid, given>>

Mark ==
    /\ phase = "executing"
    /\ marked' = TRUE
    /\ UNCHANGED <<phase, taken, lost, viaGateway, asked, unheard, paid, given>>

Lose ==
    /\ phase = "executing"
    /\ lost' = TRUE
    /\ UNCHANGED <<phase, taken, marked, viaGateway, asked, unheard, paid, given>>

Abandon ==
    /\ phase = "executing"
    /\ Settled(taken, marked)
    /\ phase' = "open"
    /\ UNCHANGED <<taken, marked, lost, viaGateway, asked, unheard, paid, given>>

Succeed ==
    /\ phase = "executing"
    /\ given' \in 1..Amount
    /\ viaGateway => paid >= given'
    /\ phase' = "refunded"
    /\ UNCHANGED <<taken, marked, lost, viaGateway, asked, unheard, paid>>

Pend ==
    /\ phase = "executing"
    /\ asked.state # "none"
    /\ given' = asked.amt
    /\ phase' = "pending"
    /\ UNCHANGED <<taken, marked, lost, viaGateway, asked, unheard, paid>>

-----------------------------------------------------------------------------
(* The gateway *)

Pay ==
    /\ phase = "executing" /\ viaGateway /\ ~Undecided
    /\ paid' \in paid..(Amount - unheard)
    /\ UNCHANGED <<phase, taken, marked, lost, viaGateway, asked, unheard, given>>

LeaveOpen ==
    /\ phase = "executing" /\ viaGateway /\ ~Undecided
    /\ \E a \in 1..(Amount - paid - unheard) :
         asked' = [state |-> "pending", amt |-> a]
    /\ UNCHANGED <<phase, taken, marked, lost, viaGateway, unheard, paid, given>>

LeaveUnheard ==
    /\ phase = "executing" /\ viaGateway /\ ~Undecided
    /\ unheard' \in unheard..(Amount - paid)
    /\ UNCHANGED <<phase, taken, marked, lost, viaGateway, asked, paid, given>>

\* A repeated request is told that the first one is still open.
HearOf ==
    /\ phase = "executing" /\ viaGateway /\ ~Undecided
    /\ \E a \in 1..unheard :
         /\ asked' = [state |-> "pending", amt |-> a]
         /\ unheard' = unheard - a
    /\ UNCHANGED <<phase, taken, marked, lost, viaGateway, paid, given>>

\* Whatever the order does meanwhile.
DecideUnheard ==
    /\ \E a \in 1..unheard :
         /\ unheard' = unheard - a
         /\ paid' \in {paid, paid + a}
    /\ UNCHANGED <<phase, taken, marked, lost, viaGateway, asked, given>>

Decide ==
    /\ asked.state = "pending"
    /\ \/ /\ asked' = [asked EXCEPT !.state = "done"]
          /\ paid' = paid + asked.amt
       \/ asked' = [asked EXCEPT !.state = "failed"] /\ UNCHANGED paid
    /\ UNCHANGED <<phase, taken, marked, lost, viaGateway, unheard, given>>

-----------------------------------------------------------------------------
(* The end of a pending refund *)

\* What an older version had returned is taken again.
Confirm ==
    /\ phase = "pending" /\ asked.state = "done" /\ paid >= given
    /\ phase' = "refunded"
    /\ \/ UNCHANGED taken
       \/ /\ lost \/ taken = 0
          /\ \E a \in 1..given : taken' = taken + a
    /\ UNCHANGED <<marked, lost, viaGateway, asked, unheard, paid, given>>

Refuse ==
    /\ phase = "pending" /\ asked.state = "failed"
    /\ phase' = "open"
    /\ taken' \in 0..taken
    /\ marked' \in {marked, TRUE}
    /\ Settled(taken', marked')
    /\ given' = 0
    /\ UNCHANGED <<lost, viaGateway, asked, unheard, paid>>

Next ==
    \/ Begin \/ Take \/ GiveBack \/ Mark \/ Lose \/ Abandon \/ Succeed \/ Pend
    \/ Pay \/ LeaveOpen \/ LeaveUnheard \/ HearOf \/ Decide \/ DecideUnheard
    \/ Confirm \/ Refuse

Spec ==
    Init /\ [][Next]_<<phase, taken, marked, lost, viaGateway, asked, unheard,
                       paid, given>>
=============================================================================
