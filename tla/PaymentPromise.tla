--------------------------- MODULE PaymentPromise ---------------------------
(***************************************************************************)
(* What the payment component promises a paying user and the operator,     *)
(* with nothing about webhooks, leases, retries or database rows: the      *)
(* goods of an order (balance or subscription days) are delivered only     *)
(* after its exact price was paid, once, and the order is closed as        *)
(* completed only after the delivery.  PaymentOrder implements it.         *)
(***************************************************************************)
EXTENDS Naturals

VARIABLES
    paid,       \* the provider has taken the order's exact price
    delivered,  \* how many times the goods of the order were granted
    done        \* the order is COMPLETED

pvars == <<paid, delivered, done>>

PromiseInit ==
    /\ paid = FALSE
    /\ delivered = 0
    /\ done = FALSE

PromisePay ==
    /\ ~paid
    /\ paid' = TRUE
    /\ UNCHANGED <<delivered, done>>

PromiseDeliver ==
    /\ paid
    /\ delivered = 0
    /\ delivered' = 1
    /\ UNCHANGED <<paid, done>>

PromiseComplete ==
    /\ delivered = 1
    /\ ~done
    /\ done' = TRUE
    /\ UNCHANGED <<paid, delivered>>

PromiseNext == PromisePay \/ PromiseDeliver \/ PromiseComplete

PromiseSpec == PromiseInit /\ [][PromiseNext]_pvars
=============================================================================
