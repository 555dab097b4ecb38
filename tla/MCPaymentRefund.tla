--------------------------- MODULE MCPaymentRefund ---------------------------
(* PaymentRefund for TLC: two concurrent calls, an order of two units. *)
EXTENDS PaymentRefund, TLC

MCSymmetry == Permutations(Workers)
=============================================================================
