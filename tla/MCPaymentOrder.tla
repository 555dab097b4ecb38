--------------------------- MODULE MCPaymentOrder ---------------------------
(* PaymentOrder for TLC: two or three concurrent calls, all order types. *)
EXTENDS PaymentOrder, TLC

MCSymmetry == Permutations(Workers)
=============================================================================
