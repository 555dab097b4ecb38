------------------------ MODULE MCIdempotentExecute ------------------------
(* IdempotentExecute for TLC: three calls of any requests; c2 is detached.  *)
EXTENDS IdempotentExecute, TLC

CONSTANTS c1, c2, c3, f1, f2

MCSymmetry == Permutations({c1, c3}) \cup Permutations({f1, f2})
=============================================================================
