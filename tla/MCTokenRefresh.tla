--------------------------- MODULE MCTokenRefresh ---------------------------
(* Instances of TokenRefresh for TLC.                                        *)
EXTENDS TokenRefresh

CONSTANTS w1, w2, i1, i2, nobody
=============================================================================
