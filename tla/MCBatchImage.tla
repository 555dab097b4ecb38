---------------------------- MODULE MCBatchImage ----------------------------
(* Instances of BatchImage for TLC: jobs with a hold of 2 and actual costs   *)
(* below and above it, one job beside money frozen for others or two jobs.   *)
EXTENDS BatchImage

CONSTANTS j1, j2, w1, w2, none

MCHold == [j \in Jobs |-> 2]

\* The second job of two reserves its hold and gives it back, or keeps it.
Bystander == \A j \in Jobs \ {j1} : job[j].status \in {"none", "created"}
=============================================================================
