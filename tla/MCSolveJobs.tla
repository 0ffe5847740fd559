----------------------------- MODULE MCSolveJobs -----------------------------
(* Small instances of SolveJobs for TLC.                                   *)
EXTENDS SolveJobs

OneJob    == {1}
TwoJobs   == 1..2
ThreeJobs == 1..3

\* Every solve is one account's.
OneOwner == [j \in Jobs |-> CHOOSE a \in Accounts : TRUE]
=============================================================================
