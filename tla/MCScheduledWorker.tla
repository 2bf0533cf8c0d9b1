-------------------------- MODULE MCScheduledWorker --------------------------
(***************************************************************************)
(* Instances of ScheduledWorker for TLC.                                   *)
(***************************************************************************)
EXTENDS ScheduledWorker, TLC

CONSTANTS n1, n2, n3, p1, p2

ThreeNotifs == {n1, n2, n3}
EastAndWest == {-1, 0, 1}

WorkerSymmetry == Permutations(Notif) \union Permutations(Pods)

=============================================================================
