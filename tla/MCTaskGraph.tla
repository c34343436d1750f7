----------------------------- MODULE MCTaskGraph -----------------------------
(* Instances of TaskGraph for TLC. *)
EXTENDS TaskGraph, TLC

TwoTasks    == {1, 2}
OneDelegate == {1}

(* The daemons run the same program and the checks name none of them. *)
AnyGraphDaemon == Permutations(Daemons)
=============================================================================
