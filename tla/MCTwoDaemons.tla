---------------------------- MODULE MCTwoDaemons ----------------------------
(* What two daemons do to one Run over one database, for TLC: who schedules *)
(* it, and what their turns make of its Task and Agent graph.  Each side    *)
(* has its own view of the Run's lease, so one behaviour is about one side  *)
(* while the other keeps its initial state.                                 *)
EXTENDS MCRunScheduler, MCTaskGraph

VARIABLE side

daemonsVars == <<vars, graphVars, side>>

DaemonsInit == side \in {"schedule", "graph"} /\ Init /\ GraphInit

DaemonsNext ==
  /\ UNCHANGED side
  /\ \/ side = "schedule" /\ Next /\ UNCHANGED graphVars
     \/ side = "graph" /\ GraphNext /\ UNCHANGED vars

DaemonsSpec == DaemonsInit /\ [][DaemonsNext]_daemonsVars
=============================================================================
