----------------------------- MODULE MCOutside -----------------------------
(* Everything the daemon meets outside, for TLC: the clients of module      *)
(* MCClients and the terminals that start and stop daemons.  They share no  *)
(* state, so one behaviour is about one side while the other keeps an       *)
(* initial state, in which its fairness asks for no step.                   *)
EXTENDS MCClients, DaemonControl

VARIABLE side

outsideVars == <<vars, daemonVars, side>>

OutsideInit ==
  /\ side \in {"clients", "terminals"}
  /\ Init /\ DaemonInit
  /\ side = "terminals" => focus = "stream"

OutsideNext ==
  /\ UNCHANGED side
  /\ \/ side = "clients" /\ Next /\ UNCHANGED daemonVars
     \/ side = "terminals" /\ DaemonNext /\ UNCHANGED vars

OutsideSpec ==
  /\ OutsideInit /\ [][OutsideNext]_outsideVars
  /\ McpFairness /\ LspFairness /\ StreamFairness /\ CommandFairness
=============================================================================
