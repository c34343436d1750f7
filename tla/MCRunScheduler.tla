--------------------------- MODULE MCRunScheduler ---------------------------
(* Instances of RunScheduler for TLC: which commands users issue. *)
EXTENDS RunGrantRefinement, TLC

Req(id, run, kind) == [id |-> id, run |-> run, kind |-> kind]

(* One Run: it is paused, and resumed after whatever stopped it, twice. *)
OneRunRequests ==
  {Req("p1", 1, "pause"), Req("r1", 1, "resume"), Req("r2", 1, "resume")}

(* Two Runs: the older is paused and resumed, the newer cancelled. *)
TwoRunRequests ==
  {Req("p1", 1, "pause"), Req("r1", 1, "resume"), Req("c2", 2, "cancel")}

OneDaemonRequests == OneRunRequests \cup TwoRunRequests

(* A pause and a resume, which either daemon may receive, twice. *)
PauseResume == {Req("p1", 1, "pause"), Req("r1", 1, "resume")}

OneRun  == {1}
TwoRuns == {1, 2}

(* One daemon has one Run, with everything that may happen to it, or two,   *)
(* of which the first has met little so far.  Bounds of the second case:    *)
(* two commands or faults, at most one of them a fault (a crash, an         *)
(* exception or a lost settle), no approval, one pending wake per Run, no   *)
(* second resume, and no lapse of the lease of a live daemon.               *)
SecondRun == \E r \in Runs : r > 1 /\ db[r].status # "absent"

FewEvents ==
  /\ receipts \subseteq {q.id : q \in TwoRunRequests}
  /\ crashes + throws + storeFaults <= 1
  /\ Cardinality(receipts) + crashes + throws + storeFaults <= 2
  /\ \A r \in Runs : /\ db[r].timers <= 1
                     /\ \A a \in Approvals : db[r].approvals[a] = "none"
                     /\ db[r].holder = Gone \/ db[r].live

(* A settle is lost with two Runs only, and no exception comes before it. *)
OneDaemonNext == Next /\ IF SecondRun' THEN FewEvents' ELSE storeFaults' = 0
OneDaemonSpec == Init /\ [][OneDaemonNext]_vars /\ Fairness

(* The daemons run the same program and the checks name none of them. *)
AnyDaemon == Permutations(Executors)
=============================================================================
