------------------------- MODULE RunGrantRefinement -------------------------
(* The scheduler and the store implement RunGrant. *)
EXTENDS RunScheduler

Nobody == "nobody"

(* The database seen as grants: a lease that has expired is nobody's, the *)
(* continuation is the work, and the epoch of its claim the generation it *)
(* was claimed under.                                                     *)
Grant == INSTANCE RunGrant WITH
  epoch <- [r \in Runs |-> db[r].gen],
  owner <- [r \in Runs |-> IF db[r].live THEN db[r].holder ELSE Nobody],
  work  <- [r \in Runs |-> db[r].act],
  claim <- [r \in Runs |-> db[r].epoch]

(* However many daemons poll, crash, stall past their lease and come back, *)
(* what happens to the lease and the continuation of a Run is a behaviour  *)
(* of the abstract grant: only under the granted epoch is its work taken,  *)
(* finished or given back, and an epoch is never granted twice (store.ts   *)
(* acquireLease, claimContinuation, recoverClaimedWork, settleContinuation *)
(* as the scheduler calls them).                                           *)
ImplementsGrant == Grant!Spec
=============================================================================
