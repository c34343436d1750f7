------------------------------ MODULE RunGrant ------------------------------
(***************************************************************************)
(* What the control plane promises about the execution of its Runs,        *)
(* without ticks, turns and rows: the right to execute a Run is granted in *)
(* numbered epochs, each to one executor while nobody else has it, and the *)
(* Run's piece of work is claimed, given back or finished only under the   *)
(* epoch that is granted at that moment.  An executor that ends abandons   *)
(* all its Runs at once, so a step is a move of any number of Runs.        *)
(***************************************************************************)
EXTENDS Naturals

CONSTANTS Runs, Executors, Nobody,
          Gone   \* what is left of an executor whose process ended

VARIABLES epoch,  \* the latest epoch granted of each Run
          owner,  \* who has it, Nobody once it has lapsed
          work,   \* "none", "pending" or "claimed"
          claim   \* the epoch the work is claimed under, else 0

grantVars == <<epoch, owner, work, claim>>

Init ==
  /\ epoch = [r \in Runs |-> 0]
  /\ owner = [r \in Runs |-> Nobody]
  /\ work = [r \in Runs |-> "none"]
  /\ claim = [r \in Runs |-> 0]

SameGrant(r) == epoch'[r] = epoch[r] /\ owner'[r] = owner[r]
SameWork(r)  == work'[r] = work[r] /\ claim'[r] = claim[r]

(* A new epoch; the work may still be claimed under the one before *)
Take(r) ==
  /\ owner[r] = Nobody
  /\ epoch'[r] = epoch[r] + 1 /\ owner'[r] \in Executors
  /\ SameWork(r)

Lapse(r) ==
  /\ owner'[r] = Nobody
  /\ epoch'[r] = epoch[r] /\ SameWork(r)

Abandon(r) ==
  /\ owner[r] \in Executors /\ owner'[r] = Gone
  /\ epoch'[r] = epoch[r] /\ SameWork(r)

(* There is something to do: anyone may say so *)
Publish(r) ==
  /\ work[r] = "none" /\ work'[r] = "pending" /\ claim'[r] = claim[r]
  /\ SameGrant(r)

Claim(r) ==
  /\ owner[r] \in Executors /\ work[r] = "pending"
  /\ work'[r] = "claimed" /\ claim'[r] = epoch[r]
  /\ SameGrant(r)

(* The work of an epoch that is over goes back to the queue *)
Recover(r) ==
  /\ owner[r] \in Executors /\ work[r] = "claimed" /\ claim[r] < epoch[r]
  /\ work'[r] = "pending" /\ claim'[r] = 0
  /\ SameGrant(r)

(* The work is finished, and there may be more of it *)
Settle(r) ==
  /\ owner[r] \in Executors /\ work[r] = "claimed" /\ claim[r] = epoch[r]
  /\ work'[r] \in {"none", "pending"} /\ claim'[r] = 0
  /\ SameGrant(r)

Next ==
  \A r \in Runs :
    \/ SameGrant(r) /\ SameWork(r)
    \/ Take(r) \/ Lapse(r) \/ Abandon(r)
    \/ Publish(r) \/ Claim(r) \/ Recover(r) \/ Settle(r)

Spec == Init /\ [][Next]_grantVars
=============================================================================
