---------------------------- MODULE AgentRuntime ----------------------------
(***************************************************************************)
(* The in-memory agent runtime of packages/agents/src: the AgentGraph      *)
(* (graph.ts), the AgentMailbox (mailbox.ts), admission (capacity.ts) and  *)
(* the AgentSupervisor in front of them (supervisor.ts), for one Run.      *)
(*                                                                         *)
(* Every method is synchronous, so one call is one step; a call that       *)
(* throws, or that returns what is there already, changes nothing and is   *)
(* not a step.  The host persists snapshot() with each change; a restart   *)
(* passes it to the constructors.  Timestamps, task assignments and        *)
(* payloads are left out; Contents tells one message from another.         *)
(***************************************************************************)
EXTENDS RunLifecycle, Integers, FiniteSets, SequencesExt

CONSTANTS AgentIds,   \* agent ids
          Keys,       \* idempotency keys; a numeral stands for itself
          Contents,   \* sender, kind and payload of a message
          MaxMessages,\* bound: messages, each delivered twice at most
          MaxChanges, \* bound: changes of the graph
          MaxResident \* maximumResidentAgents

ASSUME AgentAssumption ==
  /\ IsFiniteSet(AgentIds) /\ "none" \notin AgentIds
  /\ Keys \subseteq Nat \ {0}
  /\ MaxMessages \in Nat /\ MaxChanges \in Nat /\ MaxResident \in Nat

NoAgent == "none"
NoKey == 0
Repeated == 0   \* a delivery id that a caller gives to all its claims

VARIABLES agents,    \* agentsById: parent and status
          byChild,   \* edgesByChild: the state of the edge to each child
          byParent,  \* edgesByParent: the same edges, listed by parent
          mail,      \* messagesById, in sequence order
          index,     \* idempotentMessageIds
          out,       \* claims whose receiver has not acted on them yet
          changes

agentVars == <<agents, byChild, byParent, mail, index, out, changes>>

Message == [to : AgentIds, id : AgentIds \X Nat, key : Keys \cup {NoKey},
            content : Contents, deliveries : Nat, delivery : Nat, acked : Nat,
            status : {"queued", "delivered", "acknowledged", "cancelled"}]

AgentTypeOK ==
  /\ DOMAIN agents \subseteq AgentIds
  /\ \A a \in DOMAIN agents :
       agents[a] \in [parent : AgentIds \cup {NoAgent}, status : AgentStatus]
  /\ DOMAIN byChild \subseteq AgentIds
  /\ \A a \in DOMAIN byChild :
       byChild[a] \in [parent : AgentIds, state : {"open", "closed"}]
  /\ byParent \in [AgentIds -> SUBSET [child : AgentIds,
                                       state : {"open", "closed"}]]
  /\ mail \in Seq(Message) /\ Len(mail) <= MaxMessages
  /\ index \subseteq AgentIds \X Keys \X (AgentIds \X Nat)
  /\ changes \in 0 .. MaxChanges

AgentInit ==
  /\ agents = << >> /\ byChild = << >>
  /\ byParent = [a \in AgentIds |-> {}]
  /\ mail = << >> /\ index = {} /\ out = {}
  /\ changes = 0

Known == DOMAIN agents
With(f, a, v) == [x \in DOMAIN f \cup {a} |-> IF x = a THEN v ELSE f[x]]
Change == changes < MaxChanges /\ changes' = changes + 1

---------------------------------------------------------------------------
(* The graph. *)

(* Mutant of Listed: the old edge is listed as well. *)
MutantListed(p, c, state) == byParent[p] \cup {[child |-> c, state |-> state]}

(* setEdge's second index: the old edge to the child is replaced. *)
Listed(p, c, state) ==
  {e \in byParent[p] : e.child # c} \cup {[child |-> c, state |-> state]}

SetEdge(p, c, state) ==
  /\ byChild' = With(byChild, c, [parent |-> p, state |-> state])
  /\ byParent' = [byParent EXCEPT ![p] = Listed(p, c, state)]

RegisterRoot(a) ==
  /\ a \notin Known
  /\ Change
  /\ agents' = With(agents, a, [parent |-> NoAgent, status |-> "created"])
  /\ UNCHANGED <<byChild, byParent, mail, index, out>>

MaySpawn(p, a) == p \in Known /\ a \notin Known

Spawn(p, a) ==
  /\ MaySpawn(p, a) /\ a # p
  /\ Change
  /\ agents' = With(agents, a, [parent |-> p, status |-> "created"])
  /\ SetEdge(p, a, "open")
  /\ UNCHANGED <<mail, index, out>>

CloseSpawnEdge(a) ==
  /\ a \in DOMAIN byChild /\ byChild[a].state = "open"
  /\ Change
  /\ SetEdge(byChild[a].parent, a, "closed")
  /\ UNCHANGED <<agents, mail, index, out>>

(* transitionAgent, suspendAgent and stopAgent. *)
TransitionAgent(a, status) ==
  /\ a \in Known /\ status # "closed"
  /\ CanTransitionAgent(agents[a].status, status)
  /\ Change
  /\ agents' = [agents EXCEPT ![a].status = status]
  /\ UNCHANGED <<byChild, byParent, mail, index, out>>

(* closeAgent, which closes the agent's edge and cancels none of its mail. *)
CloseAgent(a) ==
  /\ a \in Known /\ CanTransitionAgent(agents[a].status, "closed")
  /\ Change
  /\ agents' = [agents EXCEPT ![a].status = "closed"]
  /\ IF a \in DOMAIN byChild /\ byChild[a].state = "open"
     THEN SetEdge(byChild[a].parent, a, "closed")
     ELSE UNCHANGED <<byChild, byParent>>
  /\ UNCHANGED <<mail, index, out>>

(* The agents above a: ancestors() by the parent each agent names. *)
Lineage(a) ==
  LET up[k \in 0 .. Cardinality(AgentIds)] ==
        IF k = 0 THEN a
        ELSE IF up[k - 1] = NoAgent THEN NoAgent ELSE agents[up[k - 1]].parent
  IN  {up[k] : k \in DOMAIN up} \ {NoAgent}

HasOpenAncestry(a) ==
  \A x \in Lineage(a) :
    agents[x].parent # NoAgent
      => x \in DOMAIN byChild /\ byChild[x].state = "open"

(* descendants(): the depth-first walk down the second index. *)
Descendants(a) ==
  LET down[k \in 0 .. Cardinality(AgentIds)] ==
        IF k = 0 THEN {a}
        ELSE down[k - 1] \cup
             {e.child : e \in {d \in UNION {byParent[p] : p \in down[k - 1]} :
                                 d.state = "open"}}
  IN  down[Cardinality(AgentIds)] \ {a}

Resumable == {"waiting", "suspended", "recovering", "failed", "stopped"}

ResumeAgent(a) ==
  /\ a \in Known /\ agents[a].status \in Resumable /\ HasOpenAncestry(a)
  /\ Change
  /\ agents' = [agents EXCEPT ![a].status = "queued"]
  /\ UNCHANGED <<byChild, byParent, mail, index, out>>

Resident == {a \in Known : agents[a].status \in {"running", "waiting",
                                                 "recovering"}}

(* selectAgentsForAdmission, and the write of the scheduler that admits     *)
(* one of those selected.                                                   *)
AdmitAgent(a) ==
  /\ a \in Known /\ agents[a].status = "queued" /\ HasOpenAncestry(a)
  /\ Cardinality(Resident) < MaxResident
  /\ Change
  /\ agents' = [agents EXCEPT ![a].status = "running"]
  /\ UNCHANGED <<byChild, byParent, mail, index, out>>

---------------------------------------------------------------------------
(* The mailbox. *)

MailIds == {mail[i].id : i \in DOMAIN mail}

(* Mutant of Indexed: an absent key is indexed as well. *)
MutantIndexAll(a, key, id) == index \cup {<<a, key, id>>}

Indexed(a, key, id) ==
  IF key = NoKey THEN index ELSE index \cup {<<a, key, id>>}

(* sendMessage and enqueue.  The id is made of the recipient and the key,   *)
(* or the sequence where there is no key.                                   *)
SendMessage(a, key, content) ==
  LET id == <<a, IF key = NoKey THEN Len(mail) + 1 ELSE key>>
  IN  /\ a \in Known /\ agents[a].status # "closed"
      /\ Len(mail) < MaxMessages
      /\ key # NoKey => \A x \in index : <<x[1], x[2]>> # <<a, key>>
      /\ id \notin MailIds
      /\ mail' = Append(mail, [to |-> a, id |-> id, key |-> key,
                               content |-> content, deliveries |-> 0,
                               delivery |-> 0, acked |-> 0, status |-> "queued"])
      /\ index' = Indexed(a, key, id)
      /\ UNCHANGED <<agents, byChild, byParent, out, changes>>

Queued(a) == {i \in DOMAIN mail : mail[i].to = a /\ mail[i].status = "queued"}

(* Mutant of First: the newest come first. *)
MutantFirst(s, limit) == {i \in s : Cardinality({j \in s : j > i}) < limit}

First(s, limit) == {i \in s : Cardinality({j \in s : j < i}) < limit}

(* The id of a message's next delivery: made of the message and the number  *)
(* of the delivery, or what the caller of claim passes, which is as good    *)
(* when it is new and may as well be an old one.                            *)
DeliveryId(i, repeated) == IF repeated THEN Repeated ELSE mail[i].deliveries + 1

(* claim: the oldest queued messages *)
ClaimMessages(a, limit, repeated) ==
  LET claimed == First(Queued(a), limit)
  IN  /\ a \in Known /\ claimed # {}
      /\ \A i \in claimed : mail[i].deliveries < 2
      /\ mail' = [i \in DOMAIN mail |->
                    IF i \notin claimed THEN mail[i]
                    ELSE [mail[i] EXCEPT !.status = "delivered",
                                         !.deliveries = @ + 1,
                                         !.delivery = DeliveryId(i, repeated)]]
      /\ out' = out \cup {<<i, mail[i].deliveries + 1, DeliveryId(i, repeated)>> :
                           i \in claimed}
      /\ UNCHANGED <<agents, byChild, byParent, index, changes>>

(* acknowledge and requeue take delivered messages only, and refuse the id  *)
(* of another delivery than the last, if the receiver passes one.           *)
Current(i, id, passed) ==
  mail[i].status = "delivered" /\ (passed => mail[i].delivery = id)

(* The receiver of the nth delivery acknowledges; acked notes that it said  *)
(* so with an id of its own.                                                *)
AcknowledgeMessage(i, n, id, passed) ==
  /\ <<i, n, id>> \in out /\ Current(i, id, passed)
  /\ mail' = [mail EXCEPT ![i].status = "acknowledged",
               ![i].acked = IF passed /\ id # Repeated THEN n ELSE 0]
  /\ out' = out \ {<<i, n, id>>}
  /\ UNCHANGED <<agents, byChild, byParent, index, changes>>

(* A supervisor gives up on a receiver, which may answer all the same. *)
RequeueMessage(i, n, id, passed) ==
  /\ <<i, n, id>> \in out /\ Current(i, id, passed)
  /\ mail' = [mail EXCEPT ![i].status = "queued"]
  /\ UNCHANGED <<agents, byChild, byParent, index, out, changes>>

CancelMessage(i) ==
  /\ mail[i].status \in {"queued", "delivered"}
  /\ mail' = [mail EXCEPT ![i].status = "cancelled"]
  /\ UNCHANGED <<agents, byChild, byParent, index, out, changes>>

---------------------------------------------------------------------------
(* A restart: the constructors take the persisted snapshot, throw on one    *)
(* they do not accept, and build the two indexes anew.                      *)

(* addSnapshotAgent, addSnapshotEdge, assertTopology, assertAcyclicAncestry *)
GraphAccepted ==
  /\ \A a \in Known :
       LET p == agents[a].parent
       IN  /\ (p = NoAgent) <=> (a \notin DOMAIN byChild)
           /\ p # NoAgent => p \in Known \ {a} /\ byChild[a].parent = p
           /\ \E root \in Lineage(a) : agents[root].parent = NoAgent
  /\ DOMAIN byChild \subseteq Known

ListedByParent ==
  [p \in AgentIds |-> {[child |-> c, state |-> byChild[c].state] :
                        c \in {x \in DOMAIN byChild : byChild[x].parent = p}}]

(* assertSnapshotMessage and the mailbox constructor: ids are unique, keys  *)
(* are unique for a recipient, a delivered message was delivered.           *)
MailAccepted ==
  /\ \A i \in DOMAIN mail : mail[i].status = "delivered" => mail[i].deliveries > 0
  /\ \A i, j \in DOMAIN mail :
       i # j => /\ mail[i].id # mail[j].id
                /\ mail[i].to = mail[j].to /\ mail[i].key # NoKey
                     => mail[i].key # mail[j].key

KeysOfMail == {<<mail[i].to, mail[i].key, mail[i].id>> :
                 i \in {j \in DOMAIN mail : mail[j].key # NoKey}}

Restart ==
  /\ GraphAccepted /\ MailAccepted
  /\ Change
  /\ byParent' = ListedByParent /\ index' = KeysOfMail
  /\ UNCHANGED <<agents, byChild, mail, out>>

AgentNext ==
  \/ Restart
  \/ \E a \in AgentIds :
       \/ RegisterRoot(a) \/ CloseSpawnEdge(a) \/ CloseAgent(a)
       \/ ResumeAgent(a) \/ AdmitAgent(a)
       \/ \E p \in AgentIds : Spawn(p, a)
       \/ \E status \in AgentStatus : TransitionAgent(a, status)
       \/ \E key \in Keys \cup {NoKey}, content \in Contents :
            SendMessage(a, key, content)
       \/ \E limit \in 1 .. 2, repeated \in BOOLEAN :
            ClaimMessages(a, limit, repeated)
  \/ \E i \in DOMAIN mail :
       \/ CancelMessage(i)
       \/ \E n \in 1 .. mail[i].deliveries, passed \in BOOLEAN :
            \E id \in {n, Repeated} : \/ AcknowledgeMessage(i, n, id, passed)
                                     \/ RequeueMessage(i, n, id, passed)

AgentSpec == AgentInit /\ [][AgentNext]_agentVars

---------------------------------------------------------------------------
(* A restart accepts what the operations left behind, and both indexes it   *)
(* rebuilds are the ones the process had: no operation of the graph or the  *)
(* mailbox leaves a snapshot that the constructors throw on.  The two       *)
(* readings of "an active branch" agree as well: an agent may be resumed or *)
(* admitted (hasOpenAncestry, by the first index and the agents' parents)   *)
(* exactly when descendants() of some root, by the second index, finds it.  *)
SnapshotRestores ==
  /\ GraphAccepted /\ MailAccepted
  /\ byParent = ListedByParent /\ index = KeysOfMail
  /\ \A a \in Known :
       HasOpenAncestry(a) <=>
         \E root \in Known : /\ agents[root].parent = NoAgent
                             /\ a = root \/ a \in Descendants(root)

(* Each agent receives its messages in the order they were sent, the first  *)
(* time each is delivered, whatever is requeued or cancelled meanwhile; and *)
(* a receiver that was given up on does not settle a message which went to  *)
(* somebody else, as long as it passes the id of its delivery and the id is *)
(* that delivery's own.  (claim, requeue, acknowledge, assertDelivery)      *)
DeliveryIsOrderly ==
  /\ \A i, j \in DOMAIN mail :
       i < j /\ mail[i].to = mail[j].to /\ mail[j].deliveries > 0
         => mail[i].deliveries > 0 \/ mail[i].status = "cancelled"
  /\ \A i \in DOMAIN mail :
       mail[i].status = "acknowledged" => mail[i].acked \in {0, mail[i].deliveries}
=============================================================================
