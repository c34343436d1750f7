---------------------------- MODULE ProjectMemory ----------------------------
(***************************************************************************)
(* The memory of packages/context: facts are captured for the session and  *)
(* promoted to the Run and the project when they are good enough.          *)
(*                                                                         *)
(* A fact stands for its category and normalised, redacted text (its key); *)
(* a caller may name a record with an id of its own, so ids and facts are  *)
(* two things.  Of what a record carries, the fields the promotion rules   *)
(* read are kept, with the number of redactions.                           *)
(***************************************************************************)
EXTENDS Integers, FiniteSets

CONSTANTS Facts, Ids,
          Secrets,      \* facts whose text holds a credential assignment
          Confidences,  \* in tenths
          MaxOperations \* bound: captures and promotions

ASSUME MemoryAssumption ==
  /\ Confidences \subseteq 0 .. 10 /\ MaxOperations \in Nat
  /\ "none" \notin Ids

MinimumRunConfidence == 6
MinimumProjectConfidence == 8
Scopes == <<"ephemeral", "run", "project">>

VARIABLES records,     \* in each scope, the record of each id
          operations   \* captures and promotions so far

memoryVars == <<records, operations>>

(* The id a record gets from the digest of its scope and fact *)
DigestId(scope, fact) == <<scope, fact>>
ScopeNames == {Scopes[i] : i \in DOMAIN Scopes}
AnyId == Ids \cup {DigestId(s, f) : s \in ScopeNames, f \in Facts}
Candidate == [id : Ids \cup {"none"}, fact : Facts, confidence : Confidences,
              validated : BOOLEAN, reusable : BOOLEAN]

MemoryTypeOK ==
  /\ DOMAIN records = ScopeNames
  /\ \A s \in ScopeNames : \A id \in DOMAIN records[s] :
       /\ id \in AnyId
       /\ records[s][id].fact \in Facts
       /\ records[s][id].confidence \in Confidences
       /\ records[s][id].redactions \in Nat
  /\ operations \in 0 .. MaxOperations

-----------------------------------------------------------------------------
(* redactSecrets: a credential assignment is replaced by one that the same  *)
(* expression still matches, so each normalisation counts it again.         *)
RedactSecrets(fact) == IF fact \in Secrets THEN 1 ELSE 0

NormalizeCandidate(c) ==
  [id |-> c.id, fact |-> c.fact, confidence |-> c.confidence, validated |-> c.validated,
   reusable |-> c.reusable, redactions |-> RedactSecrets(c.fact)]

(* The record of the same fact in a scope *)
Existing(scope, fact) == {id \in DOMAIN records[scope] : records[scope][id].fact = fact}

(* Mutant of RecordId: the caller's id comes before the record there is. *)
MutantRecordId(scope, c) == IF c.id # "none" THEN c.id ELSE DigestId(scope, c.fact)

RecordId(scope, c) ==
  IF Existing(scope, c.fact) # {} THEN CHOOSE id \in Existing(scope, c.fact) : TRUE
  ELSE IF c.id # "none" THEN c.id ELSE DigestId(scope, c.fact)

(* A fact may not take the id of another one: upsert throws *)
Collides(scope, c) ==
  LET id == RecordId(scope, c)
  IN id \in DOMAIN records[scope] /\ records[scope][id].fact # c.fact

(* What upsert stores: the best of what was ever said of the fact *)
Merged(scope, c) ==
  LET known == {records[scope][id] : id \in Existing(scope, c.fact)}
  IN [fact       |-> c.fact,
      confidence |-> CHOOSE m \in {k.confidence : k \in known} \cup {c.confidence} :
                       \A n \in {k.confidence : k \in known} \cup {c.confidence} : n <= m,
      validated  |-> c.validated \/ \E k \in known : k.validated,
      reusable   |-> c.reusable \/ \E k \in known : k.reusable,
      redactions |-> IF known = {} THEN c.redactions
                     ELSE c.redactions + (CHOOSE k \in known : TRUE).redactions]

(* `store` with the candidate added to a scope of it *)
Upsert(store, scope, c) ==
  [store EXCEPT ![scope] =
     [id \in DOMAIN store[scope] \cup {RecordId(scope, c)} |->
        IF id = RecordId(scope, c) THEN Merged(scope, c) ELSE store[scope][id]]]

(* The first scope that has the id; its record is normalised again *)
FindCandidate(store, id) ==
  LET homes == {i \in DOMAIN Scopes : id \in DOMAIN store[Scopes[i]]}
      first == CHOOSE i \in homes : \A j \in homes : i <= j
      rec   == store[Scopes[first]][id]
  IN IF homes = {} THEN {}
     ELSE {[id |-> id, fact |-> rec.fact, confidence |-> rec.confidence,
            validated |-> rec.validated, reusable |-> rec.reusable,
            redactions |-> rec.redactions + RedactSecrets(rec.fact)]}

MayPromote(c, target) ==
  \/ target = "run" /\ c.confidence >= MinimumRunConfidence
  \/ /\ target = "project" /\ c.confidence >= MinimumProjectConfidence
     /\ c.validated /\ c.reusable

-----------------------------------------------------------------------------
MemoryInit ==
  /\ records = [s \in ScopeNames |-> << >>]
  /\ operations = 0

Capture(c) ==
  /\ operations < MaxOperations
  /\ ~Collides("ephemeral", c)
  /\ operations' = operations + 1
  /\ records' = Upsert(records, "ephemeral", NormalizeCandidate(c))

(* promote, with the target given or chosen by the candidate *)
Promote(id, asked) ==
  \E c \in FindCandidate(records, id) :
    LET target == IF asked # "none" THEN asked ELSE IF c.reusable THEN "project" ELSE "run"
    IN /\ operations < MaxOperations
       /\ MayPromote(c, target)
       /\ ~Collides(target, c)
       /\ records' = Upsert(records, target, c)
       /\ operations' = operations + 1

MemoryNext ==
  \/ \E c \in Candidate : Capture(c)
  \/ \E id \in AnyId, asked \in {"none", "run", "project"} : Promote(id, asked)

MemorySpec == MemoryInit /\ [][MemoryNext]_memoryVars

-----------------------------------------------------------------------------
(* A scope has one record of a fact, whatever ids its captures and promo-  *)
(* tions carried; and what reached the project was confident, validated    *)
(* and reusable, and stays so when weaker captures of the same fact are    *)
(* promoted over it.                                                       *)
ProjectIsVetted ==
  /\ \A s \in ScopeNames : \A i, j \in DOMAIN records[s] :
       records[s][i].fact = records[s][j].fact => i = j
  /\ \A id \in DOMAIN records["project"] :
       /\ records["project"][id].confidence >= MinimumProjectConfidence
       /\ records["project"][id].validated /\ records["project"][id].reusable
  /\ \A id \in DOMAIN records["run"] :
       records["run"][id].confidence >= MinimumRunConfidence
=============================================================================
