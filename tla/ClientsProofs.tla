---------------------------- MODULE ClientsProofs ----------------------------
(***************************************************************************)
(* Theorems about what talks to the outside.                               *)
(*                                                                         *)
(* MCP servers: whatever happens to one server touches its entry and its   *)
(* connection together, so the invariant is one on that pair of rows; that *)
(* nobody waits in vain then relates the turns and the reconcile passes to *)
(* the rows of the server they wait for.  Language servers: a call and the *)
(* client it waits for.  The event stream: what has been read and not yet  *)
(* shown, and what is under way, are the next events in order.             *)
(***************************************************************************)
EXTENDS MCClients, WellFoundedInduction, TLAPS

EntryFields == {"desired", "state", "attempt", "retry", "client"}
ConnFields == {"step", "wire"}

EntryShape(e) == DOMAIN e = EntryFields /\ e.attempt \in Nat
ConnShape(c) == DOMAIN c = ConnFields

(* The client is the open connection, and what has failed often enough is   *)
(* given up, whatever is wanted of the server.                              *)
Supervised(e, c) ==
  /\ e.client <=> c.wire = "open"
  /\ c.step = "idle" /\ e.attempt >= MaxAttempts /\ e.attempt > 0 => e.state = "failed"

RowsInv ==
  /\ DOMAIN entry = Servers /\ DOMAIN conn = Servers
  /\ \A s \in Servers : EntryShape(entry[s]) /\ ConnShape(conn[s])
                          /\ Supervised(entry[s], conn[s])

-----------------------------------------------------------------------------
(* The operators on a row.                                                  *)

(* recordFailure drops the client, counts, and gives up at the limit.       *)
LEMMA FailureIsCounted ==
  ASSUME NEW e, EntryShape(e), NEW retryable, NEW f, f = RecordFailure(e, retryable)
  PROVE  /\ EntryShape(f) /\ ~f.client /\ f.attempt = e.attempt + 1
         /\ f.desired = e.desired
         /\ f.attempt >= MaxAttempts => f.state = "failed"
<1> DEFINE again == e.desired = "connected" /\ retryable /\ e.attempt + 1 < MaxAttempts
<1>1. f = [e EXCEPT !.client = FALSE, !.attempt = e.attempt + 1,
                    !.retry = IF again THEN "waiting" ELSE "none",
                    !.state = IF again THEN "reconnecting" ELSE "failed"]
  BY Zenon DEF RecordFailure
<1>2. again => ~(e.attempt + 1 >= MaxAttempts)
  BY McpAssumption DEF EntryShape
<1> HIDE DEF again
<1>3. DOMAIN e = EntryFields /\ e.attempt \in Nat
  BY DEF EntryShape
<1>4. /\ DOMAIN f = EntryFields /\ f.client = FALSE /\ f.attempt = e.attempt + 1
      /\ f.desired = e.desired
      /\ f.state = IF again THEN "reconnecting" ELSE "failed"
  BY <1>1, <1>3 DEF EntryFields
<1> QED
  BY <1>2, <1>3, <1>4 DEF EntryShape

(* close() leaves no open wire, and does not touch connectEntry.            *)
LEMMA HangupCloses ==
  ASSUME NEW c, ConnShape(c), NEW d, d = Hangup(c)
  PROVE  ConnShape(d) /\ d.wire # "open" /\ d.step = c.step
<1>1. CASE c.wire = "open"
  <2>1. d = [c EXCEPT !.wire = "closed"]
    BY <1>1 DEF Hangup
  <2> QED
    BY <2>1 DEF ConnShape, ConnFields
<1>2. CASE c.wire # "open"
  BY <1>2 DEF Hangup
<1> QED
  BY <1>1, <1>2

(* setDesiredState("connected") forgets the failures of a server that was   *)
(* given up, and keeps its client.                                          *)
LEMMA WantedKeeps ==
  ASSUME NEW e, EntryShape(e), NEW f, f = Wanted(e)
  PROVE  /\ EntryShape(f) /\ f.client = e.client
         /\ (f.state = e.state /\ f.attempt = e.attempt) \/ f.attempt = 0
<1>1. CASE e.state = "failed"
  <2>1. f = [e EXCEPT !.desired = "connected", !.attempt = 0, !.retry = "none",
                      !.state = "disconnected"]
    BY <1>1 DEF Wanted
  <2> QED
    BY <2>1 DEF EntryShape, EntryFields
<1>2. CASE e.state # "failed"
  <2>1. f = [e EXCEPT !.desired = "connected"]
    BY <1>2 DEF Wanted
  <2> QED
    BY <2>1 DEF EntryShape, EntryFields
<1> QED
  BY <1>1, <1>2

(* open: the connection over HTTP is a client at once, a child is one when  *)
(* it has been spawned; connectEntry is under way in both cases.            *)
LEMMA OpenIsSupervised ==
  ASSUME NEW s, NEW e, EntryShape(e), NEW f, f = OpenedEntry(s, e)
  PROVE  EntryShape(f) /\ ConnShape(Dial(s)) /\ Supervised(f, Dial(s))
         /\ Dial(s).step # "idle"
<1>1. PICK x : f = [[e EXCEPT !.state = x] EXCEPT !.client = s \notin Stdio]
  BY Zenon DEF OpenedEntry, Opening
<1>2. DOMAIN e = EntryFields /\ e.attempt \in Nat
  BY DEF EntryShape
<1>3. PICK b \in BOOLEAN : b = (s \notin Stdio)
  BY Zenon
<1>4. f = [[e EXCEPT !.state = x] EXCEPT !.client = b]
  BY <1>1, <1>3, Zenon
<1>5. DOMAIN f = EntryFields /\ f.attempt = e.attempt /\ f.client = b
  BY <1>2, <1>4 DEF EntryFields
<1>6. CASE s \in Stdio
  <2>1. b = FALSE
    BY <1>3, <1>6, Zenon
  <2>2. Dial(s) = [step |-> "spawning", wire |-> "none"]
    BY <1>6 DEF Dial
  <2>3. Dial(s).step = "spawning" /\ Dial(s).wire = "none" /\ ConnShape(Dial(s))
    BY <2>2 DEF ConnShape, ConnFields
  <2> QED
    BY <1>2, <1>5, <2>1, <2>3 DEF EntryShape, Supervised
<1>7. CASE s \notin Stdio
  <2>1. b = TRUE
    BY <1>3, <1>7, Zenon
  <2>2. Dial(s) = [step |-> "initialize", wire |-> "open"]
    BY <1>7 DEF Dial
  <2>3. Dial(s).step = "initialize" /\ Dial(s).wire = "open" /\ ConnShape(Dial(s))
    BY <2>2 DEF ConnShape, ConnFields
  <2> QED
    BY <1>2, <1>5, <2>1, <2>3 DEF EntryShape, Supervised
<1> QED
  BY <1>6, <1>7

-----------------------------------------------------------------------------
(* The rows of the servers.                                                 *)

(* A step that writes at most the rows of one server.                       *)
RowsChange(x) ==
  /\ DOMAIN entry' = DOMAIN entry /\ DOMAIN conn' = DOMAIN conn
  /\ \A s \in Servers : s # x => entry'[s] = entry[s] /\ conn'[s] = conn[s]
RowIsSound(x) ==
  EntryShape(entry'[x]) /\ ConnShape(conn'[x]) /\ Supervised(entry'[x], conn'[x])

LEMMA RowsChangeKeeps ==
  ASSUME RowsInv, NEW x, RowsChange(x), x \in Servers => RowIsSound(x)
  PROVE  RowsInv'
<1>1. DOMAIN entry' = Servers /\ DOMAIN conn' = Servers
  BY DEF RowsInv, RowsChange
<1>2. ASSUME NEW s \in Servers
      PROVE  EntryShape(entry'[s]) /\ ConnShape(conn'[s]) /\ Supervised(entry'[s], conn'[s])
  <2>1. CASE s = x
    BY <2>1 DEF RowIsSound
  <2>2. CASE s # x
    <3>1. entry'[s] = entry[s] /\ conn'[s] = conn[s]
      BY <2>2 DEF RowsChange
    <3>2. EntryShape(entry[s]) /\ ConnShape(conn[s]) /\ Supervised(entry[s], conn[s])
      BY DEF RowsInv
    <3> QED
      BY <3>1, <3>2, Zenon
  <2> QED
    BY <2>1, <2>2
<1>3. RowsInv' = (/\ DOMAIN entry' = Servers /\ DOMAIN conn' = Servers
                  /\ \A s \in Servers : EntryShape(entry'[s]) /\ ConnShape(conn'[s])
                                          /\ Supervised(entry'[s], conn'[s]))
  BY Zenon DEF RowsInv, EntryShape, ConnShape, Supervised
<1> QED
  BY <1>1, <1>2, <1>3

(* connectEntry settles with a failure. *)
LEMMA ConnectFailsKeepsRows ==
  ASSUME RowsInv, NEW x, NEW retryable, ConnectFails(x, entry[x], retryable)
  PROVE  /\ RowsInv' /\ RowsChange(x)
         /\ x \in Servers => conn'[x].wire # "open" /\ conn'[x].step = "idle"
<1> DEFINE f == RecordFailure(entry[x], retryable)
           d == Hangup(conn[x])
           g == [d EXCEPT !.step = "idle"]
<1>1. entry' = [entry EXCEPT ![x] = f] /\ conn' = [conn EXCEPT ![x] = g]
  BY Zenon DEF ConnectFails
<1>2. DOMAIN entry = Servers /\ DOMAIN conn = Servers
  BY DEF RowsInv
<1>3. ASSUME x \in Servers
      PROVE  /\ EntryShape(f) /\ ~f.client
             /\ f.attempt >= MaxAttempts => f.state = "failed"
             /\ ConnShape(d) /\ d.wire # "open"
  <2>1. EntryShape(entry[x]) /\ ConnShape(conn[x])
    BY <1>3 DEF RowsInv
  <2> HIDE DEF f, d
  <2> QED
    BY <2>1, FailureIsCounted, HangupCloses DEF f, d
<1> HIDE DEF f, d
<1>4. x \in Servers => ConnShape(g) /\ g.wire # "open" /\ g.step = "idle"
  BY <1>3 DEF ConnShape, ConnFields
<1> HIDE DEF g
<1>5. RowsChange(x) /\ (x \in Servers => entry'[x] = f /\ conn'[x] = g)
  BY <1>1, <1>2 DEF RowsChange
<1>6. x \in Servers => RowIsSound(x)
  <2> SUFFICES ASSUME x \in Servers PROVE RowIsSound(x)
    OBVIOUS
  <2>1. EntryShape(f) /\ ConnShape(g) /\ Supervised(f, g)
    BY <1>3, <1>4 DEF Supervised
  <2> QED
    BY <1>5, <2>1, Zenon DEF RowIsSound
<1> QED
  BY <1>4, <1>5, <1>6, RowsChangeKeeps

LEMMA SpawnOkKeepsRows ==
  ASSUME RowsInv, NEW s \in Servers, SpawnOk(s)
  PROVE  RowsInv' /\ RowsChange(s) /\ conn'[s].step = "initialize"
         /\ conn'[s].wire = "open"
<1> DEFINE f == [entry[s] EXCEPT !.client = TRUE]
           g == [step |-> "initialize", wire |-> "open"]
<1>1. /\ DOMAIN entry = Servers /\ DOMAIN conn = Servers /\ EntryShape(entry[s])
  BY DEF RowsInv
<1>2. entry' = [entry EXCEPT ![s] = f] /\ conn' = [conn EXCEPT ![s] = g]
  BY DEF SpawnOk
<1>3. DOMAIN f = EntryFields /\ f.attempt = entry[s].attempt /\ f.client = TRUE
  BY <1>1 DEF EntryShape, EntryFields
<1>4. ConnShape(g) /\ g.wire = "open" /\ g.step = "initialize"
  BY DEF ConnShape, ConnFields
<1> HIDE DEF f, g
<1>5. RowsChange(s) /\ entry'[s] = f /\ conn'[s] = g
  BY <1>1, <1>2 DEF RowsChange
<1>6. EntryShape(f) /\ Supervised(f, g)
  BY <1>1, <1>3, <1>4 DEF EntryShape, Supervised
<1>7. RowIsSound(s)
  BY <1>4, <1>5, <1>6, Zenon DEF RowIsSound
<1> QED
  BY <1>4, <1>5, <1>7, RowsChangeKeeps

(* The result of initialize arrives on an open connection. *)
LEMMA AnswerKeepsRows ==
  ASSUME RowsInv, NEW s \in Servers, InitializeAnswered(s), conn[s].wire = "open"
  PROVE  RowsInv' /\ RowsChange(s) /\ conn'[s].step = "notify" /\ conn'[s].wire = "open"
<1> DEFINE g == [conn[s] EXCEPT !.step = "notify"]
<1>1. /\ DOMAIN entry = Servers /\ DOMAIN conn = Servers /\ EntryShape(entry[s])
      /\ ConnShape(conn[s]) /\ Supervised(entry[s], conn[s])
  BY DEF RowsInv
<1>2. entry' = entry /\ conn' = [conn EXCEPT ![s] = g]
  BY DEF InitializeAnswered
<1>3. ConnShape(g) /\ g.wire = conn[s].wire /\ g.step = "notify"
  BY <1>1 DEF ConnShape, ConnFields
<1> HIDE DEF g
<1>4. RowsChange(s) /\ entry'[s] = entry[s] /\ conn'[s] = g
  BY <1>1, <1>2 DEF RowsChange
<1>5. Supervised(entry[s], g)
  BY <1>1, <1>3 DEF Supervised
<1>6. RowIsSound(s)
  BY <1>1, <1>3, <1>4, <1>5, Zenon DEF RowIsSound
<1> QED
  BY <1>3, <1>4, <1>6, RowsChangeKeeps

LEMMA NotifiedKeepsRows ==
  ASSUME RowsInv, NEW s \in Servers, InitializedNotified(s)
  PROVE  RowsInv' /\ RowsChange(s) /\ conn'[s].step = "idle"
         /\ conn'[s].wire = conn[s].wire
<1> DEFINE f == [entry[s] EXCEPT !.state = "connected", !.attempt = 0, !.retry = "none"]
           g == [conn[s] EXCEPT !.step = "idle"]
<1>1. /\ DOMAIN entry = Servers /\ DOMAIN conn = Servers /\ EntryShape(entry[s])
      /\ ConnShape(conn[s]) /\ Supervised(entry[s], conn[s])
  BY DEF RowsInv
<1>2. entry' = [entry EXCEPT ![s] = f] /\ conn' = [conn EXCEPT ![s] = g]
  BY <1>1 DEF InitializedNotified
<1>3. DOMAIN f = EntryFields /\ f.attempt = 0 /\ f.client = entry[s].client
  BY <1>1 DEF EntryShape, EntryFields
<1>4. ConnShape(g) /\ g.wire = conn[s].wire /\ g.step = "idle"
  BY <1>1 DEF ConnShape, ConnFields
<1> HIDE DEF f, g
<1>5. RowsChange(s) /\ entry'[s] = f /\ conn'[s] = g
  BY <1>1, <1>2 DEF RowsChange
<1>6. EntryShape(f) /\ Supervised(f, g)
  BY <1>1, <1>3, <1>4 DEF EntryShape, Supervised
<1>7. RowIsSound(s)
  BY <1>4, <1>5, <1>6, Zenon DEF RowIsSound
<1> QED
  BY <1>4, <1>5, <1>7, RowsChangeKeeps

LEMMA RetryDueKeepsRows ==
  ASSUME RowsInv, NEW s \in Servers, RetryDue(s)
  PROVE  RowsInv' /\ RowsChange(s)
<1> DEFINE f == [entry[s] EXCEPT !.retry = "due"]
<1>1. /\ DOMAIN entry = Servers /\ DOMAIN conn = Servers /\ EntryShape(entry[s])
      /\ ConnShape(conn[s]) /\ Supervised(entry[s], conn[s])
  BY DEF RowsInv
<1>2. entry' = [entry EXCEPT ![s] = f] /\ conn' = conn
  BY DEF RetryDue
<1>3. /\ DOMAIN f = EntryFields /\ f.attempt = entry[s].attempt
      /\ f.client = entry[s].client /\ f.state = entry[s].state
  BY <1>1 DEF EntryShape, EntryFields
<1> HIDE DEF f
<1>4. RowsChange(s) /\ entry'[s] = f /\ conn'[s] = conn[s]
  BY <1>1, <1>2 DEF RowsChange
<1>5. EntryShape(f) /\ Supervised(f, conn[s])
  BY <1>1, <1>3 DEF EntryShape, Supervised
<1>6. RowIsSound(s)
  BY <1>1, <1>4, <1>5, Zenon DEF RowIsSound
<1> QED
  BY <1>4, <1>6, RowsChangeKeeps

(* finish: the close listener counts a failure, and connectEntry another    *)
(* one if its initialize was rejected with the connection.                  *)
LEMMA LossKeepsRows ==
  ASSUME RowsInv, NEW s \in Servers, ConnectionLost(s)
  PROVE  /\ RowsInv' /\ RowsChange(s) /\ conn'[s].wire = "closed"
         /\ conn'[s].step = IF conn[s].step = "initialize" THEN "idle" ELSE conn[s].step
<1>1. /\ DOMAIN entry = Servers /\ DOMAIN conn = Servers /\ EntryShape(entry[s])
      /\ ConnShape(conn[s]) /\ Supervised(entry[s], conn[s])
  BY DEF RowsInv
<1> DEFINE gone == [entry[s] EXCEPT !.client = FALSE]
           heard(retryable) == IF gone.desired = "connected"
                               THEN RecordFailure(gone, retryable) ELSE gone
           cut == [conn[s] EXCEPT !.wire = "closed"]
<1>2. PICK retryable \in BOOLEAN :
        IF conn[s].step = "initialize"
        THEN /\ entry' = [entry EXCEPT ![s] = RecordFailure(heard(retryable), retryable)]
             /\ conn' = [conn EXCEPT ![s] = [cut EXCEPT !.step = "idle"]]
        ELSE /\ entry' = [entry EXCEPT ![s] = heard(retryable)]
             /\ conn' = [conn EXCEPT ![s] = cut]
  BY Zenon DEF ConnectionLost
<1> DEFINE h == heard(retryable)
           c == cut
<1>3. /\ EntryShape(gone) /\ gone.client = FALSE /\ gone.state = entry[s].state
      /\ gone.attempt = entry[s].attempt
  BY <1>1 DEF EntryShape, EntryFields
<1>4. ConnShape(c) /\ c.wire = "closed" /\ c.step = conn[s].step
  BY <1>1 DEF ConnShape, ConnFields
<1> HIDE DEF gone
<1>5. /\ EntryShape(h) /\ ~h.client
      /\ \/ h.attempt >= MaxAttempts => h.state = "failed"
         \/ h.attempt = entry[s].attempt /\ h.state = entry[s].state
  <2>1. CASE gone.desired = "connected"
    <3>1. h = RecordFailure(gone, retryable)
      BY <2>1
    <3> HIDE DEF h
    <3> QED
      BY <1>3, <3>1, FailureIsCounted
  <2>2. CASE gone.desired # "connected"
    <3>1. h = gone
      BY <2>2
    <3> HIDE DEF h
    <3> QED
      BY <1>3, <3>1
  <2> QED
    BY <2>1, <2>2
<1> HIDE DEF h, c
<1>6. CASE conn[s].step = "initialize"
  <2> DEFINE f == RecordFailure(h, retryable)
             g == [c EXCEPT !.step = "idle"]
  <2>1. entry' = [entry EXCEPT ![s] = f] /\ conn' = [conn EXCEPT ![s] = g]
    BY <1>2, <1>6, Zenon DEF h, c
  <2>2. EntryShape(f) /\ ~f.client /\ (f.attempt >= MaxAttempts => f.state = "failed")
    BY <1>5, FailureIsCounted
  <2>3. ConnShape(g) /\ g.wire = "closed" /\ g.step = "idle"
    BY <1>4 DEF ConnShape, ConnFields
  <2> HIDE DEF f, g
  <2>4. RowsChange(s) /\ entry'[s] = f /\ conn'[s] = g
    BY <1>1, <2>1 DEF RowsChange
  <2>5. Supervised(f, g)
    BY <2>2, <2>3 DEF Supervised
  <2>6. RowIsSound(s)
    BY <2>2, <2>3, <2>4, <2>5, Zenon DEF RowIsSound
  <2> QED
    BY <1>6, <2>3, <2>4, <2>6, RowsChangeKeeps
<1>7. CASE conn[s].step # "initialize"
  <2>1. entry' = [entry EXCEPT ![s] = h] /\ conn' = [conn EXCEPT ![s] = c]
    BY <1>2, <1>7, Zenon DEF h, c
  <2>2. RowsChange(s) /\ entry'[s] = h /\ conn'[s] = c
    BY <1>1, <2>1 DEF RowsChange
  <2>3. Supervised(h, c)
    BY <1>1, <1>4, <1>5 DEF Supervised
  <2>4. RowIsSound(s)
    BY <1>4, <1>5, <2>2, <2>3, Zenon DEF RowIsSound
  <2> QED
    BY <1>4, <1>7, <2>2, <2>4, RowsChangeKeeps
<1> QED
  BY <1>6, <1>7

(* A set of servers that is not empty has a first. *)
LEMMA FirstServer ==
  ASSUME NEW S, S \subseteq Servers, S # {}
  PROVE  Min(S) \in S
<1>1. S \subseteq Nat
  BY McpAssumption
<1>2. PICK x \in S : \A y \in S : ~(<<y, x>> \in OpToRel(<, Nat))
  BY <1>1, WFMin, NatLessThanWellFounded, Zenon
<1>3. \A y \in S : ~(y < x)
  BY <1>1, <1>2 DEF OpToRel
<1>4. \A y \in S : x =< y
  BY <1>1, <1>3
<1> QED
  BY <1>4 DEF Min

(* open, by a reconcile or by a turn. *)
LEMMA OpenKeepsRows ==
  ASSUME RowsInv, NEW s \in Servers, NEW e, EntryShape(e),
         entry' = [entry EXCEPT ![s] = OpenedEntry(s, e)],
         conn' = [conn EXCEPT ![s] = Dial(s)]
  PROVE  RowsInv' /\ RowsChange(s) /\ conn'[s].step # "idle"
<1> DEFINE f == OpenedEntry(s, e)
<1>1. DOMAIN entry = Servers /\ DOMAIN conn = Servers
  BY DEF RowsInv
<1>2. EntryShape(f) /\ ConnShape(Dial(s)) /\ Supervised(f, Dial(s)) /\ Dial(s).step # "idle"
  BY OpenIsSupervised
<1> HIDE DEF f
<1>3. entry' = [entry EXCEPT ![s] = f]
  BY DEF f
<1>4. RowsChange(s) /\ entry'[s] = f /\ conn'[s] = Dial(s)
  BY <1>1, <1>3 DEF RowsChange
<1>5. RowIsSound(s)
  BY <1>2, <1>4, Zenon DEF RowIsSound
<1> QED
  BY <1>2, <1>4, <1>5, RowsChangeKeeps

(* setDesiredState("connected") on a server that has a client or is being   *)
(* connected.                                                               *)
LEMMA WantKeepsRows ==
  ASSUME RowsInv, NEW s \in Servers, entry' = [entry EXCEPT ![s] = Wanted(entry[s])],
         conn' = conn
  PROVE  RowsInv' /\ RowsChange(s)
<1> DEFINE f == Wanted(entry[s])
<1>1. /\ DOMAIN entry = Servers /\ DOMAIN conn = Servers /\ EntryShape(entry[s])
      /\ ConnShape(conn[s]) /\ Supervised(entry[s], conn[s])
  BY DEF RowsInv
<1>2. /\ EntryShape(f) /\ f.client = entry[s].client
      /\ (f.state = entry[s].state /\ f.attempt = entry[s].attempt) \/ f.attempt = 0
  BY <1>1, WantedKeeps, Zenon
<1> HIDE DEF f
<1>3. entry' = [entry EXCEPT ![s] = f]
  BY DEF f
<1>4. RowsChange(s) /\ entry'[s] = f /\ conn'[s] = conn[s]
  BY <1>1, <1>3 DEF RowsChange
<1>5. Supervised(f, conn[s])
  BY <1>1, <1>2 DEF Supervised
<1>6. RowIsSound(s)
  BY <1>1, <1>2, <1>4, <1>5, Zenon DEF RowIsSound
<1> QED
  BY <1>4, <1>6, RowsChangeKeeps

(* close() of every server, in the daemon's shutdown. *)
LEMMA ShutdownKeepsRows ==
  ASSUME RowsInv, Shutdown
  PROVE  RowsInv'
<1>1. DOMAIN entry' = Servers /\ DOMAIN conn' = Servers
  BY DEF Shutdown
<1>2. ASSUME NEW s \in Servers
      PROVE  EntryShape(entry'[s]) /\ ConnShape(conn'[s]) /\ Supervised(entry'[s], conn'[s])
  <2> DEFINE e == [entry[s] EXCEPT !.desired = "disconnected", !.client = FALSE,
                                   !.state = "disconnected", !.attempt = 0,
                                   !.retry = "none"]
             f == Disconnected(s)
             d == Hangup(conn[s])
             g == [d EXCEPT !.step = "idle"]
  <2>1. /\ EntryShape(entry[s]) /\ ConnShape(conn[s]) /\ Supervised(entry[s], conn[s])
    BY DEF RowsInv
  <2>2. EntryShape(e) /\ ~e.client /\ e.attempt = 0
    BY <2>1 DEF EntryShape, EntryFields
  <2>3. f = RecordFailure(e, FALSE) \/ f = e
    BY Zenon DEF Disconnected
  <2> HIDE DEF e, f
  <2>4. /\ EntryShape(f) /\ ~f.client
        /\ f.attempt >= MaxAttempts /\ f.attempt > 0 => f.state = "failed"
    <3>1. CASE f = RecordFailure(e, FALSE)
      BY <2>2, <3>1, FailureIsCounted
    <3>2. CASE f = e
      BY <2>2, <3>2
    <3> QED
      BY <2>3, <3>1, <3>2
  <2>5. ConnShape(d) /\ d.wire # "open"
    BY <2>1, HangupCloses
  <2> HIDE DEF d
  <2>6. ConnShape(g) /\ g.wire # "open"
    BY <2>5 DEF ConnShape, ConnFields
  <2>7. /\ entry'[s] = f
        /\ \/ conn'[s] = conn[s] /\ ~entry[s].client
           \/ conn'[s] = g
           \/ conn'[s] = d
    BY Zenon DEF Shutdown, f, g, d
  <2> HIDE DEF g
  <2>8. ConnShape(conn'[s]) /\ conn'[s].wire # "open"
    BY <2>1, <2>5, <2>6, <2>7 DEF Supervised
  <2>9. Supervised(f, conn'[s])
    BY <2>4, <2>8 DEF Supervised
  <2> QED
    BY <2>4, <2>7, <2>8, <2>9, Zenon
<1>3. RowsInv' = (/\ DOMAIN entry' = Servers /\ DOMAIN conn' = Servers
                  /\ \A s \in Servers : EntryShape(entry'[s]) /\ ConnShape(conn'[s])
                                          /\ Supervised(entry'[s], conn'[s]))
  BY Zenon DEF RowsInv, EntryShape, ConnShape, Supervised
<1> QED
  BY <1>1, <1>2, <1>3

LEMMA RowsUntouched ==
  ASSUME RowsInv, UNCHANGED <<entry, conn>>
  PROVE  RowsInv'
BY DEF RowsInv, EntryShape, ConnShape, Supervised

-----------------------------------------------------------------------------
(* Who waits.  A turn that awaits connectEntry, or a response over pipes,   *)
(* and a reconcile that awaits connectEntry wait for the row of a server,   *)
(* which `cs` gives.                                                        *)

TurnFields == {"todo", "surface", "on", "kind", "wait", "opener"}
PassFields == {"at", "waits", "late"}

TurnReturns(row, cs) ==
  /\ DOMAIN row = TurnFields
  /\ row.todo \subseteq Servers /\ row.surface \subseteq Servers
  /\ row.wait \in {"connect", "reply"} => row.on \in Servers
  /\ row.wait = "connect" => cs[row.on].step # "idle"
  /\ row.wait = "reply" /\ row.on \in Stdio => cs[row.on].wire = "open"
PassReturns(row, cs) ==
  /\ DOMAIN row = PassFields
  /\ row.waits # None => row.waits \in Servers /\ cs[row.waits].step # "idle"

WaitsInv ==
  /\ DOMAIN turn = Turns /\ DOMAIN pass = Reconcilers
  /\ \A t \in Turns : TurnReturns(turn[t], conn)
  /\ \A r \in Reconcilers : PassReturns(pass[r], conn)
McpInv == RowsInv /\ WaitsInv

LEMMA WaitsInvNext ==
  ASSUME DOMAIN turn' = Turns, DOMAIN pass' = Reconcilers,
         \A t \in Turns : TurnReturns(turn'[t], conn'),
         \A r \in Reconcilers : PassReturns(pass'[r], conn')
  PROVE  WaitsInv'
<1>1. WaitsInv' = (/\ DOMAIN turn' = Turns /\ DOMAIN pass' = Reconcilers
                   /\ \A t \in Turns : TurnReturns(turn'[t], conn')
                   /\ \A r \in Reconcilers : PassReturns(pass'[r], conn'))
  BY Zenon DEF WaitsInv, TurnReturns, PassReturns
<1> QED
  BY <1>1

(* What a row waits for is still there if the connection it waits for is as *)
(* good as it was.                                                          *)
LEMMA TurnStillReturns ==
  ASSUME NEW row, TurnReturns(row, conn), NEW x, RowsChange(x),
         row.wait = "connect" /\ row.on = x => conn'[x].step # "idle",
         row.wait = "reply" /\ row.on = x /\ x \in Stdio => conn'[x].wire = "open"
  PROVE  TurnReturns(row, conn')
BY DEF TurnReturns, RowsChange

LEMMA PassStillReturns ==
  ASSUME NEW row, PassReturns(row, conn), NEW x, RowsChange(x),
         row.waits = x /\ x # None => conn'[x].step # "idle"
  PROVE  PassReturns(row, conn')
BY DEF PassReturns, RowsChange

(* finish rejects what pends on the pipes of s. *)
LEMMA RejectedReturns ==
  ASSUME WaitsInv, NEW t \in Turns, NEW s \in Servers, NEW row, row = Rejected(s, t)
  PROVE  /\ TurnReturns(row, conn)
         /\ ~(row.wait = "reply" /\ row.on = s /\ s \in Stdio)
         /\ row.wait = "connect" => turn[t].wait = "connect" /\ row.on = turn[t].on
<1>1. TurnReturns(turn[t], conn)
  BY DEF WaitsInv
<1>2. CASE turn[t].wait = "reply" /\ turn[t].on = s /\ s \in Stdio
  <2>1. row = [turn[t] EXCEPT !.wait = "free", !.on = None]
    BY <1>2 DEF Rejected
  <2>2. /\ DOMAIN row = TurnFields /\ row.wait = "free"
        /\ row.todo = turn[t].todo /\ row.surface = turn[t].surface
    BY <1>1, <2>1 DEF TurnReturns, TurnFields
  <2> QED
    BY <1>1, <2>2 DEF TurnReturns
<1>3. CASE ~(turn[t].wait = "reply" /\ turn[t].on = s /\ s \in Stdio)
  <2>1. row = turn[t]
    BY <1>3 DEF Rejected
  <2> QED
    BY <1>1, <1>3, <2>1
<1> QED
  BY <1>2, <1>3

(* connectEntry of s settles: nobody awaits it any more, and a request is   *)
(* sent only on an open connection.                                         *)
LEMMA ResumedReturns ==
  ASSUME WaitsInv, NEW s \in Servers, RowsChange(s), NEW sent \in BOOLEAN,
         sent => conn'[s].wire = "open", turn' = Resumed(s, sent)
  PROVE  DOMAIN turn' = Turns /\ \A t \in Turns : TurnReturns(turn'[t], conn')
<1>1. DOMAIN turn' = Turns
  BY DEF Resumed
<1>2. ASSUME NEW t \in Turns
      PROVE  TurnReturns(turn'[t], conn')
  <2>1. TurnReturns(turn[t], conn)
    BY DEF WaitsInv
  <2>2. CASE turn[t].wait = "connect" /\ turn[t].on = s
    <3>1. CASE sent
      <4>1. turn'[t] = [turn[t] EXCEPT !.wait = "reply", !.on = s, !.opener = FALSE]
        BY <2>2, <3>1 DEF Resumed
      <4>2. /\ DOMAIN turn'[t] = TurnFields /\ turn'[t].wait = "reply" /\ turn'[t].on = s
            /\ turn'[t].todo = turn[t].todo /\ turn'[t].surface = turn[t].surface
        BY <2>1, <4>1 DEF TurnReturns, TurnFields
      <4> QED
        BY <2>1, <3>1, <4>2 DEF TurnReturns
    <3>2. CASE ~sent
      <4>1. turn'[t] = [turn[t] EXCEPT !.wait = "free", !.on = None, !.opener = FALSE]
        BY <2>2, <3>2 DEF Resumed
      <4>2. /\ DOMAIN turn'[t] = TurnFields /\ turn'[t].wait = "free"
            /\ turn'[t].todo = turn[t].todo /\ turn'[t].surface = turn[t].surface
        BY <2>1, <4>1 DEF TurnReturns, TurnFields
      <4> QED
        BY <2>1, <4>2 DEF TurnReturns
    <3> QED
      BY <3>1, <3>2
  <2>3. CASE ~(turn[t].wait = "connect" /\ turn[t].on = s) /\ sent
    <3>1. turn'[t] = turn[t]
      BY <2>3 DEF Resumed
    <3>2. TurnReturns(turn[t], conn')
      BY <2>1, <2>3, TurnStillReturns
    <3> QED
      BY <3>1, <3>2
  <2>4. CASE ~(turn[t].wait = "connect" /\ turn[t].on = s) /\ ~sent
    <3> DEFINE row == Rejected(s, t)
    <3>1. turn'[t] = row
      BY <2>4 DEF Resumed
    <3>2. /\ TurnReturns(row, conn) /\ ~(row.wait = "reply" /\ row.on = s /\ s \in Stdio)
          /\ row.wait = "connect" => turn[t].wait = "connect" /\ row.on = turn[t].on
      BY RejectedReturns
    <3> HIDE DEF row
    <3>3. TurnReturns(row, conn')
      BY <2>4, <3>2, TurnStillReturns
    <3> QED
      BY <3>1, <3>3
  <2> QED
    BY <2>2, <2>3, <2>4
<1> QED
  BY <1>1, <1>2

(* A reconcile that awaited connectEntry of s takes the next server. *)
LEMMA PassedReturns ==
  ASSUME WaitsInv, NEW s \in Servers, RowsChange(s), NEW e, pass' = Passed(s, e)
  PROVE  DOMAIN pass' = Reconcilers /\ \A r \in Reconcilers : PassReturns(pass'[r], conn')
<1>1. DOMAIN pass' = Reconcilers
  BY DEF Passed
<1>2. ASSUME NEW r \in Reconcilers
      PROVE  PassReturns(pass'[r], conn')
  <2> DEFINE p == IF pass[r].waits = s THEN [pass[r] EXCEPT !.waits = None, !.at = s + 1]
                  ELSE pass[r]
             q == [p EXCEPT !.late = @ \cup {s}]
  <2>1. PassReturns(pass[r], conn)
    BY DEF WaitsInv
  <2>2. PassReturns(p, conn) /\ (p.waits = s => s = None)
    <3>1. CASE pass[r].waits = s
      <4>1. p = [pass[r] EXCEPT !.waits = None, !.at = s + 1]
        BY <3>1
      <4>2. DOMAIN p = PassFields /\ p.waits = None
        BY <2>1, <4>1 DEF PassReturns, PassFields
      <4> HIDE DEF p
      <4> QED
        BY <4>2 DEF PassReturns
    <3>2. CASE pass[r].waits # s
      BY <2>1, <3>2
    <3> QED
      BY <3>1, <3>2
  <2>3. pass'[r] = q \/ pass'[r] = p
    BY Zenon DEF Passed
  <2> HIDE DEF p
  <2>4. PassReturns(q, conn) /\ q.waits = p.waits
    BY <2>2 DEF PassReturns, PassFields
  <2> HIDE DEF q
  <2>5. PassReturns(p, conn')
    BY <2>2, PassStillReturns
  <2>6. PassReturns(q, conn')
    BY <2>2, <2>4, PassStillReturns
  <2> QED
    BY <2>3, <2>5, <2>6
<1> QED
  BY <1>1, <1>2

-----------------------------------------------------------------------------
(* The steps.                                                               *)

(* Turns and passes stay as they are. *)
LEMMA OthersStillReturn ==
  ASSUME WaitsInv, NEW x, RowsChange(x), turn' = turn, pass' = pass,
         conn'[x].step # "idle" \/ conn'[x].step = conn[x].step,
         conn'[x].wire = "open" \/ conn'[x].wire = conn[x].wire
  PROVE  WaitsInv'
<1>1. ASSUME NEW t \in Turns
      PROVE  TurnReturns(turn'[t], conn')
  <2>1. TurnReturns(turn[t], conn)
    BY DEF WaitsInv
  <2> QED
    BY <2>1, TurnStillReturns DEF TurnReturns
<1>2. ASSUME NEW r \in Reconcilers
      PROVE  PassReturns(pass'[r], conn')
  <2>1. PassReturns(pass[r], conn)
    BY DEF WaitsInv
  <2> QED
    BY <2>1, PassStillReturns DEF PassReturns
<1> QED
  BY <1>1, <1>2, WaitsInvNext DEF WaitsInv

LEMMA ConnectFailsKeeps ==
  ASSUME McpInv, NEW s \in Servers, NEW retryable, ConnectFails(s, entry[s], retryable)
  PROVE  McpInv'
<1>1. RowsInv' /\ RowsChange(s)
  BY ConnectFailsKeepsRows DEF McpInv
<1>2. turn' = Resumed(s, FALSE) /\ pass' = Passed(s, RecordFailure(entry[s], retryable))
  BY Zenon DEF ConnectFails
<1>3. DOMAIN turn' = Turns /\ \A t \in Turns : TurnReturns(turn'[t], conn')
  BY <1>1, <1>2, ResumedReturns DEF McpInv
<1>4. DOMAIN pass' = Reconcilers /\ \A r \in Reconcilers : PassReturns(pass'[r], conn')
  BY <1>1, <1>2, PassedReturns DEF McpInv
<1> QED
  BY <1>1, <1>3, <1>4, WaitsInvNext DEF McpInv

LEMMA ServerStepKeeps ==
  ASSUME McpInv, NEW s \in Servers,
         \/ SpawnOk(s) \/ SpawnFails(s) \/ InitializeAnswered(s) \/ InitializeRefused(s)
         \/ InitializedNotified(s) \/ NotifyFails(s) \/ RetryDue(s)
  PROVE  McpInv'
<1>1. RowsInv /\ WaitsInv
  BY DEF McpInv
<1>2. CASE SpawnOk(s)
  <2>1. /\ RowsInv' /\ RowsChange(s) /\ conn'[s].step = "initialize"
        /\ conn'[s].wire = "open"
    BY <1>1, <1>2, SpawnOkKeepsRows
  <2>2. turn' = turn /\ pass' = pass
    BY <1>2 DEF SpawnOk
  <2> QED
    BY <1>1, <2>1, <2>2, OthersStillReturn DEF McpInv
<1>3. CASE SpawnFails(s) \/ InitializeRefused(s) \/ NotifyFails(s)
  <2>1. PICK retryable : ConnectFails(s, entry[s], retryable)
    BY <1>3, Zenon DEF SpawnFails, InitializeRefused, NotifyFails
  <2> QED
    BY <2>1, ConnectFailsKeeps
<1>4. CASE InitializeAnswered(s) /\ conn[s].wire = "open"
  <2>1. /\ RowsInv' /\ RowsChange(s) /\ conn'[s].step = "notify" /\ conn'[s].wire = "open"
    BY <1>1, <1>4, AnswerKeepsRows
  <2>2. turn' = turn /\ pass' = pass
    BY <1>4 DEF InitializeAnswered
  <2> QED
    BY <1>1, <2>1, <2>2, OthersStillReturn DEF McpInv
<1>5. CASE InitializeAnswered(s) /\ conn[s].wire # "open"
  <2>1. ConnectFails(s, entry[s], FALSE)
    BY <1>5 DEF InitializeAnswered
  <2> QED
    BY <2>1, ConnectFailsKeeps
<1>6. CASE InitializedNotified(s)
  <2>1. RowsInv' /\ RowsChange(s) /\ conn'[s].wire = conn[s].wire
    BY <1>1, <1>6, NotifiedKeepsRows
  <2>2. DOMAIN turn' = Turns /\ \A t \in Turns : TurnReturns(turn'[t], conn')
    <3>1. PICK sent \in BOOLEAN : sent = (conn[s].wire = "open")
      BY Zenon
    <3>2. turn' = Resumed(s, sent)
      BY <1>6, <3>1, Zenon DEF InitializedNotified
    <3>3. sent => conn'[s].wire = "open"
      BY <2>1, <3>1, Zenon
    <3> QED
      BY <1>1, <2>1, <3>2, <3>3, ResumedReturns
  <2>3. DOMAIN pass' = Reconcilers /\ \A r \in Reconcilers : PassReturns(pass'[r], conn')
    <3>1. PICK e : pass' = Passed(s, e)
      BY <1>6, Zenon DEF InitializedNotified
    <3> QED
      BY <1>1, <2>1, <3>1, PassedReturns
  <2> QED
    BY <2>1, <2>2, <2>3, WaitsInvNext DEF McpInv
<1>7. CASE RetryDue(s)
  <2>1. RowsInv' /\ RowsChange(s)
    BY <1>1, <1>7, RetryDueKeepsRows
  <2>2. turn' = turn /\ pass' = pass /\ conn' = conn
    BY <1>7 DEF RetryDue
  <2> QED
    BY <1>1, <2>1, <2>2, OthersStillReturn DEF McpInv
<1> QED
  BY <1>2, <1>3, <1>4, <1>5, <1>6, <1>7

LEMMA ConnectionLostKeeps ==
  ASSUME McpInv, NEW s \in Servers, ConnectionLost(s)
  PROVE  McpInv'
<1>1. RowsInv /\ WaitsInv
  BY DEF McpInv
<1>2. /\ RowsInv' /\ RowsChange(s)
      /\ conn'[s].step = IF conn[s].step = "initialize" THEN "idle" ELSE conn[s].step
  BY <1>1, LossKeepsRows
<1>3. CASE conn[s].step = "initialize"
  <2>1. turn' = Resumed(s, FALSE) /\ \E e : pass' = Passed(s, e)
    BY <1>3, Zenon DEF ConnectionLost
  <2>2. DOMAIN turn' = Turns /\ \A t \in Turns : TurnReturns(turn'[t], conn')
    BY <1>1, <1>2, <2>1, ResumedReturns
  <2>3. DOMAIN pass' = Reconcilers /\ \A r \in Reconcilers : PassReturns(pass'[r], conn')
    BY <1>1, <1>2, <2>1, PassedReturns
  <2> QED
    BY <1>2, <2>2, <2>3, WaitsInvNext DEF McpInv
<1>4. CASE conn[s].step # "initialize"
  <2>1. turn' = HungUp(s)
    BY <1>4, Zenon DEF ConnectionLost
  <2> DEFINE gone == [entry[s] EXCEPT !.client = FALSE]
             heard(retryable) == IF gone.desired = "connected"
                                 THEN RecordFailure(gone, retryable) ELSE gone
  <2>2. PICK retryable \in BOOLEAN :
          pass' = [r \in Reconcilers |->
                     IF heard(retryable).retry = "waiting" /\ pass[r].at # None
                     THEN [pass[r] EXCEPT !.late = @ \cup {s}] ELSE pass[r]]
    BY <1>4, Zenon DEF ConnectionLost
  <2> HIDE DEF heard
  <2>3. DOMAIN turn' = Turns /\ DOMAIN pass' = Reconcilers
    BY <2>1, <2>2 DEF HungUp
  <2>4. conn'[s].step = conn[s].step
    BY <1>2, <1>4
  <2>5. ASSUME NEW t \in Turns
        PROVE  TurnReturns(turn'[t], conn')
    <3> DEFINE row == Rejected(s, t)
    <3>1. turn'[t] = row
      BY <2>1 DEF HungUp
    <3>2. /\ TurnReturns(row, conn) /\ ~(row.wait = "reply" /\ row.on = s /\ s \in Stdio)
      BY <1>1, RejectedReturns
    <3> HIDE DEF row
    <3>3. row.wait = "connect" /\ row.on = s => conn'[s].step # "idle"
      BY <2>4, <3>2 DEF TurnReturns
    <3>4. TurnReturns(row, conn')
      BY <1>2, <3>2, <3>3, TurnStillReturns
    <3> QED
      BY <3>1, <3>4
  <2>6. ASSUME NEW r \in Reconcilers
        PROVE  PassReturns(pass'[r], conn')
    <3> DEFINE q == [pass[r] EXCEPT !.late = @ \cup {s}]
    <3>1. PassReturns(pass[r], conn)
      BY <1>1 DEF WaitsInv
    <3>2. pass'[r] = q \/ pass'[r] = pass[r]
      BY <2>2, Zenon
    <3>3. PassReturns(q, conn) /\ q.waits = pass[r].waits
      BY <3>1 DEF PassReturns, PassFields
    <3> HIDE DEF q
    <3>4. pass[r].waits = s /\ s # None => conn'[s].step # "idle"
      BY <2>4, <3>1 DEF PassReturns
    <3>5. PassReturns(q, conn') /\ PassReturns(pass[r], conn')
      BY <1>2, <3>1, <3>3, <3>4, PassStillReturns
    <3> QED
      BY <3>2, <3>5
  <2> QED
    BY <1>2, <2>3, <2>5, <2>6, WaitsInvNext DEF McpInv
<1> QED
  BY <1>3, <1>4

(* open() of s dials only where no client is and nothing is being           *)
(* connected: nobody waits for the connection it replaces.                  *)
LEMMA DialDisturbsNobody ==
  ASSUME McpInv, NEW s \in Servers, ~entry[s].client, conn[s].step = "idle",
         RowsChange(s)
  PROVE  /\ \A t \in Turns : TurnReturns(turn[t], conn')
         /\ \A r \in Reconcilers : PassReturns(pass[r], conn')
<1>1. conn[s].wire # "open"
  BY DEF McpInv, RowsInv, Supervised
<1>2. ASSUME NEW t \in Turns
      PROVE  TurnReturns(turn[t], conn')
  <2>1. TurnReturns(turn[t], conn)
    BY DEF McpInv, WaitsInv
  <2>2. /\ ~(turn[t].wait = "connect" /\ turn[t].on = s)
        /\ ~(turn[t].wait = "reply" /\ turn[t].on = s /\ s \in Stdio)
    BY <1>1, <2>1 DEF TurnReturns
  <2> QED
    BY <2>1, <2>2, TurnStillReturns
<1>3. ASSUME NEW r \in Reconcilers
      PROVE  PassReturns(pass[r], conn')
  <2>1. PassReturns(pass[r], conn)
    BY DEF McpInv, WaitsInv
  <2>2. ~(pass[r].waits = s /\ s # None)
    BY <2>1 DEF PassReturns
  <2> QED
    BY <2>1, <2>2, PassStillReturns
<1> QED
  BY <1>2, <1>3

LEMMA ReconcileKeeps ==
  ASSUME McpInv, NEW r \in Reconcilers, ReconcileStart(r) \/ ReconcileNext(r)
  PROVE  McpInv'
<1>1. /\ RowsInv /\ WaitsInv /\ DOMAIN turn = Turns /\ DOMAIN pass = Reconcilers
      /\ PassReturns(pass[r], conn) /\ DOMAIN entry = Servers /\ DOMAIN conn = Servers
  BY DEF McpInv, WaitsInv, RowsInv
<1>2. turn' = turn
  BY DEF ReconcileStart, ReconcileNext
<1>3. ASSUME NEW row, pass' = [pass EXCEPT ![r] = row], UNCHANGED <<entry, conn>>,
             DOMAIN row = PassFields, row.waits = None
      PROVE  McpInv'
  <2>1. PassReturns(row, conn)
    BY <1>3 DEF PassReturns
  <2>2. /\ DOMAIN pass' = Reconcilers
        /\ \A q \in Reconcilers : pass'[q] = IF q = r THEN row ELSE pass[q]
    BY <1>1, <1>3
  <2>3. ASSUME NEW q \in Reconcilers PROVE PassReturns(pass'[q], conn')
    BY <1>3, <2>1, <2>2 DEF McpInv, WaitsInv
  <2>4. ASSUME NEW t \in Turns PROVE TurnReturns(turn'[t], conn')
    BY <1>2, <1>3 DEF McpInv, WaitsInv
  <2>5. WaitsInv'
    BY <1>1, <1>2, <2>2, <2>3, <2>4, WaitsInvNext
  <2> QED
    BY <1>1, <1>3, <2>5, RowsUntouched DEF McpInv
<1>4. CASE ReconcileStart(r)
  <2> DEFINE row == [at |-> 1, waits |-> None,
                     late |-> {s \in Servers : entry[s].retry = "waiting"}]
  <2>1. pass' = [pass EXCEPT ![r] = row] /\ UNCHANGED <<entry, conn>>
    BY <1>4 DEF ReconcileStart
  <2>2. DOMAIN row = PassFields /\ row.waits = None
    BY DEF PassFields
  <2> HIDE DEF row
  <2> QED
    BY <1>3, <2>1, <2>2
<1>5. CASE ReconcileNext(r) /\ ToReconcile(r) = {}
  <2>1. pass' = [pass EXCEPT ![r] = Idle] /\ UNCHANGED <<entry, conn>>
    BY <1>5 DEF ReconcileNext
  <2>2. DOMAIN Idle = PassFields /\ Idle.waits = None
    BY DEF PassFields, Idle
  <2> QED
    BY <1>3, <2>1, <2>2
<1>6. CASE ReconcileNext(r) /\ ToReconcile(r) # {}
  <2> DEFINE s == Min(ToReconcile(r))
             row == [pass[r] EXCEPT !.waits = s]
  <2>1. ToReconcile(r) \subseteq Servers
    BY DEF ToReconcile
  <2>2. s \in ToReconcile(r)
    BY <1>6, <2>1, FirstServer
  <2>3. s \in Servers /\ ~entry[s].client /\ conn[s].step = "idle"
    BY <2>2, Zenon DEF ToReconcile
  <2>4. /\ pass' = [pass EXCEPT ![r].waits = s]
        /\ entry' = [entry EXCEPT ![s] = OpenedEntry(s, entry[s])]
        /\ conn' = [conn EXCEPT ![s] = Dial(s)]
    BY <1>6, Zenon DEF ReconcileNext
  <2> HIDE DEF s
  <2>5. RowsInv' /\ RowsChange(s) /\ conn'[s].step # "idle"
    <3>1. EntryShape(entry[s])
      BY <1>1, <2>3 DEF RowsInv
    <3> QED
      BY <1>1, <2>3, <2>4, <3>1, OpenKeepsRows
  <2>6. /\ \A t \in Turns : TurnReturns(turn[t], conn')
        /\ \A q \in Reconcilers : PassReturns(pass[q], conn')
    BY <2>3, <2>5, DialDisturbsNobody
  <2>7. pass' = [pass EXCEPT ![r] = row]
    BY <2>4
  <2>8. DOMAIN row = PassFields /\ row.waits = s
    BY <1>1 DEF PassReturns, PassFields
  <2> HIDE DEF row
  <2>9. PassReturns(row, conn')
    BY <2>3, <2>5, <2>8 DEF PassReturns
  <2>10. DOMAIN pass' = Reconcilers /\ \A q \in Reconcilers : PassReturns(pass'[q], conn')
    BY <1>1, <2>6, <2>7, <2>9
  <2> QED
    BY <1>1, <1>2, <2>5, <2>6, <2>10, WaitsInvNext DEF McpInv
<1> QED
  BY <1>4, <1>5, <1>6

(* A step that gives turn t another row. *)
LEMMA TurnRowKeeps ==
  ASSUME McpInv, NEW t \in Turns, NEW row, turn' = [turn EXCEPT ![t] = row],
         TurnReturns(row, conn'), pass' = pass, RowsInv',
         \A u \in Turns : TurnReturns(turn[u], conn'),
         \A r \in Reconcilers : PassReturns(pass[r], conn')
  PROVE  McpInv'
<1>1. DOMAIN turn = Turns /\ DOMAIN pass = Reconcilers
  BY DEF McpInv, WaitsInv
<1>2. DOMAIN turn' = Turns /\ \A u \in Turns : TurnReturns(turn'[u], conn')
  BY <1>1
<1> QED
  BY <1>1, <1>2, WaitsInvNext DEF McpInv

(* connect(), by a turn that lists or calls: `asked` is the turn as it      *)
(* asks, and waits for nothing yet.                                         *)
LEMMA ConnectKeeps ==
  ASSUME McpInv, NEW t \in Turns, NEW s \in Servers, NEW asked,
         DOMAIN asked = TurnFields, asked.todo \subseteq Servers,
         asked.surface \subseteq Servers, Connect(t, s, asked)
  PROVE  McpInv'
<1>1. RowsInv /\ WaitsInv /\ EntryShape(entry[s])
  BY DEF McpInv, RowsInv
<1>2. pass' = pass
  BY DEF Connect
<1> DEFINE wants == /\ entry' = [entry EXCEPT ![s] = Wanted(entry[s])]
                    /\ conn' = conn
<1>3. ASSUME NEW row, turn' = [turn EXCEPT ![t] = row], wants, TurnReturns(row, conn)
      PROVE  McpInv'
  <2>1. RowsInv'
    BY <1>1, <1>3, WantKeepsRows
  <2>2. /\ \A u \in Turns : TurnReturns(turn[u], conn')
        /\ \A r \in Reconcilers : PassReturns(pass[r], conn')
    BY <1>1, <1>3 DEF WaitsInv
  <2>3. TurnReturns(row, conn')
    BY <1>3
  <2> QED
    BY <1>2, <1>3, <2>1, <2>2, <2>3, TurnRowKeeps
<1>4. CASE entry[s].client /\ wants /\
           turn' = [turn EXCEPT ![t] = IF Serves(s) THEN [asked EXCEPT !.on = s, !.wait = "reply"]
                                       ELSE [asked EXCEPT !.wait = "free"]]
  <2>1. conn[s].wire = "open"
    BY <1>1, <1>4 DEF RowsInv, Supervised
  <2>2. CASE Serves(s)
    <3> DEFINE row == [asked EXCEPT !.on = s, !.wait = "reply"]
    <3>1. /\ DOMAIN row = TurnFields /\ row.on = s /\ row.wait = "reply"
          /\ row.todo = asked.todo /\ row.surface = asked.surface
      BY DEF TurnFields
    <3>2. turn' = [turn EXCEPT ![t] = row]
      BY <1>4, <2>2
    <3> HIDE DEF row
    <3>3. TurnReturns(row, conn)
      BY <2>1, <3>1 DEF TurnReturns
    <3> QED
      BY <1>3, <1>4, <3>2, <3>3
  <2>3. CASE ~Serves(s)
    <3> DEFINE row == [asked EXCEPT !.wait = "free"]
    <3>1. /\ DOMAIN row = TurnFields /\ row.wait = "free"
          /\ row.todo = asked.todo /\ row.surface = asked.surface
      BY DEF TurnFields
    <3>2. turn' = [turn EXCEPT ![t] = row]
      BY <1>4, <2>3
    <3> HIDE DEF row
    <3>3. TurnReturns(row, conn)
      BY <3>1 DEF TurnReturns
    <3> QED
      BY <1>3, <1>4, <3>2, <3>3
  <2> QED
    BY <2>2, <2>3
<1>5. CASE conn[s].step # "idle" /\ wants /\
           turn' = [turn EXCEPT ![t] = [asked EXCEPT !.on = s, !.wait = "connect"]]
  <2> DEFINE row == [asked EXCEPT !.on = s, !.wait = "connect"]
  <2>1. /\ DOMAIN row = TurnFields /\ row.on = s /\ row.wait = "connect"
        /\ row.todo = asked.todo /\ row.surface = asked.surface
    BY DEF TurnFields
  <2>2. turn' = [turn EXCEPT ![t] = row]
    BY <1>5
  <2> HIDE DEF row
  <2>3. TurnReturns(row, conn)
    BY <1>5, <2>1 DEF TurnReturns
  <2> QED
    BY <1>3, <1>5, <2>2, <2>3
<1>6. CASE /\ ~entry[s].client /\ conn[s].step = "idle"
           /\ turn' = [turn EXCEPT ![t] = [asked EXCEPT !.on = s, !.opener = TRUE,
                                                        !.wait = "connect"]]
           /\ entry' = [entry EXCEPT ![s] = OpenedEntry(s, Wanted(entry[s]))]
           /\ conn' = [conn EXCEPT ![s] = Dial(s)]
  <2> DEFINE row == [asked EXCEPT !.on = s, !.opener = TRUE, !.wait = "connect"]
             e == Wanted(entry[s])
  <2>1. /\ DOMAIN row = TurnFields /\ row.on = s /\ row.wait = "connect"
        /\ row.todo = asked.todo /\ row.surface = asked.surface
    BY DEF TurnFields
  <2>2. turn' = [turn EXCEPT ![t] = row] /\ entry' = [entry EXCEPT ![s] = OpenedEntry(s, e)]
    BY <1>6
  <2>3. EntryShape(e)
    BY <1>1, WantedKeeps, Zenon
  <2> HIDE DEF row, e
  <2>4. RowsInv' /\ RowsChange(s) /\ conn'[s].step # "idle"
    BY <1>1, <1>6, <2>2, <2>3, OpenKeepsRows
  <2>5. /\ \A u \in Turns : TurnReturns(turn[u], conn')
        /\ \A r \in Reconcilers : PassReturns(pass[r], conn')
    BY <1>6, <2>4, DialDisturbsNobody
  <2>6. TurnReturns(row, conn')
    BY <2>1, <2>4 DEF TurnReturns
  <2> QED
    BY <1>2, <2>2, <2>4, <2>5, <2>6, TurnRowKeeps
<1> QED
  BY <1>4, <1>5, <1>6, Zenon DEF Connect

LEMMA TurnStepKeeps ==
  ASSUME McpInv, NEW t \in Turns,
         \/ TurnStart(t) \/ TurnLists(t) \/ TurnCalls(t) \/ Answered(t)
         \/ TurnAborted(t) \/ TurnEnds(t)
  PROVE  McpInv'
<1>1. /\ RowsInv /\ WaitsInv /\ TurnReturns(turn[t], conn) /\ DOMAIN turn[t] = TurnFields
      /\ turn[t].todo \subseteq Servers /\ turn[t].surface \subseteq Servers
  BY DEF McpInv, WaitsInv, TurnReturns
<1>2. ASSUME NEW row, turn' = [turn EXCEPT ![t] = row], UNCHANGED <<entry, conn, pass>>,
             DOMAIN row = TurnFields, row.wait \notin {"connect", "reply"},
             row.todo \subseteq Servers, row.surface \subseteq Servers
      PROVE  McpInv'
  <2>1. TurnReturns(row, conn')
    BY <1>2 DEF TurnReturns
  <2>2. /\ \A u \in Turns : TurnReturns(turn[u], conn')
        /\ \A r \in Reconcilers : PassReturns(pass[r], conn')
    BY <1>1, <1>2 DEF WaitsInv
  <2>3. RowsInv'
    BY <1>1, <1>2, RowsUntouched
  <2> QED
    BY <1>2, <2>1, <2>2, <2>3, TurnRowKeeps
<1>3. CASE TurnStart(t)
  <2> DEFINE S == {s \in Servers : entry[s].state = "connected"}
             row == [NoTurn EXCEPT !.wait = "free", !.todo = S]
  <2>1. turn' = [turn EXCEPT ![t] = row] /\ UNCHANGED <<entry, conn, pass>>
    BY <1>3 DEF TurnStart
  <2>2. S \subseteq Servers
    OBVIOUS
  <2> HIDE DEF S
  <2>3. DOMAIN row = TurnFields /\ row.wait = "free" /\ row.todo = S /\ row.surface = {}
    BY DEF NoTurn, TurnFields
  <2> HIDE DEF row
  <2> QED
    BY <1>2, <2>1, <2>2, <2>3
<1>4. CASE TurnLists(t)
  <2> DEFINE s == Min(turn[t].todo)
             asked == [turn[t] EXCEPT !.todo = @ \ {s}, !.kind = "list"]
  <2>1. s \in Servers
    BY <1>1, <1>4, FirstServer DEF TurnLists
  <2>2. Connect(t, s, asked)
    BY <1>4, Zenon DEF TurnLists
  <2> HIDE DEF s
  <2>3. /\ DOMAIN asked = TurnFields /\ asked.todo \subseteq Servers
        /\ asked.surface \subseteq Servers
    BY <1>1 DEF TurnFields
  <2> HIDE DEF asked
  <2> QED
    BY <2>1, <2>2, <2>3, ConnectKeeps
<1>5. CASE TurnCalls(t)
  <2> DEFINE asked == [turn[t] EXCEPT !.kind = "call"]
  <2>1. PICK s \in turn[t].surface : Connect(t, s, asked)
    BY <1>5, Zenon DEF TurnCalls
  <2>2. /\ DOMAIN asked = TurnFields /\ asked.todo \subseteq Servers
        /\ asked.surface \subseteq Servers
    BY <1>1 DEF TurnFields
  <2>3. s \in Servers
    BY <1>1
  <2> HIDE DEF asked
  <2> QED
    BY <2>1, <2>2, <2>3, ConnectKeeps
<1>6. CASE Answered(t)
  <2>1. PICK ok \in BOOLEAN :
          turn' = [turn EXCEPT ![t] =
                     [turn[t] EXCEPT !.wait = "free", !.on = None,
                        !.surface = @ \cup {s \in {turn[t].on} : ok /\ turn[t].kind = "list"}]]
    BY <1>6, Zenon DEF Answered
  <2> DEFINE new == {s \in {turn[t].on} : ok /\ turn[t].kind = "list"}
             S == turn[t].surface \cup new
             row == [turn[t] EXCEPT !.wait = "free", !.on = None, !.surface = @ \cup new]
  <2>2. S \subseteq Servers
    <3>1. turn[t].on \in Servers
      BY <1>1, <1>6 DEF Answered, TurnReturns
    <3>2. new \subseteq {turn[t].on}
      BY Zenon
    <3> HIDE DEF new
    <3> QED
      BY <1>1, <3>1, <3>2
  <2>3. turn' = [turn EXCEPT ![t] = row] /\ UNCHANGED <<entry, conn, pass>>
    BY <1>6, <2>1, Zenon DEF Answered
  <2> HIDE DEF new
  <2>4. /\ DOMAIN row = TurnFields /\ row.wait = "free" /\ row.surface = S
        /\ row.todo = turn[t].todo
    BY <1>1 DEF TurnFields
  <2> HIDE DEF row, S
  <2> QED
    BY <1>1, <1>2, <2>2, <2>3, <2>4
<1>7. CASE TurnAborted(t) /\ turn[t].wait = "reply"
  <2> DEFINE row == [turn[t] EXCEPT !.wait = "free", !.on = None]
  <2>1. turn' = [turn EXCEPT ![t] = row] /\ UNCHANGED <<entry, conn, pass>>
    BY <1>1, <1>7 DEF TurnAborted
  <2>2. /\ DOMAIN row = TurnFields /\ row.wait = "free"
        /\ row.surface = turn[t].surface /\ row.todo = turn[t].todo
    BY <1>1 DEF TurnFields
  <2> HIDE DEF row
  <2> QED
    BY <1>1, <1>2, <2>1, <2>2
<1>8. CASE TurnAborted(t) /\ turn[t].wait # "reply"
  <2>1. turn[t].wait = "connect" /\ \E retryable :
          ConnectFails(turn[t].on, entry[turn[t].on], retryable)
    BY <1>8, Zenon DEF TurnAborted
  <2>2. turn[t].on \in Servers
    BY <1>1, <2>1 DEF TurnReturns
  <2> QED
    BY <2>1, <2>2, ConnectFailsKeeps
<1>9. CASE TurnEnds(t)
  <2>1. turn' = [turn EXCEPT ![t] = NoTurn] /\ UNCHANGED <<entry, conn, pass>>
    BY <1>9 DEF TurnEnds
  <2>2. /\ DOMAIN NoTurn = TurnFields /\ NoTurn.wait = "ended" /\ NoTurn.todo = {}
        /\ NoTurn.surface = {}
    BY DEF NoTurn, TurnFields
  <2> QED
    BY <1>2, <2>1, <2>2
<1> QED
  BY <1>3, <1>4, <1>5, <1>6, <1>7, <1>8, <1>9

LEMMA ShutdownKeeps ==
  ASSUME McpInv, Shutdown
  PROVE  McpInv'
<1>1. RowsInv'
  BY ShutdownKeepsRows DEF McpInv
<1>2. ASSUME NEW t \in Turns
      PROVE  TurnReturns(turn'[t], conn')
  <2>1. turn' = turn /\ turn[t].wait = "ended"
    BY DEF Shutdown
  <2>2. TurnReturns(turn[t], conn)
    BY DEF McpInv, WaitsInv
  <2> QED
    BY <2>1, <2>2 DEF TurnReturns
<1>3. ASSUME NEW r \in Reconcilers
      PROVE  PassReturns(pass'[r], conn')
  <2> DEFINE n == pass[r].waits + 1
             q == [pass[r] EXCEPT !.waits = None, !.at = n]
  <2>1. PassReturns(pass[r], conn)
    BY DEF McpInv, WaitsInv
  <2>2. pass'[r] = IF pass[r].waits # None /\ conn'[pass[r].waits].step = "idle"
                   THEN q ELSE pass[r]
    BY Zenon DEF Shutdown
  <2> HIDE DEF n
  <2>3. DOMAIN q = PassFields /\ q.waits = None
    BY <2>1 DEF PassReturns, PassFields
  <2> HIDE DEF q
  <2> QED
    BY <2>1, <2>2, <2>3 DEF PassReturns
<1>4. DOMAIN turn' = Turns /\ DOMAIN pass' = Reconcilers
  BY DEF McpInv, WaitsInv, Shutdown
<1> QED
  BY <1>1, <1>2, <1>3, <1>4, WaitsInvNext DEF McpInv

LEMMA McpStarts == McpInit => McpInv
<1> SUFFICES ASSUME McpInit PROVE McpInv
  OBVIOUS
<1> DEFINE e == [desired |-> "connected", state |-> "disconnected", attempt |-> 0,
                 retry |-> "none", client |-> FALSE]
           c == [step |-> "idle", wire |-> "none"]
<1>1. entry = [s \in Servers |-> e] /\ conn = [s \in Servers |-> c]
  BY DEF McpInit
<1>2. DOMAIN e = EntryFields /\ e.attempt = 0 /\ ~e.client
  BY DEF EntryFields
<1>3. DOMAIN c = ConnFields /\ c.wire = "none"
  BY DEF ConnFields
<1> HIDE DEF e, c
<1>4. EntryShape(e) /\ ConnShape(c) /\ Supervised(e, c)
  BY <1>2, <1>3 DEF EntryShape, ConnShape, Supervised
<1>5. RowsInv
  BY <1>1, <1>4 DEF RowsInv
<1>6. DOMAIN turn = Turns /\ \A t \in Turns : turn[t] = NoTurn
  BY DEF McpInit
<1>7. /\ DOMAIN NoTurn = TurnFields /\ NoTurn.wait = "ended" /\ NoTurn.todo = {}
      /\ NoTurn.surface = {}
  BY DEF NoTurn, TurnFields
<1>8. TurnReturns(NoTurn, conn)
  BY <1>7 DEF TurnReturns
<1>9. /\ DOMAIN pass = Reconcilers
      /\ \A r \in Reconcilers : pass[r] = [Idle EXCEPT !.at = 1] \/ pass[r] = Idle
  BY DEF McpInit
<1>10. PassReturns(Idle, conn) /\ PassReturns([Idle EXCEPT !.at = 1], conn)
  BY DEF Idle, PassReturns, PassFields
<1>11. WaitsInv
  BY <1>6, <1>8, <1>9, <1>10, Zenon DEF WaitsInv
<1> QED
  BY <1>5, <1>11 DEF McpInv

LEMMA McpStep == McpInv /\ [McpNext]_mcpVars => McpInv'
<1> SUFFICES ASSUME McpInv, [McpNext]_mcpVars PROVE McpInv'
  OBVIOUS
<1>1. CASE UNCHANGED mcpVars
  <2>1. UNCHANGED <<entry, conn, turn, pass>>
    BY <1>1 DEF mcpVars
  <2>2. RowsInv'
    BY <2>1, RowsUntouched DEF McpInv
  <2>3. WaitsInv'
    BY <2>1 DEF McpInv, WaitsInv, TurnReturns, PassReturns
  <2> QED
    BY <2>2, <2>3 DEF McpInv
<1>2. CASE McpNext
  BY <1>2, ServerStepKeeps, ConnectionLostKeeps, ReconcileKeeps, TurnStepKeeps,
     ShutdownKeeps DEF McpNext
<1> QED
  BY <1>1, <1>2

(* McpServerSupervisor: for every catalog of servers, every number of turns *)
(* and reconcile calls in flight and every retry policy, an entry holds a   *)
(* client exactly while its connection is open, and a server that has       *)
(* failed as often as the policy allows is given up.                        *)
THEOREM ServersStaySupervised == McpSpec => []ServersAreSupervised
<1>1. McpInv => ServersAreSupervised
  BY DEF McpInv, RowsInv, Supervised, ServersAreSupervised
<1> QED
  BY <1>1, McpStarts, McpStep, PTL DEF McpSpec

(* open, finish and the pending requests of a connection: no turn and no    *)
(* reconcile call ever waits for a connectEntry that has settled, nor for a *)
(* response over pipes that were given up.                                  *)
THEOREM NobodyWaitsInVain == McpSpec => []McpCallsCanReturn
<1>1. McpInv => McpCallsCanReturn
  BY DEF McpInv, WaitsInv, TurnReturns, PassReturns, McpCallsCanReturn
<1> QED
  BY <1>1, McpStarts, McpStep, PTL DEF McpSpec

-----------------------------------------------------------------------------
(* The rows keep their types.                                               *)

EntryRows == [desired : {"connected", "disconnected"},
              state : {"disconnected", "connecting", "connected", "reconnecting", "failed"},
              attempt : Nat, retry : {"none", "waiting", "due"}, client : BOOLEAN]
ConnRows == [step : {"idle", "spawning", "initialize", "notify"},
             wire : {"none", "open", "closed"}]
PassRows == [at : Nat, waits : Servers \cup {None}, late : SUBSET Servers]
TurnRows == [todo : SUBSET Servers, surface : SUBSET Servers, on : Servers \cup {None},
             kind : {"list", "call"}, wait : {"ended", "free", "connect", "reply"},
             opener : BOOLEAN]

LEMMA EntryTypes ==
  ASSUME NEW e \in EntryRows, NEW s \in Servers, NEW retryable \in BOOLEAN
  PROVE  /\ RecordFailure(e, retryable) \in EntryRows
         /\ Wanted(e) \in EntryRows
         /\ OpenedEntry(s, e) \in EntryRows
<1>1. RecordFailure(e, retryable) \in EntryRows
  <2>1. PICK again \in BOOLEAN :
          again = (e.desired = "connected" /\ retryable /\ e.attempt + 1 < MaxAttempts)
    BY Zenon
  <2>2. PICK r \in {"none", "waiting", "due"}, st \in {"reconnecting", "failed"} :
          r = (IF again THEN "waiting" ELSE "none")
            /\ st = (IF again THEN "reconnecting" ELSE "failed")
    BY Zenon
  <2>3. RecordFailure(e, retryable) =
          [e EXCEPT !.client = FALSE, !.attempt = e.attempt + 1, !.retry = r, !.state = st]
    BY <2>1, <2>2 DEF RecordFailure
  <2>4. /\ e.attempt + 1 \in Nat
        /\ st \in {"disconnected", "connecting", "connected", "reconnecting", "failed"}
    BY <2>2 DEF EntryRows
  <2> QED
    BY <2>3, <2>4 DEF EntryRows
<1>2. Wanted(e) \in EntryRows
  BY DEF Wanted, EntryRows
<1>3. OpenedEntry(s, e) \in EntryRows
  <2>1. Opening(e) \in EntryRows
    BY DEF Opening, EntryRows
  <2>2. PICK b \in BOOLEAN : b = (s \notin Stdio)
    BY Zenon
  <2>3. OpenedEntry(s, e) = [Opening(e) EXCEPT !.client = b]
    BY <2>2, Zenon DEF OpenedEntry
  <2> QED
    BY <2>1, <2>3 DEF EntryRows
<1> QED
  BY <1>1, <1>2, <1>3

LEMMA ConnTypes ==
  ASSUME NEW c \in ConnRows, NEW s \in Servers
  PROVE  /\ Hangup(c) \in ConnRows
         /\ [Hangup(c) EXCEPT !.step = "idle"] \in ConnRows
         /\ Dial(s) \in ConnRows
<1>1. Hangup(c) \in ConnRows
  BY DEF Hangup, ConnRows
<1>2. [Hangup(c) EXCEPT !.step = "idle"] \in ConnRows
  BY <1>1 DEF ConnRows
<1>3. Dial(s) \in ConnRows
  BY DEF Dial, ConnRows
<1> QED
  BY <1>1, <1>2, <1>3

LEMMA WaiterTypes ==
  ASSUME turn \in [Turns -> TurnRows], pass \in [Reconcilers -> PassRows],
         NEW s \in Servers, NEW sent \in BOOLEAN, NEW e
  PROVE  /\ HungUp(s) \in [Turns -> TurnRows]
         /\ Resumed(s, sent) \in [Turns -> TurnRows]
         /\ Passed(s, e) \in [Reconcilers -> PassRows]
<1>1. ASSUME NEW t \in Turns PROVE Rejected(s, t) \in TurnRows
  BY DEF Rejected, TurnRows
<1>2. HungUp(s) \in [Turns -> TurnRows]
  BY <1>1 DEF HungUp
<1>3. Resumed(s, sent) \in [Turns -> TurnRows]
  <2> DEFINE row(t) == [turn[t] EXCEPT !.wait = IF sent THEN "reply" ELSE "free",
                          !.on = IF sent THEN s ELSE None, !.opener = FALSE]
  <2>1. ASSUME NEW t \in Turns PROVE row(t) \in TurnRows
    BY DEF TurnRows
  <2>2. Resumed(s, sent) = [t \in Turns |->
          IF turn[t].wait = "connect" /\ turn[t].on = s THEN row(t)
          ELSE IF sent THEN turn[t] ELSE Rejected(s, t)]
    BY DEF Resumed
  <2> HIDE DEF row
  <2> QED
    BY <1>1, <2>1, <2>2
<1>4. Passed(s, e) \in [Reconcilers -> PassRows]
  <2> DEFINE p(r) == IF pass[r].waits = s THEN [pass[r] EXCEPT !.waits = None, !.at = s + 1]
                     ELSE pass[r]
             q(r) == IF e.retry = "waiting" /\ p(r).at # None
                     THEN [p(r) EXCEPT !.late = @ \cup {s}] ELSE p(r)
  <2>1. ASSUME NEW r \in Reconcilers PROVE p(r) \in PassRows
    <3>1. pass[r] \in PassRows /\ s + 1 \in Nat
      BY McpAssumption
    <3> QED
      BY <3>1 DEF PassRows
  <2>2. Passed(s, e) = [r \in Reconcilers |-> q(r)]
    BY DEF Passed
  <2> HIDE DEF p
  <2>3. ASSUME NEW r \in Reconcilers PROVE q(r) \in PassRows
    <3>1. p(r) \in PassRows
      BY <2>1
    <3>2. [p(r) EXCEPT !.late = @ \cup {s}] \in PassRows
      BY <3>1 DEF PassRows
    <3> QED
      BY <3>1, <3>2
  <2> HIDE DEF q
  <2> QED
    BY <2>2, <2>3
<1> QED
  BY <1>2, <1>3, <1>4

LEMMA McpTypesStart == McpInit => McpTypeOK
<1> SUFFICES ASSUME McpInit PROVE McpTypeOK
  OBVIOUS
<1>1. entry \in [Servers -> EntryRows] /\ conn \in [Servers -> ConnRows]
  <2> DEFINE e == [desired |-> "connected", state |-> "disconnected", attempt |-> 0,
                   retry |-> "none", client |-> FALSE]
             c == [step |-> "idle", wire |-> "none"]
  <2>1. e \in EntryRows /\ c \in ConnRows
    BY DEF EntryRows, ConnRows
  <2>2. entry = [s \in Servers |-> e] /\ conn = [s \in Servers |-> c]
    BY DEF McpInit
  <2> HIDE DEF e, c
  <2> QED
    BY <2>1, <2>2
<1>2. Idle \in PassRows /\ [Idle EXCEPT !.at = 1] \in PassRows /\ NoTurn \in TurnRows
  <2>1. Idle \in PassRows
    BY DEF Idle, PassRows, None
  <2>2. [Idle EXCEPT !.at = 1] \in PassRows
    BY <2>1 DEF PassRows
  <2>3. NoTurn \in TurnRows
    BY DEF NoTurn, TurnRows
  <2> QED
    BY <2>1, <2>2, <2>3
<1>3. turn \in [Turns -> TurnRows]
  BY <1>2 DEF McpInit
<1>4. pass \in [Reconcilers -> PassRows]
  <2> DEFINE boot == CHOOSE r \in Reconcilers : TRUE
  <2>1. pass = [r \in Reconcilers |-> IF r = boot THEN [Idle EXCEPT !.at = 1] ELSE Idle]
    BY DEF McpInit
  <2> HIDE DEF boot
  <2> QED
    BY <1>2, <2>1
<1>5. life \in {"boot", "up", "closed"} /\ faults \in 0 .. MaxFaults
  BY McpAssumption DEF McpInit
<1> QED
  BY <1>1, <1>3, <1>4, <1>5 DEF McpTypeOK, EntryRows, ConnRows, PassRows, TurnRows

(* connectEntry settles with a failure. *)
LEMMA ConnectFailsTypes ==
  ASSUME McpTypeOK, NEW s \in Servers, NEW retryable \in BOOLEAN,
         ConnectFails(s, entry[s], retryable), faults' \in 0 .. MaxFaults
  PROVE  McpTypeOK'
<1>0. /\ entry \in [Servers -> EntryRows] /\ conn \in [Servers -> ConnRows]
      /\ turn \in [Turns -> TurnRows] /\ pass \in [Reconcilers -> PassRows]
      /\ life \in {"boot", "up", "closed"}
  BY DEF McpTypeOK, EntryRows, ConnRows, PassRows, TurnRows
<1> DEFINE failed == RecordFailure(entry[s], retryable)
           cut == [Hangup(conn[s]) EXCEPT !.step = "idle"]
<1>1. failed \in EntryRows /\ cut \in ConnRows
  BY <1>0, EntryTypes, ConnTypes
<1>2. Resumed(s, FALSE) \in [Turns -> TurnRows] /\ Passed(s, failed) \in [Reconcilers -> PassRows]
  BY <1>0, WaiterTypes
<1>3. /\ entry' = [entry EXCEPT ![s] = failed] /\ conn' = [conn EXCEPT ![s] = cut]
      /\ turn' = Resumed(s, FALSE) /\ pass' = Passed(s, failed) /\ life' = life
  BY DEF ConnectFails
<1> HIDE DEF failed, cut
<1> QED
  BY <1>0, <1>1, <1>2, <1>3 DEF McpTypeOK, EntryRows, ConnRows, PassRows, TurnRows

LEMMA McpRowsTyped ==
  McpTypeOK <=> /\ entry \in [Servers -> EntryRows] /\ conn \in [Servers -> ConnRows]
                /\ turn \in [Turns -> TurnRows] /\ pass \in [Reconcilers -> PassRows]
                /\ life \in {"boot", "up", "closed"} /\ faults \in 0 .. MaxFaults
  BY DEF McpTypeOK, EntryRows, ConnRows, PassRows, TurnRows

LEMMA McpRowsTypedNext ==
  ASSUME entry' \in [Servers -> EntryRows], conn' \in [Servers -> ConnRows],
         turn' \in [Turns -> TurnRows], pass' \in [Reconcilers -> PassRows],
         life' \in {"boot", "up", "closed"}, faults' \in 0 .. MaxFaults
  PROVE  McpTypeOK'
  BY DEF McpTypeOK, EntryRows, ConnRows, PassRows, TurnRows

(* What happens to a connection. *)
LEMMA ServerStepTypes ==
  ASSUME McpTypeOK, NEW s \in Servers,
         \/ SpawnOk(s) \/ SpawnFails(s)
         \/ InitializeAnswered(s) \/ InitializeRefused(s)
         \/ InitializedNotified(s) \/ NotifyFails(s) \/ RetryDue(s)
  PROVE  McpTypeOK'
<1>0. /\ entry \in [Servers -> EntryRows] /\ conn \in [Servers -> ConnRows]
      /\ turn \in [Turns -> TurnRows] /\ pass \in [Reconcilers -> PassRows]
      /\ life \in {"boot", "up", "closed"} /\ faults \in 0 .. MaxFaults
      /\ entry[s] \in EntryRows /\ conn[s] \in ConnRows
  BY McpRowsTyped
<1>1. Fault => faults' \in 0 .. MaxFaults
  BY <1>0, McpAssumption DEF Fault
<1>2. CASE SpawnOk(s)
  <2> DEFINE c == [step |-> "initialize", wire |-> "open"]
             e == [entry[s] EXCEPT !.client = TRUE]
  <2>1. c \in ConnRows
    BY DEF ConnRows
  <2>2. e \in EntryRows
    BY <1>0 DEF EntryRows
  <2>3. /\ conn' = [conn EXCEPT ![s] = c] /\ entry' = [entry EXCEPT ![s] = e]
        /\ UNCHANGED <<pass, turn, life, faults>>
    BY <1>2 DEF SpawnOk
  <2> HIDE DEF c, e
  <2> QED
    BY <1>0, <2>1, <2>2, <2>3, McpRowsTypedNext
<1>3. CASE SpawnFails(s) \/ InitializeRefused(s) \/ NotifyFails(s)
  <2>1. PICK retryable \in BOOLEAN : Fault /\ ConnectFails(s, entry[s], retryable)
    BY <1>3, Zenon DEF SpawnFails, InitializeRefused, NotifyFails
  <2> QED
    BY <1>1, <2>1, ConnectFailsTypes
<1>4. CASE InitializeAnswered(s)
  <2>1. CASE conn[s].wire = "open"
    <3> DEFINE c == [conn[s] EXCEPT !.step = "notify"]
    <3>1. c \in ConnRows
      BY <1>0 DEF ConnRows
    <3>2. conn' = [conn EXCEPT ![s] = c] /\ UNCHANGED <<entry, pass, turn, life, faults>>
      BY <1>4, <2>1 DEF InitializeAnswered
    <3> HIDE DEF c
    <3> QED
      BY <1>0, <3>1, <3>2, McpRowsTypedNext
  <2>2. CASE conn[s].wire # "open"
    <3>1. ConnectFails(s, entry[s], FALSE) /\ faults' = faults
      BY <1>4, <2>2, Zenon DEF InitializeAnswered
    <3>2. FALSE \in BOOLEAN
      BY Zenon
    <3> QED
      BY <1>0, <3>1, <3>2, ConnectFailsTypes
  <2> QED
    BY <2>1, <2>2
<1>5. CASE InitializedNotified(s)
  <2> DEFINE c == [conn[s] EXCEPT !.step = "idle"]
             e == [entry[s] EXCEPT !.state = "connected", !.attempt = 0, !.retry = "none"]
  <2>1. c \in ConnRows
    BY <1>0 DEF ConnRows
  <2>2. e \in EntryRows
    BY <1>0 DEF EntryRows
  <2>3. /\ conn' = [conn EXCEPT ![s] = c] /\ entry' = [entry EXCEPT ![s] = e]
        /\ UNCHANGED <<life, faults>>
    BY <1>5 DEF InitializedNotified
  <2>4. turn' = Resumed(s, conn[s].wire = "open") /\ pass' = Passed(s, entry'[s])
    BY <1>5, Zenon DEF InitializedNotified
  <2>5. PICK sent \in BOOLEAN : sent = (conn[s].wire = "open")
    BY Zenon
  <2>6. turn' = Resumed(s, sent)
    BY <2>4, <2>5, Zenon
  <2>7. turn' \in [Turns -> TurnRows] /\ pass' \in [Reconcilers -> PassRows]
    BY <1>0, <2>4, <2>6, WaiterTypes
  <2> HIDE DEF c, e
  <2> QED
    BY <1>0, <2>1, <2>2, <2>3, <2>7, McpRowsTypedNext
<1>6. CASE RetryDue(s)
  <2> DEFINE e == [entry[s] EXCEPT !.retry = "due"]
  <2>1. e \in EntryRows
    BY <1>0 DEF EntryRows
  <2>2. entry' = [entry EXCEPT ![s] = e] /\ UNCHANGED <<conn, pass, turn, life, faults>>
    BY <1>6 DEF RetryDue
  <2> HIDE DEF e
  <2> QED
    BY <1>0, <2>1, <2>2, McpRowsTypedNext
<1> QED
  BY <1>2, <1>3, <1>4, <1>5, <1>6

LEMMA ConnectionLostTypes ==
  ASSUME McpTypeOK, NEW s \in Servers, ConnectionLost(s)
  PROVE  McpTypeOK'
<1>0. /\ entry \in [Servers -> EntryRows] /\ conn \in [Servers -> ConnRows]
      /\ turn \in [Turns -> TurnRows] /\ pass \in [Reconcilers -> PassRows]
      /\ life \in {"boot", "up", "closed"} /\ faults \in 0 .. MaxFaults
      /\ entry[s] \in EntryRows /\ conn[s] \in ConnRows
  BY McpRowsTyped
<1>1. faults' \in 0 .. MaxFaults /\ life' = life
  BY <1>0, McpAssumption DEF ConnectionLost, Fault
<1> DEFINE gone == [entry[s] EXCEPT !.client = FALSE]
           heard(retryable) == IF gone.desired = "connected"
                               THEN RecordFailure(gone, retryable) ELSE gone
           cut == [conn[s] EXCEPT !.wire = "closed"]
           late(retryable) == [r \in Reconcilers |->
                                 IF heard(retryable).retry = "waiting" /\ pass[r].at # None
                                 THEN [pass[r] EXCEPT !.late = @ \cup {s}]
                                 ELSE pass[r]]
<1>2. PICK retryable \in BOOLEAN :
        IF conn[s].step = "initialize"
        THEN /\ entry' = [entry EXCEPT ![s] = RecordFailure(heard(retryable), retryable)]
             /\ conn' = [conn EXCEPT ![s] = [cut EXCEPT !.step = "idle"]]
             /\ turn' = Resumed(s, FALSE)
             /\ pass' = Passed(s, RecordFailure(heard(retryable), retryable))
        ELSE /\ entry' = [entry EXCEPT ![s] = heard(retryable)]
             /\ conn' = [conn EXCEPT ![s] = cut]
             /\ turn' = HungUp(s)
             /\ pass' = late(retryable)
  BY Zenon DEF ConnectionLost
<1>3. heard(retryable) \in EntryRows
  <2>1. gone \in EntryRows
    BY <1>0 DEF EntryRows
  <2>2. RecordFailure(gone, retryable) \in EntryRows
    BY <2>1, EntryTypes
  <2> QED
    BY <2>1, <2>2
<1>4. cut \in ConnRows
  BY <1>0 DEF ConnRows
<1> HIDE DEF heard, cut
<1>5. late(retryable) \in [Reconcilers -> PassRows]
  <2>1. ASSUME NEW r \in Reconcilers
        PROVE  pass[r] \in PassRows /\ [pass[r] EXCEPT !.late = @ \cup {s}] \in PassRows
    BY <1>0 DEF PassRows
  <2> QED
    BY <2>1
<1> HIDE DEF late
<1>6. CASE conn[s].step = "initialize"
  <2> DEFINE c == [cut EXCEPT !.step = "idle"]
             e == RecordFailure(heard(retryable), retryable)
  <2>1. c \in ConnRows
    BY <1>4 DEF ConnRows
  <2>2. e \in EntryRows
    BY <1>3, EntryTypes
  <2>3. Resumed(s, FALSE) \in [Turns -> TurnRows] /\ Passed(s, e) \in [Reconcilers -> PassRows]
    BY <1>0, WaiterTypes
  <2>4. /\ entry' = [entry EXCEPT ![s] = e] /\ conn' = [conn EXCEPT ![s] = c]
        /\ turn' = Resumed(s, FALSE) /\ pass' = Passed(s, e)
    BY <1>2, <1>6
  <2> HIDE DEF c, e
  <2> QED
    BY <1>0, <1>1, <2>1, <2>2, <2>3, <2>4, McpRowsTypedNext
<1>7. CASE conn[s].step # "initialize"
  <2>1. /\ entry' = [entry EXCEPT ![s] = heard(retryable)]
        /\ conn' = [conn EXCEPT ![s] = cut] /\ turn' = HungUp(s) /\ pass' = late(retryable)
    BY <1>2, <1>7
  <2>2. HungUp(s) \in [Turns -> TurnRows]
    BY <1>0, WaiterTypes
  <2> QED
    BY <1>0, <1>1, <1>3, <1>4, <1>5, <2>1, <2>2, McpRowsTypedNext
<1> QED
  BY <1>6, <1>7

LEMMA ReconcileTypes ==
  ASSUME McpTypeOK, NEW r \in Reconcilers, ReconcileStart(r) \/ ReconcileNext(r)
  PROVE  McpTypeOK'
<1>0. /\ entry \in [Servers -> EntryRows] /\ conn \in [Servers -> ConnRows]
      /\ turn \in [Turns -> TurnRows] /\ pass \in [Reconcilers -> PassRows]
      /\ life \in {"boot", "up", "closed"} /\ faults \in 0 .. MaxFaults
      /\ pass[r] \in PassRows
  BY McpRowsTyped
<1>1. CASE ReconcileStart(r)
  <2> DEFINE row == [at |-> 1, waits |-> None,
                     late |-> {s \in Servers : entry[s].retry = "waiting"}]
  <2>1. row \in PassRows
    BY DEF PassRows
  <2>2. pass' = [pass EXCEPT ![r] = row] /\ UNCHANGED <<entry, conn, turn, life, faults>>
    BY <1>1 DEF ReconcileStart
  <2> HIDE DEF row
  <2> QED
    BY <1>0, <2>1, <2>2, McpRowsTypedNext
<1>2. CASE ReconcileNext(r) /\ ToReconcile(r) = {}
  <2>1. Idle \in PassRows
    BY DEF Idle, PassRows, None
  <2>2. /\ pass' = [pass EXCEPT ![r] = Idle] /\ life' \in {"boot", "up", "closed"}
        /\ UNCHANGED <<entry, conn, turn, faults>>
    BY <1>0, <1>2 DEF ReconcileNext
  <2> QED
    BY <1>0, <2>1, <2>2, McpRowsTypedNext
<1>3. CASE ReconcileNext(r) /\ ToReconcile(r) # {}
  <2> DEFINE s == Min(ToReconcile(r))
             row == [pass[r] EXCEPT !.waits = s]
  <2>1. ToReconcile(r) \subseteq Servers
    BY DEF ToReconcile
  <2>2. s \in Servers
    BY <1>3, <2>1, FirstServer
  <2>3. /\ pass' = [pass EXCEPT ![r].waits = s]
        /\ entry' = [entry EXCEPT ![s] = OpenedEntry(s, entry[s])]
        /\ conn' = [conn EXCEPT ![s] = Dial(s)] /\ UNCHANGED <<life, turn, faults>>
    BY <1>3, Zenon DEF ReconcileNext
  <2> HIDE DEF s
  <2>4. row \in PassRows
    BY <1>0, <2>2 DEF PassRows
  <2>5. pass' = [pass EXCEPT ![r] = row]
    BY <2>3
  <2>6. OpenedEntry(s, entry[s]) \in EntryRows
    <3>1. entry[s] \in EntryRows /\ TRUE \in BOOLEAN
      BY <1>0, <2>2
    <3> QED
      BY <2>2, <3>1, EntryTypes
  <2>7. Dial(s) \in ConnRows
    <3>1. conn[s] \in ConnRows
      BY <1>0, <2>2
    <3> QED
      BY <2>2, <3>1, ConnTypes
  <2> HIDE DEF row
  <2> QED
    BY <1>0, <2>2, <2>3, <2>4, <2>5, <2>6, <2>7, McpRowsTypedNext
<1> QED
  BY <1>1, <1>2, <1>3

LEMMA ConnectTypes ==
  ASSUME McpTypeOK, NEW t \in Turns, NEW s \in Servers, NEW asked \in TurnRows,
         Connect(t, s, asked)
  PROVE  McpTypeOK'
<1>0. /\ entry \in [Servers -> EntryRows] /\ conn \in [Servers -> ConnRows]
      /\ turn \in [Turns -> TurnRows] /\ pass \in [Reconcilers -> PassRows]
      /\ life \in {"boot", "up", "closed"} /\ faults \in 0 .. MaxFaults
      /\ entry[s] \in EntryRows /\ conn[s] \in ConnRows
  BY McpRowsTyped
<1>1. /\ [asked EXCEPT !.on = s, !.wait = "reply"] \in TurnRows
      /\ [asked EXCEPT !.wait = "free"] \in TurnRows
      /\ [asked EXCEPT !.on = s, !.wait = "connect"] \in TurnRows
      /\ [asked EXCEPT !.on = s, !.opener = TRUE, !.wait = "connect"] \in TurnRows
  BY DEF TurnRows
<1>2. Wanted(entry[s]) \in EntryRows /\ OpenedEntry(s, Wanted(entry[s])) \in EntryRows
  <2>1. TRUE \in BOOLEAN
    OBVIOUS
  <2>2. Wanted(entry[s]) \in EntryRows
    BY <1>0, <2>1, EntryTypes
  <2> QED
    BY <2>1, <2>2, EntryTypes
<1>3. Dial(s) \in ConnRows
  BY <1>0, ConnTypes
<1>4. PICK row \in TurnRows, e \in EntryRows :
        /\ turn' = [turn EXCEPT ![t] = row] /\ entry' = [entry EXCEPT ![s] = e]
        /\ conn' = conn \/ conn' = [conn EXCEPT ![s] = Dial(s)]
        /\ UNCHANGED <<pass, life, faults>>
  <2>1. CASE /\ turn' = [turn EXCEPT ![t] =
                   IF Serves(s) THEN [asked EXCEPT !.on = s, !.wait = "reply"]
                                ELSE [asked EXCEPT !.wait = "free"]]
             /\ entry' = [entry EXCEPT ![s] = Wanted(entry[s])] /\ conn' = conn
    BY <1>1, <1>2, <2>1, Zenon DEF Connect
  <2>2. CASE /\ turn' = [turn EXCEPT ![t] = [asked EXCEPT !.on = s, !.wait = "connect"]]
             /\ entry' = [entry EXCEPT ![s] = Wanted(entry[s])] /\ conn' = conn
    BY <1>1, <1>2, <2>2, Zenon DEF Connect
  <2>3. CASE /\ turn' = [turn EXCEPT ![t] = [asked EXCEPT !.on = s, !.opener = TRUE,
                                                          !.wait = "connect"]]
             /\ entry' = [entry EXCEPT ![s] = OpenedEntry(s, Wanted(entry[s]))]
             /\ conn' = [conn EXCEPT ![s] = Dial(s)]
    BY <1>1, <1>2, <2>3, Zenon DEF Connect
  <2> QED
    BY <2>1, <2>2, <2>3, Zenon DEF Connect
<1>5. /\ conn' \in [Servers -> ConnRows] /\ turn' \in [Turns -> TurnRows]
      /\ entry' \in [Servers -> EntryRows]
  BY <1>0, <1>3, <1>4
<1> QED
  BY <1>0, <1>4, <1>5, McpRowsTypedNext

LEMMA TurnStepTypes ==
  ASSUME McpInv, McpTypeOK, NEW t \in Turns,
         \/ TurnStart(t) \/ TurnLists(t) \/ TurnCalls(t)
         \/ Answered(t) \/ TurnAborted(t) \/ TurnEnds(t)
  PROVE  McpTypeOK'
<1>0. /\ entry \in [Servers -> EntryRows] /\ conn \in [Servers -> ConnRows]
      /\ turn \in [Turns -> TurnRows] /\ pass \in [Reconcilers -> PassRows]
      /\ life \in {"boot", "up", "closed"} /\ faults \in 0 .. MaxFaults
      /\ turn[t] \in TurnRows /\ TurnReturns(turn[t], conn)
  BY McpRowsTyped DEF McpInv, WaitsInv
<1>1. ASSUME NEW row \in TurnRows, turn' = [turn EXCEPT ![t] = row],
             UNCHANGED <<entry, conn, pass, life>>, faults' \in 0 .. MaxFaults
      PROVE  McpTypeOK'
  BY <1>0, <1>1, McpRowsTypedNext
<1>2. NoTurn \in TurnRows
  BY DEF NoTurn, TurnRows
<1>3. CASE TurnStart(t)
  <2> DEFINE row == [NoTurn EXCEPT !.wait = "free",
                       !.todo = {s \in Servers : entry[s].state = "connected"}]
  <2>1. row \in TurnRows
    BY <1>2 DEF TurnRows
  <2>2. turn' = [turn EXCEPT ![t] = row] /\ UNCHANGED <<entry, conn, pass, life, faults>>
    BY <1>3 DEF TurnStart
  <2> HIDE DEF row
  <2> QED
    BY <1>0, <1>1, <2>1, <2>2
<1>4. CASE TurnLists(t)
  <2> DEFINE s == Min(turn[t].todo)
  <2>1. turn[t].todo \subseteq Servers /\ turn[t].todo # {}
    BY <1>0, <1>4 DEF TurnLists, TurnReturns
  <2>2. s \in turn[t].todo
    BY <2>1, FirstServer
  <2>3. Connect(t, s, [turn[t] EXCEPT !.todo = @ \ {s}, !.kind = "list"])
    BY <1>4, Zenon DEF TurnLists
  <2> HIDE DEF s
  <2>4. [turn[t] EXCEPT !.todo = @ \ {s}, !.kind = "list"] \in TurnRows
    BY <1>0 DEF TurnRows
  <2> QED
    BY <2>1, <2>2, <2>3, <2>4, ConnectTypes
<1>5. CASE TurnCalls(t)
  <2>1. PICK s \in turn[t].surface : Connect(t, s, [turn[t] EXCEPT !.kind = "call"])
    BY <1>5 DEF TurnCalls
  <2>2. s \in Servers
    BY <1>0 DEF TurnReturns
  <2>3. [turn[t] EXCEPT !.kind = "call"] \in TurnRows
    BY <1>0 DEF TurnRows
  <2> QED
    BY <2>1, <2>2, <2>3, ConnectTypes
<1>6. CASE Answered(t)
  <2>1. PICK ok \in BOOLEAN :
          turn' = [turn EXCEPT ![t] =
                     [turn[t] EXCEPT !.wait = "free", !.on = None,
                        !.surface = @ \cup {s \in {turn[t].on} : ok /\ turn[t].kind = "list"}]]
    BY <1>6, Zenon DEF Answered
  <2>2. turn[t].on \in Servers
    BY <1>0, <1>6 DEF TurnReturns, Answered
  <2> DEFINE new == {s \in {turn[t].on} : ok /\ turn[t].kind = "list"}
             row == [turn[t] EXCEPT !.wait = "free", !.on = None, !.surface = @ \cup new]
  <2>3. new \subseteq Servers
    BY <2>2
  <2>4. turn' = [turn EXCEPT ![t] = row] /\ UNCHANGED <<entry, conn, pass, life, faults>>
    BY <1>6, <2>1, Zenon DEF Answered
  <2> HIDE DEF new
  <2>5. row \in TurnRows
    BY <1>0, <2>3 DEF TurnRows
  <2> HIDE DEF row
  <2> QED
    BY <1>0, <1>1, <2>4, <2>5
<1>7. CASE TurnAborted(t)
  <2>1. faults' \in 0 .. MaxFaults
    BY <1>0, <1>7, McpAssumption DEF TurnAborted, Fault
  <2>2. CASE turn[t].wait = "reply"
    <3> DEFINE row == [turn[t] EXCEPT !.wait = "free", !.on = None]
    <3>1. row \in TurnRows
      BY <1>0 DEF TurnRows
    <3>2. turn' = [turn EXCEPT ![t] = row] /\ UNCHANGED <<entry, conn, pass, life>>
      BY <1>7, <2>2 DEF TurnAborted
    <3> HIDE DEF row
    <3> QED
      BY <1>1, <2>1, <3>1, <3>2
  <2>3. CASE turn[t].wait # "reply"
    <3>1. turn[t].wait = "connect"
          /\ ConnectFails(turn[t].on, entry[turn[t].on], turn[t].on \notin Stdio)
      BY <1>7, <2>3, Zenon DEF TurnAborted
    <3>2. turn[t].on \in Servers
      BY <1>0, <3>1 DEF TurnReturns
    <3>3. PICK b \in BOOLEAN : b = (turn[t].on \notin Stdio)
      BY Zenon
    <3>4. ConnectFails(turn[t].on, entry[turn[t].on], b)
      BY <3>1, <3>3, Zenon
    <3> QED
      BY <2>1, <3>2, <3>4, ConnectFailsTypes
  <2> QED
    BY <2>2, <2>3
<1>8. CASE TurnEnds(t)
  <2>1. turn' = [turn EXCEPT ![t] = NoTurn] /\ UNCHANGED <<entry, conn, pass, life, faults>>
    BY <1>8 DEF TurnEnds
  <2> QED
    BY <1>0, <1>1, <1>2, <2>1
<1> QED
  BY <1>3, <1>4, <1>5, <1>6, <1>7, <1>8

LEMMA ShutdownTypes ==
  ASSUME McpInv, McpTypeOK, Shutdown
  PROVE  McpTypeOK'
<1>0. /\ entry \in [Servers -> EntryRows] /\ conn \in [Servers -> ConnRows]
      /\ turn \in [Turns -> TurnRows] /\ pass \in [Reconcilers -> PassRows]
      /\ life \in {"boot", "up", "closed"} /\ faults \in 0 .. MaxFaults
      /\ life' = "closed" /\ UNCHANGED <<turn, faults>>
  BY McpRowsTyped DEF Shutdown
<1>1. ASSUME NEW s \in Servers PROVE Disconnected(s) \in EntryRows
  <2> DEFINE e == [entry[s] EXCEPT !.desired = "disconnected", !.client = FALSE,
                            !.state = "disconnected", !.attempt = 0,
                            !.retry = "none"]
  <2>1. e \in EntryRows
    <3>1. entry[s] \in EntryRows
      BY <1>0
    <3> QED
      BY <3>1 DEF EntryRows
  <2>2. RecordFailure(e, FALSE) \in EntryRows
    BY <2>1, EntryTypes
  <2>3. Disconnected(s) = e \/ Disconnected(s) = RecordFailure(e, FALSE)
    BY Zenon DEF Disconnected
  <2> HIDE DEF e
  <2> QED
    BY <2>1, <2>2, <2>3
<1>2. entry' \in [Servers -> EntryRows]
  BY <1>1 DEF Shutdown
<1>3. conn' \in [Servers -> ConnRows]
  <2>1. ASSUME NEW s \in Servers
        PROVE  /\ conn[s] \in ConnRows /\ Hangup(conn[s]) \in ConnRows
               /\ [Hangup(conn[s]) EXCEPT !.step = "idle"] \in ConnRows
    <3>1. conn[s] \in ConnRows
      BY <1>0
    <3> QED
      BY <3>1, ConnTypes
  <2> QED
    BY <2>1, Zenon DEF Shutdown
<1>4. pass' \in [Reconcilers -> PassRows]
  <2>1. ASSUME NEW r \in Reconcilers, pass[r].waits # None
        PROVE  [pass[r] EXCEPT !.waits = None, !.at = pass[r].waits + 1] \in PassRows
    <3>1. pass[r] \in PassRows
      BY <1>0
    <3>2. pass[r].waits \in Nat /\ pass[r].waits + 1 \in Nat
      <4>1. pass[r].waits \in Servers
        BY <2>1, <3>1 DEF PassRows
      <4>2. \A s \in Servers : s \in Nat /\ s + 1 \in Nat
        BY McpAssumption
      <4> QED
        BY <4>1, <4>2, Zenon
    <3> QED
      BY <3>1, <3>2 DEF PassRows
  <2> DEFINE moves(r) == pass[r].waits # None /\ conn'[pass[r].waits].step = "idle"
             next(r) == [pass[r] EXCEPT !.waits = None, !.at = pass[r].waits + 1]
  <2>2. pass' = [r \in Reconcilers |-> IF moves(r) THEN next(r) ELSE pass[r]]
    BY Zenon DEF Shutdown
  <2>3. \A r \in Reconcilers : moves(r) => next(r) \in PassRows
    BY <2>1
  <2> HIDE DEF moves, next
  <2> QED
    BY <1>0, <2>2, <2>3
<1> QED
  BY <1>0, <1>2, <1>3, <1>4, McpRowsTypedNext

LEMMA McpTypesStep ==
  ASSUME McpInv, McpTypeOK, [McpNext]_mcpVars
  PROVE  McpTypeOK'
<1>1. CASE UNCHANGED mcpVars
  BY <1>1 DEF mcpVars, McpTypeOK
<1>2. CASE McpNext
  BY <1>2, ServerStepTypes, ConnectionLostTypes, ReconcileTypes, TurnStepTypes,
     ShutdownTypes DEF McpNext
<1> QED
  BY <1>1, <1>2

-----------------------------------------------------------------------------
(* LspManager.  A request that pends has a client that is past its          *)
(* handshake, so that nothing but a loss or a shutdown takes its connection;*)
(* a loss rejects it, and a shutdown begins when every call has returned.   *)

ClientRows == [state : {"new", "initializing", "initialized", "shutting_down",
                        "stopped", "failed"},
               step : {"none", "spawning", "initialize", "notify"},
               wire : {"none", "open", "closed"}, doc : BOOLEAN]
CallerRows == [pc : {"idle", "readFile", "clientFor", "initializing", "got",
                     "opening", "publish", "reply"},
               c : 0 .. made, then : {"open", "wait", "read", "ask"},
               tool : {"diagnostics", "ask", "context"}]

(* A call waits for a client that exists and can settle. *)
CallSettles(k) ==
  /\ k.pc = "initializing" => k.c # NoClient /\ client[k.c].step # "none"
  /\ k.pc = "reply" => /\ k.c # NoClient /\ client[k.c].wire = "open"
                       /\ client[k.c].step = "none"

ClientSound(c) ==
  /\ client[c].step # "none" => c <= made
  /\ client[c].state = "initialized" => client[c].step = "none"
  /\ client[c].state = "shutting_down" =>
       client[c].wire = "open" /\ manager = "closed"

LspInv ==
  /\ LspTypeOK
  /\ \A k \in Callers : CallSettles(caller[k])
  /\ \A c \in Clients : ClientSound(c)
  /\ manager = "closed" => \A k \in Callers : caller[k].pc = "idle"

LEMMA LspStarts == LspInit => LspInv
<1> SUFFICES ASSUME LspInit PROVE LspInv
  OBVIOUS
<1>1. LspTypeOK
  <2>1. NewClient \in ClientRows
    BY DEF NewClient, ClientRows
  <2>2. made = 0 /\ 0 \in 0 .. MaxClients /\ 0 \in 0 .. MaxLspFaults /\ 0 .. made = {0}
    BY LspAssumption DEF LspInit
  <2>3. Returned \in CallerRows
    BY <2>2 DEF Returned, CallerRows, NoClient
  <2>4. client \in [Clients -> ClientRows]
    BY <2>1 DEF LspInit
  <2>5. caller \in [Callers -> CallerRows]
    BY <2>3 DEF LspInit
  <2>6. opened \in BOOLEAN /\ manager \in {"up", "closed"} /\ cached = 0 /\ lspFaults = 0
    BY Zenon DEF LspInit, NoClient
  <2> QED
    BY <2>1, <2>2, <2>3, <2>4, <2>5, <2>6 DEF LspTypeOK, ClientRows, CallerRows
<1>2. \A k \in Callers : CallSettles(caller[k])
  BY DEF LspInit, CallSettles, Returned
<1>3. \A c \in Clients : ClientSound(c)
  BY DEF LspInit, ClientSound, NewClient
<1> QED
  BY <1>1, <1>2, <1>3 DEF LspInv, LspInit

(* A step that moves one call and no client. *)
LEMMA CallStep ==
  ASSUME LspInv, NEW k \in Callers, NEW row \in CallerRows,
         caller' = [caller EXCEPT ![k] = row], manager' = manager,
         CallSettles(row), row.pc # "idle" => manager = "up",
         opened' \in BOOLEAN, lspFaults' \in 0 .. MaxLspFaults,
         UNCHANGED <<client, made, cached>>
  PROVE  LspInv'
<1>1. LspTypeOK'
  BY DEF LspInv, LspTypeOK, CallerRows
<1>2. \A j \in Callers : caller'[j] = IF j = k THEN row ELSE caller[j]
  BY DEF LspInv, LspTypeOK
<1>3. \A j \in Callers : CallSettles(caller[j])'
  BY <1>2 DEF LspInv, CallSettles
<1>4. \A c \in Clients : ClientSound(c)'
  BY DEF LspInv, ClientSound
<1> QED
  BY <1>1, <1>2, <1>3, <1>4 DEF LspInv, LspTypeOK

(* The calls' own steps. *)
LEMMA CallsKeep ==
  ASSUME LspInv, NEW k \in Callers,
         \/ \E tool \in {"diagnostics", "ask"} : ToolStart(k, tool)
         \/ ContextStart(k) \/ FileRead(k) \/ DidOpen(k)
         \/ PublishTimeout(k) \/ RequestSettles(k)
  PROVE  LspInv'
<1> USE DEF LspInv, LspTypeOK, CallerRows, NoClient, Returned
<1>0. /\ made \in Nat /\ 0 \in 0 .. made
      /\ caller[k] \in CallerRows /\ caller[k].pc # "idle" => manager = "up"
  BY LspAssumption
<1>1. ASSUME NEW tool \in {"diagnostics", "ask"}, ToolStart(k, tool) PROVE LspInv'
  <2> DEFINE asked == [Returned EXCEPT !.tool = tool]
             row == IF ~opened THEN [asked EXCEPT !.pc = "readFile"]
                    ELSE [asked EXCEPT !.pc = "clientFor",
                            !.then = IF tool = "diagnostics" THEN "wait" ELSE "ask"]
  <2>1. caller' = [caller EXCEPT ![k] = row]
    BY <1>1, Zenon DEF ToolStart
  <2>2. row \in CallerRows /\ CallSettles(row)
    BY <1>0 DEF CallSettles
  <2>3. manager = "up" /\ UNCHANGED <<client, made, cached, opened, manager, lspFaults>>
    BY <1>1 DEF ToolStart
  <2> HIDE DEF row
  <2> QED
    BY <2>1, <2>2, <2>3, CallStep
<1>2. CASE ContextStart(k)
  <2> DEFINE row == [Returned EXCEPT !.tool = "context", !.pc = "clientFor",
                                     !.then = "read"]
  <2>1. caller' = [caller EXCEPT ![k] = row]
    BY <1>2, Zenon DEF ContextStart
  <2>2. row \in CallerRows /\ CallSettles(row)
    BY <1>0 DEF CallSettles
  <2>3. manager = "up" /\ UNCHANGED <<client, made, cached, opened, manager, lspFaults>>
    BY <1>2 DEF ContextStart
  <2> HIDE DEF row
  <2> QED
    BY <2>1, <2>2, <2>3, CallStep
<1>3. \A then \in {"open", "wait", "read", "ask"} :
         LET row == Goto(k, "clientFor", then)
         IN  row \in CallerRows /\ CallSettles(row) /\ row.pc = "clientFor"
  BY <1>0 DEF Goto, CallSettles
<1>4. Returned \in CallerRows /\ CallSettles(Returned) /\ Returned.pc = "idle"
  BY <1>0 DEF CallSettles
<1>5. AfterOpen(k) \in CallerRows /\ CallSettles(AfterOpen(k)) /\ AfterOpen(k).pc = "clientFor"
  BY <1>3 DEF AfterOpen
<1> HIDE DEF Returned, CallerRows
<1>6. CASE FileRead(k)
  <2>1. PICK found \in BOOLEAN :
          caller' = [caller EXCEPT ![k] = IF found THEN Goto(k, "clientFor", "open")
                                                   ELSE Returned]
    BY <1>6 DEF FileRead
  <2> DEFINE row == IF found THEN Goto(k, "clientFor", "open") ELSE Returned
  <2>2. row \in CallerRows /\ CallSettles(row) /\ row.pc \in {"idle", "clientFor"}
    BY <1>3, <1>4
  <2>3. manager = "up" /\ UNCHANGED <<client, made, cached, opened, manager, lspFaults>>
    BY <1>0, <1>6 DEF FileRead
  <2> HIDE DEF row
  <2> QED
    BY <2>1, <2>2, <2>3, CallStep DEF row
<1>7. CASE DidOpen(k)
  <2>1. PICK row \in {Returned, AfterOpen(k)} : caller' = [caller EXCEPT ![k] = row]
    BY <1>7 DEF DidOpen
  <2>2. row \in CallerRows /\ CallSettles(row)
    BY <1>4, <1>5, <2>1
  <2>3. opened' \in BOOLEAN
    BY <1>7, Zenon DEF DidOpen
  <2>4. /\ manager = "up" /\ lspFaults' \in 0 .. MaxLspFaults
        /\ UNCHANGED <<client, made, cached, manager>>
    BY <1>0, <1>7, LspAssumption DEF DidOpen, LspFault
  <2> QED
    BY <2>1, <2>2, <2>3, <2>4, CallStep
<1>8. CASE PublishTimeout(k)
  BY <1>0, <1>3, <1>8, CallStep DEF PublishTimeout
<1>9. CASE RequestSettles(k)
  BY <1>0, <1>4, <1>9, CallStep DEF RequestSettles
<1> QED
  BY <1>1, <1>2, <1>6, <1>7, <1>8, <1>9

(* A call that has its client goes on, or asks a client that is past its    *)
(* handshake.                                                               *)
LEMMA GotClientKeeps ==
  ASSUME LspInv, NEW k \in Callers, GotClient(k)
  PROVE  LspInv'
<1> USE DEF LspInv, LspTypeOK, NoClient
<1>0. /\ made \in Nat /\ made <= MaxClients /\ 0 \in 0 .. made
      /\ caller[k] \in CallerRows /\ caller[k].pc = "got" /\ manager = "up"
      /\ caller[k].c \in 0 .. made
  BY LspAssumption
  DEF CallerRows, GotClient, OpensNowhere, OpenRefused, OpenDocument,
      ListenForDiagnostics, ReadDiagnostics, AskServer, Got
<1>1. Returned \in CallerRows /\ CallSettles(Returned) /\ Returned.pc = "idle"
  BY <1>0 DEF CallSettles, Returned, CallerRows
<1>2. AfterOpen(k) \in CallerRows /\ CallSettles(AfterOpen(k))
  BY <1>0 DEF AfterOpen, Goto, CallerRows, CallSettles
<1>3. CASE OpensNowhere(k)
  BY <1>0, <1>2, <1>3, CallStep DEF OpensNowhere
<1>4. CASE OpenRefused(k) \/ ReadDiagnostics(k)
  BY <1>0, <1>1, <1>4, CallStep DEF OpenRefused, ReadDiagnostics
<1>5. CASE ListenForDiagnostics(k)
  <2> DEFINE row == [caller[k] EXCEPT !.pc = "publish"]
  <2>1. row \in CallerRows /\ CallSettles(row)
    BY <1>0 DEF CallerRows, CallSettles
  <2>2. caller' = [caller EXCEPT ![k] = row]
    BY <1>5 DEF ListenForDiagnostics
  <2> QED
    BY <1>0, <1>5, <2>1, <2>2, CallStep DEF ListenForDiagnostics
<1>6. CASE AskServer(k)
  <2>1. CASE caller[k].c # NoClient /\ Usable(caller[k].c)
    <3> DEFINE row == [caller[k] EXCEPT !.pc = "reply"]
    <3>1. row \in CallerRows /\ row.c = caller[k].c /\ row.pc = "reply"
      BY <1>0 DEF CallerRows
    <3>2. caller[k].c \in Clients
      BY <1>0, <2>1, LspAssumption DEF Clients
    <3>3. CallSettles(row)
      BY <2>1, <3>1, <3>2 DEF Usable, ClientSound, CallSettles
    <3>4. caller' = [caller EXCEPT ![k] = row]
      BY <1>6, <2>1 DEF AskServer
    <3> QED
      BY <1>0, <1>6, <3>1, <3>3, <3>4, CallStep DEF AskServer
  <2>2. CASE ~(caller[k].c # NoClient /\ Usable(caller[k].c))
    BY <1>0, <1>1, <1>6, <2>2, CallStep DEF AskServer
  <2> QED
    BY <2>1, <2>2
<1>7. CASE OpenDocument(k)
  <2> DEFINE c0 == caller[k].c
             crow == [client[c0] EXCEPT !.doc = TRUE]
             row == [caller[k] EXCEPT !.pc = "opening"]
  <2>1. c0 \in Clients /\ client[c0] \in ClientRows
    BY <1>0, <1>7, LspAssumption DEF OpenDocument, Clients, ClientRows
  <2>2. crow \in ClientRows /\ crow.state = client[c0].state
        /\ crow.step = client[c0].step /\ crow.wire = client[c0].wire
    BY <2>1 DEF ClientRows
  <2>3. row \in CallerRows /\ row.pc = "opening"
    BY <1>0 DEF CallerRows
  <2>4. client' = [client EXCEPT ![c0] = crow] /\ caller' = [caller EXCEPT ![k] = row]
    BY <1>7 DEF OpenDocument
  <2>5. UNCHANGED <<made, cached, opened, manager, lspFaults>>
    BY <1>7 DEF OpenDocument
  <2> HIDE DEF crow, row, c0
  <2>6. \A c \in Clients : /\ client'[c].state = client[c].state
                           /\ client'[c].step = client[c].step
                           /\ client'[c].wire = client[c].wire
    BY <2>1, <2>2, <2>4
  <2>7. LspTypeOK'
    BY <2>1, <2>2, <2>3, <2>4, <2>5 DEF ClientRows, CallerRows
  <2>8. \A c \in Clients : ClientSound(c)'
    BY <2>5, <2>6 DEF ClientSound
  <2>9. ASSUME NEW j \in Callers PROVE CallSettles(caller[j])'
    <3>1. CASE j = k
      BY <2>3, <2>4, <3>1 DEF CallSettles
    <3>2. CASE j # k
      <4>1. caller'[j] = caller[j] /\ caller[j].c \in 0 .. made
        BY <2>4, <3>2 DEF CallerRows
      <4>2. caller[j].c # 0 => caller[j].c \in Clients
        BY <1>0, <4>1, LspAssumption DEF Clients
      <4> QED
        BY <2>6, <4>1, <4>2 DEF CallSettles
    <3> QED
      BY <3>1, <3>2
  <2> QED
    BY <1>0, <2>5, <2>7, <2>8, <2>9
<1> QED
  BY <1>3, <1>4, <1>5, <1>6, <1>7 DEF GotClient

(* A step that moves one client, and maybe the calls that wait for it.      *)
LEMMA ClientStep ==
  ASSUME LspInv, NEW c \in Clients, NEW row \in ClientRows,
         client' = [client EXCEPT ![c] = row],
         caller' \in [Callers -> CallerRows],
         \A k \in Callers : \/ caller'[k] = caller[k]
                            \/ /\ caller[k].pc # "idle"
                               /\ caller'[k].pc \notin {"initializing", "reply"},
         \A k \in Callers :
           caller'[k] = caller[k] /\ caller[k].c = c =>
             /\ caller[k].pc = "initializing" => row.step # "none"
             /\ caller[k].pc = "reply" => row.wire = "open" /\ row.step = "none",
         row.step # "none" => c <= made,
         row.state = "initialized" => row.step = "none",
         row.state = "shutting_down" => row.wire = "open" /\ manager = "closed",
         cached' \in 0 .. made, lspFaults' \in 0 .. MaxLspFaults,
         UNCHANGED <<made, opened, manager>>
  PROVE  LspInv'
<1>1. \A d \in Clients : client'[d] = IF d = c THEN row ELSE client[d]
  BY DEF LspInv, LspTypeOK
<1>2. LspTypeOK'
  BY DEF LspInv, LspTypeOK, ClientRows, CallerRows
<1>3. \A d \in Clients : ClientSound(d)'
  BY <1>1 DEF LspInv, ClientSound
<1>4. ASSUME NEW k \in Callers PROVE CallSettles(caller[k])'
  <2>1. CASE caller'[k].pc \notin {"initializing", "reply"}
    BY <2>1 DEF CallSettles
  <2>2. CASE caller'[k] = caller[k] /\ caller[k].pc \in {"initializing", "reply"}
    <3>1. caller[k].c \in 0 .. made /\ made \in 0 .. MaxClients /\ caller[k].c # NoClient
      BY <2>2 DEF LspInv, LspTypeOK, CallSettles
    <3>2. caller[k].c \in Clients
      BY <3>1, LspAssumption DEF Clients, NoClient
    <3> QED
      BY <1>1, <2>2, <3>1, <3>2 DEF LspInv, CallSettles
  <2> QED
    BY <2>1, <2>2
<1>5. manager' = "closed" => \A k \in Callers : caller'[k].pc = "idle"
  BY DEF LspInv
<1> QED
  BY <1>2, <1>3, <1>4, <1>5 DEF LspInv

(* A request pends on a client that is past its handshake. *)
LEMMA RequestAfterHandshake ==
  ASSUME LspInv, NEW k \in Callers, NEW c \in Clients, caller[k].c = c,
         client[c].step # "none"
  PROVE  caller[k].pc # "reply"
  BY DEF LspInv, CallSettles

(* The steps of a client's handshake, its failure, its loss and its end.    *)
LEMMA ClientsKeep ==
  ASSUME LspInv, NEW c \in Clients,
         \/ LspSpawnOk(c) \/ InitializeResult(c) \/ LspInitializeRefused(c)
         \/ Initialized(c) \/ LspConnectionLost(c) \/ ShutdownAnswered(c)
  PROVE  LspInv'
<1> DEFINE old == client[c]
<1>0. /\ old \in ClientRows /\ old = client[c]
      /\ made \in Nat /\ 0 \in 0 .. made /\ cached \in 0 .. made
      /\ lspFaults \in 0 .. MaxLspFaults
      /\ caller \in [Callers -> CallerRows]
      /\ ClientSound(c) /\ c \in Nat /\ c # 0
      /\ \A k \in Callers : CallSettles(caller[k])
  BY LspAssumption DEF LspInv, LspTypeOK, ClientRows, CallerRows, Clients
<1> HIDE DEF old
<1>1. CASE LspSpawnOk(c)
  <2> DEFINE row == [old EXCEPT !.step = "initialize", !.wire = "open"]
  <2>1. /\ row \in ClientRows /\ row.step = "initialize" /\ row.state = old.state
        /\ row.wire = "open"
    BY <1>0 DEF ClientRows
  <2>2. client' = [client EXCEPT ![c] = row]
    BY <1>0, <1>1 DEF LspSpawnOk
  <2>3. old.step = "spawning" /\ UNCHANGED <<made, cached, opened, caller, manager, lspFaults>>
    BY <1>0, <1>1 DEF LspSpawnOk
  <2> HIDE DEF row
  <2>4. row.state # "initialized" /\ c <= made
    BY <1>0, <2>1, <2>3 DEF ClientSound
  <2>5. row.state = "shutting_down" => manager = "closed"
    BY <1>0, <2>1 DEF ClientSound
  <2>6. \A k \in Callers : caller[k].c = c => caller[k].pc # "reply"
    BY <1>0, <2>3, RequestAfterHandshake
  <2>7. caller' \in [Callers -> CallerRows]
    BY <1>0, <2>3
  <2>a. \A k \in Callers : \/ caller'[k] = caller[k]
                            \/ /\ caller[k].pc # "idle"
                               /\ caller'[k].pc \notin {"initializing", "reply"}
    BY <2>3
  <2>b. \A k \in Callers :
           caller'[k] = caller[k] /\ caller[k].c = c =>
             /\ caller[k].pc = "initializing" => row.step # "none"
             /\ caller[k].pc = "reply" => row.wire = "open" /\ row.step = "none"
    BY <2>1, <2>6
  <2>c. /\ row.step # "none" => c <= made
        /\ row.state = "initialized" => row.step = "none"
        /\ row.state = "shutting_down" => row.wire = "open" /\ manager = "closed"
    BY <2>1, <2>4, <2>5
  <2>d. /\ cached' \in 0 .. made /\ lspFaults' \in 0 .. MaxLspFaults
        /\ UNCHANGED <<made, opened, manager>>
    BY <1>0, <2>3
  <2> QED
    BY <2>1, <2>2, <2>7, <2>a, <2>b, <2>c, <2>d, ClientStep, Zenon
<1>2. CASE InitializeResult(c)
  <2> DEFINE row == [old EXCEPT !.step = "notify"]
  <2>1. /\ row \in ClientRows /\ row.step = "notify" /\ row.state = old.state
        /\ row.wire = old.wire
    BY <1>0 DEF ClientRows
  <2>2. client' = [client EXCEPT ![c] = row]
    BY <1>0, <1>2 DEF InitializeResult
  <2>3. old.step = "initialize" /\ UNCHANGED <<made, cached, opened, caller, manager, lspFaults>>
    BY <1>0, <1>2 DEF InitializeResult
  <2> HIDE DEF row
  <2>4. row.state # "initialized" /\ c <= made
    BY <1>0, <2>1, <2>3 DEF ClientSound
  <2>5. row.state = "shutting_down" => row.wire = "open" /\ manager = "closed"
    BY <1>0, <2>1 DEF ClientSound
  <2>6. \A k \in Callers : caller[k].c = c => caller[k].pc # "reply"
    BY <1>0, <2>3, RequestAfterHandshake
  <2>7. caller' \in [Callers -> CallerRows]
    BY <1>0, <2>3
  <2>a. \A k \in Callers : \/ caller'[k] = caller[k]
                            \/ /\ caller[k].pc # "idle"
                               /\ caller'[k].pc \notin {"initializing", "reply"}
    BY <2>3
  <2>b. \A k \in Callers :
           caller'[k] = caller[k] /\ caller[k].c = c =>
             /\ caller[k].pc = "initializing" => row.step # "none"
             /\ caller[k].pc = "reply" => row.wire = "open" /\ row.step = "none"
    BY <2>1, <2>6
  <2>c. /\ row.step # "none" => c <= made
        /\ row.state = "initialized" => row.step = "none"
        /\ row.state = "shutting_down" => row.wire = "open" /\ manager = "closed"
    BY <2>1, <2>4, <2>5
  <2>d. /\ cached' \in 0 .. made /\ lspFaults' \in 0 .. MaxLspFaults
        /\ UNCHANGED <<made, opened, manager>>
    BY <1>0, <2>3
  <2> QED
    BY <2>1, <2>2, <2>7, <2>a, <2>b, <2>c, <2>d, ClientStep, Zenon
<1>3. CASE LspInitializeRefused(c)
  <2> DEFINE row == [Disposed(c) EXCEPT !.state = "failed", !.step = "none"]
  <2>1. row \in ClientRows /\ row.step = "none" /\ row.state = "failed"
    <3>1. Disposed(c) \in ClientRows
      <4>2. Disposed(c) = [old EXCEPT !.wire = IF @ = "none" THEN "none" ELSE "closed"]
        BY <1>0, Zenon DEF Disposed
      <4> QED
        BY <1>0, <4>2 DEF ClientRows
    <3> QED
      BY <3>1 DEF ClientRows
  <2>2. client' = [client EXCEPT ![c] = row]
    BY <1>3, Zenon DEF LspInitializeRefused, InitializeFails
  <2>3. /\ old.step # "none" /\ UNCHANGED <<made, cached, opened, manager>>
        /\ lspFaults' \in 0 .. MaxLspFaults
    <3>1. /\ client[c].step # "none" /\ lspFaults < MaxLspFaults /\ lspFaults' = lspFaults + 1
          /\ UNCHANGED <<made, cached, opened, manager>>
      BY <1>3 DEF LspInitializeRefused, InitializeFails, LspFault
    <3> QED
      BY <1>0, <3>1, LspAssumption
  <2>4. caller' = [k \in Callers |->
           IF k \notin Awaiting(c) THEN caller[k]
           ELSE [caller[k] EXCEPT !.pc = "got", !.c = NoClient]]
    BY <1>3, Zenon DEF LspInitializeRefused, InitializeFails
  <2>5. ASSUME NEW k \in Callers
        PROVE  /\ caller'[k] \in CallerRows
               /\ \/ caller'[k] = caller[k] /\ k \notin Awaiting(c)
                  \/ caller[k].pc # "idle" /\ caller'[k].pc = "got"
    BY <1>0, <2>4 DEF CallerRows, Awaiting, NoClient
  <2>6. \A k \in Callers : caller[k].c = c => caller[k].pc # "reply"
    BY <1>0, <2>3, RequestAfterHandshake
  <2>7. caller' \in [Callers -> CallerRows]
    BY <2>4, <2>5
  <2>8. \A k \in Callers : caller'[k] = caller[k] /\ caller[k].c = c =>
                             caller[k].pc # "initializing"
    BY <2>5 DEF Awaiting
  <2>a. \A k \in Callers : \/ caller'[k] = caller[k]
                            \/ /\ caller[k].pc # "idle"
                               /\ caller'[k].pc \notin {"initializing", "reply"}
    BY <2>5
  <2>b. \A k \in Callers :
           caller'[k] = caller[k] /\ caller[k].c = c =>
             /\ caller[k].pc = "initializing" => row.step # "none"
             /\ caller[k].pc = "reply" => row.wire = "open" /\ row.step = "none"
    BY <2>6, <2>8
  <2> HIDE DEF row
  <2>c. /\ row.step # "none" => c <= made
        /\ row.state = "initialized" => row.step = "none"
        /\ row.state = "shutting_down" => row.wire = "open" /\ manager = "closed"
    BY <2>1
  <2>d. /\ cached' \in 0 .. made /\ lspFaults' \in 0 .. MaxLspFaults
        /\ UNCHANGED <<made, opened, manager>>
    BY <1>0, <2>3
  <2> QED
    BY <2>1, <2>2, <2>7, <2>a, <2>b, <2>c, <2>d, ClientStep, Zenon
<1>4. CASE Initialized(c)
  <2> DEFINE row == [old EXCEPT !.state = "initialized", !.step = "none"]
  <2>1. row \in ClientRows /\ row.step = "none" /\ row.state = "initialized"
    BY <1>0 DEF ClientRows
  <2>2. client' = [client EXCEPT ![c] = row]
    BY <1>0, <1>4 DEF Initialized
  <2>3. old.step = "notify" /\ cached' = c /\ UNCHANGED <<made, opened, manager, lspFaults>>
    BY <1>0, <1>4 DEF Initialized
  <2>4. caller' = [k \in Callers |-> IF k \in Awaiting(c)
                                     THEN [caller[k] EXCEPT !.pc = "got"]
                                     ELSE caller[k]]
    BY <1>4, Zenon DEF Initialized
  <2>5. ASSUME NEW k \in Callers
        PROVE  /\ caller'[k] \in CallerRows
               /\ \/ caller'[k] = caller[k] /\ k \notin Awaiting(c)
                  \/ caller[k].pc # "idle" /\ caller'[k].pc = "got"
    BY <1>0, <2>4 DEF CallerRows, Awaiting
  <2>6. \A k \in Callers : caller[k].c = c => caller[k].pc # "reply"
    BY <1>0, <2>3, RequestAfterHandshake
  <2>7. caller' \in [Callers -> CallerRows]
    BY <2>4, <2>5
  <2>8. \A k \in Callers : caller'[k] = caller[k] /\ caller[k].c = c =>
                             caller[k].pc # "initializing"
    BY <2>5 DEF Awaiting
  <2>9. c \in 0 .. made
    BY <1>0, <2>3 DEF ClientSound
  <2>a. \A k \in Callers : \/ caller'[k] = caller[k]
                            \/ /\ caller[k].pc # "idle"
                               /\ caller'[k].pc \notin {"initializing", "reply"}
    BY <2>5
  <2>b. \A k \in Callers :
           caller'[k] = caller[k] /\ caller[k].c = c =>
             /\ caller[k].pc = "initializing" => row.step # "none"
             /\ caller[k].pc = "reply" => row.wire = "open" /\ row.step = "none"
    BY <2>6, <2>8
  <2> HIDE DEF row
  <2>c. /\ row.step # "none" => c <= made
        /\ row.state = "initialized" => row.step = "none"
        /\ row.state = "shutting_down" => row.wire = "open" /\ manager = "closed"
    BY <2>1
  <2>d. /\ cached' \in 0 .. made /\ lspFaults' \in 0 .. MaxLspFaults
        /\ UNCHANGED <<made, opened, manager>>
    BY <1>0, <2>3, <2>9
  <2> QED
    BY <2>1, <2>2, <2>7, <2>a, <2>b, <2>c, <2>d, ClientStep, Zenon
<1>5. CASE LspConnectionLost(c)
  <2>1. client' = [client EXCEPT ![c] =
          [old EXCEPT !.wire = "closed",
            !.step = IF @ = "initialize" THEN "none" ELSE @,
            !.state = IF @ = "shutting_down" THEN "stopped" ELSE "failed"]]
    BY <1>0, <1>5, Zenon DEF LspConnectionLost
  <2> DEFINE row == [old EXCEPT !.wire = "closed",
            !.step = IF @ = "initialize" THEN "none" ELSE @,
            !.state = IF @ = "shutting_down" THEN "stopped" ELSE "failed"]
  <2>2. /\ row \in ClientRows /\ row.state \in {"stopped", "failed"}
        /\ row.step = IF old.step = "initialize" THEN "none" ELSE old.step
    <3> DEFINE step == IF old.step = "initialize" THEN "none" ELSE old.step
               state == IF old.state = "shutting_down" THEN "stopped" ELSE "failed"
    <3>2. row = [old EXCEPT !.wire = "closed", !.step = step, !.state = state]
      BY Zenon
    <3>3. step \in {old.step, "none"} /\ state \in {"stopped", "failed"}
      OBVIOUS
    <3> HIDE DEF step, state
    <3>4. row \in ClientRows /\ row.state = state /\ row.step = step
      <4> HIDE DEF row
      <4>1. PICK sp \in {"none", "spawning", "initialize", "notify"}, st \in {"stopped", "failed"} :
              sp = step /\ st = state
        <5>1. step \in {"none", "spawning", "initialize", "notify"}
          BY <1>0, <3>3 DEF ClientRows
        <5> QED
          BY <3>3, <5>1
      <4>2. row = [old EXCEPT !.wire = "closed", !.step = sp, !.state = st]
        BY <3>2, <4>1, Zenon
      <4>3. row.state = st /\ row.step = sp
        BY <1>0, <4>2 DEF ClientRows
      <4>4. row \in ClientRows
        <5>1. PICK one \in ClientRows : one = [old EXCEPT !.wire = "closed"]
          BY <1>0 DEF ClientRows
        <5>2. PICK two \in ClientRows : two = [one EXCEPT !.step = sp]
          BY <5>1 DEF ClientRows
        <5>3. row = [two EXCEPT !.state = st]
          BY <4>2, <5>1, <5>2, Zenon
        <5> QED
          BY <5>2, <5>3 DEF ClientRows
      <4> QED
        BY <4>1, <4>3, <4>4
    <3> QED
      BY <3>3, <3>4 DEF step
  <2>3. UNCHANGED <<made, cached, opened, manager>> /\ lspFaults' \in 0 .. MaxLspFaults
    <3>1. /\ lspFaults < MaxLspFaults /\ lspFaults' = lspFaults + 1
          /\ UNCHANGED <<made, cached, opened, manager>>
      BY <1>5 DEF LspConnectionLost, LspFault
    <3> QED
      BY <1>0, <3>1, LspAssumption
  <2>4. caller' = [k \in Callers |->
         IF caller[k].c # c THEN caller[k]
         ELSE CASE caller[k].pc = "reply" -> Returned
                [] caller[k].pc = "initializing" /\ old.step = "initialize"
                     -> [caller[k] EXCEPT !.pc = "got", !.c = NoClient]
                [] OTHER -> caller[k]]
    BY <1>0, <1>5, Zenon DEF LspConnectionLost
  <2>5. ASSUME NEW k \in Callers
        PROVE  /\ caller'[k] \in CallerRows
               /\ \/ /\ caller'[k] = caller[k]
                     /\ \/ caller[k].c # c
                        \/ /\ caller[k].pc # "reply"
                           /\ ~(caller[k].pc = "initializing" /\ old.step = "initialize")
                  \/ caller[k].pc # "idle" /\ caller'[k].pc \in {"idle", "got"}
    <3>1. CASE caller[k].c # c
      BY <1>0, <2>4, <3>1
    <3>2. CASE caller[k].c = c /\ caller[k].pc = "reply"
      <4>1. caller'[k] = Returned
        BY <2>4, <3>2
      <4> QED
        BY <1>0, <3>2, <4>1 DEF Returned, CallerRows, NoClient
    <3>3. CASE caller[k].c = c /\ caller[k].pc = "initializing" /\ old.step = "initialize"
      <4>1. caller'[k] = [caller[k] EXCEPT !.pc = "got", !.c = NoClient]
        BY <2>4, <3>3
      <4> QED
        BY <1>0, <3>3, <4>1 DEF CallerRows, NoClient
    <3>4. CASE caller[k].c = c /\ caller[k].pc # "reply"
               /\ ~(caller[k].pc = "initializing" /\ old.step = "initialize")
      BY <1>0, <2>4, <3>4
    <3> QED
      BY <3>1, <3>2, <3>3, <3>4
  <2>6. caller' \in [Callers -> CallerRows]
    BY <2>4, <2>5
  <2>7. \A k \in Callers :
          caller'[k] = caller[k] /\ caller[k].c = c =>
            /\ caller[k].pc = "initializing" => row.step # "none"
            /\ caller[k].pc # "reply"
    BY <1>0, <2>2, <2>5 DEF CallSettles
  <2>8. row.step # "none" => c <= made
    BY <1>0, <2>2 DEF ClientSound
  <2>a. \A k \in Callers : \/ caller'[k] = caller[k]
                            \/ /\ caller[k].pc # "idle"
                               /\ caller'[k].pc \notin {"initializing", "reply"}
    BY <2>5
  <2>b. \A k \in Callers :
           caller'[k] = caller[k] /\ caller[k].c = c =>
             /\ caller[k].pc = "initializing" => row.step # "none"
             /\ caller[k].pc = "reply" => row.wire = "open" /\ row.step = "none"
    BY <2>7
  <2>c. client' = [client EXCEPT ![c] = row]
    BY <2>1
  <2>d. row \in ClientRows /\ row.state # "initialized" /\ row.state # "shutting_down"
    BY <2>2
  <2>e. /\ cached' \in 0 .. made /\ lspFaults' \in 0 .. MaxLspFaults
        /\ UNCHANGED <<made, opened, manager>>
    BY <1>0, <2>3
  <2> HIDE DEF row
  <2>f. /\ row.state = "initialized" => row.step = "none"
        /\ row.state = "shutting_down" => row.wire = "open" /\ manager = "closed"
    BY <2>d
  <2> QED
    <3>1. PICK r : r = row
      OBVIOUS
    <3>2. r \in ClientRows /\ client' = [client EXCEPT ![c] = r]
      BY <2>c, <2>d, <3>1
    <3>3. \A k \in Callers :
           caller'[k] = caller[k] /\ caller[k].c = c =>
             /\ caller[k].pc = "initializing" => r.step # "none"
             /\ caller[k].pc = "reply" => r.wire = "open" /\ r.step = "none"
      BY <2>b, <3>1
    <3>4. /\ r.step # "none" => c <= made
          /\ r.state = "initialized" => r.step = "none"
          /\ r.state = "shutting_down" => r.wire = "open" /\ manager = "closed"
      BY <2>8, <2>f, <3>1
    <3> QED
      BY <2>6, <2>a, <2>e, <3>2, <3>3, <3>4, ClientStep
<1>6. CASE ShutdownAnswered(c)
  <2> DEFINE row == [Disposed(c) EXCEPT !.state = "stopped"]
  <2>1. row \in ClientRows /\ row.step = old.step /\ row.state = "stopped"
    <3>1. Disposed(c) \in ClientRows /\ Disposed(c).step = old.step
      <4>2. Disposed(c) = [old EXCEPT !.wire = IF @ = "none" THEN "none" ELSE "closed"]
        BY <1>0, Zenon DEF Disposed
      <4> QED
        BY <1>0, <4>2 DEF ClientRows
    <3> QED
      BY <3>1 DEF ClientRows
  <2>2. client' = [client EXCEPT ![c] = row]
    BY <1>6, Zenon DEF ShutdownAnswered
  <2>3. old.state = "shutting_down" /\ UNCHANGED <<made, cached, opened, caller, manager, lspFaults>>
    BY <1>0, <1>6 DEF ShutdownAnswered
  <2>4. \A k \in Callers : caller[k].pc = "idle"
    BY <1>0, <2>3 DEF ClientSound, LspInv
  <2>5. row.step # "none" => c <= made
    BY <1>0, <2>1 DEF ClientSound
  <2> HIDE DEF row
  <2> QED
    BY <1>0, <2>1, <2>2, <2>3, <2>4, <2>5, ClientStep
<1> QED
  BY <1>1, <1>2, <1>3, <1>4, <1>5, <1>6

(* A call takes the client that is there or starts one that nobody has yet. *)
LEMMA ClientForKeeps ==
  ASSUME LspInv, NEW k \in Callers, ClientFor(k)
  PROVE  LspInv'
<1>0. /\ made \in Nat /\ made <= MaxClients /\ cached \in 0 .. made /\ opened \in BOOLEAN
      /\ lspFaults \in 0 .. MaxLspFaults /\ MaxClients \in Nat
      /\ caller \in [Callers -> CallerRows] /\ caller[k] \in CallerRows
      /\ client \in [Clients -> ClientRows] /\ manager \in {"up", "closed"}
      /\ caller[k].pc = "clientFor" /\ manager = "up"
      /\ UNCHANGED <<cached, opened, manager, lspFaults>>
  BY LspAssumption DEF LspInv, LspTypeOK, ClientRows, CallerRows, ClientFor
<1>1. CASE /\ cached # NoClient /\ UNCHANGED <<client, made>>
           /\ caller' = [caller EXCEPT ![k].pc = "got", ![k].c = cached]
  <2> DEFINE row == [caller[k] EXCEPT !.pc = "got", !.c = cached]
  <2>1. row \in CallerRows /\ row.pc = "got"
    BY <1>0 DEF CallerRows
  <2>2. caller' = [caller EXCEPT ![k] = row]
    BY <1>1
  <2> HIDE DEF row
  <2>3. CallSettles(row)
    BY <2>1 DEF CallSettles
  <2> QED
    BY <1>0, <1>1, <2>1, <2>2, <2>3, CallStep
<1>2. CASE /\ made < MaxClients /\ made' = made + 1
           /\ client' = [client EXCEPT ![made + 1].state = "initializing",
                                       ![made + 1].step = "spawning"]
           /\ caller' = [caller EXCEPT ![k].pc = "initializing",
                                       ![k].c = made + 1]
  <2>1. made + 1 \in Clients /\ 0 .. made \subseteq 0 .. made' /\ made' \in 0 .. MaxClients
    BY <1>0, <1>2 DEF Clients
  <2> DEFINE new == [client[made + 1] EXCEPT !.state = "initializing", !.step = "spawning"]
             row == [caller[k] EXCEPT !.pc = "initializing", !.c = made + 1]
  <2>2. new \in ClientRows /\ new.state = "initializing" /\ new.step = "spawning"
    BY <1>0, <2>1 DEF ClientRows
  <2>3. row \in CallerRows' /\ row.c = made + 1 /\ row.pc = "initializing"
    BY <1>0, <1>2 DEF CallerRows
  <2>4. \A d \in Clients : client'[d] = IF d = made + 1 THEN new ELSE client[d]
    BY <1>0, <1>2
  <2>5. \A j \in Callers : caller'[j] = IF j = k THEN row ELSE caller[j]
    BY <1>0, <1>2
  <2>6. \A j \in Callers : caller[j] \in CallerRows' /\ caller[j].c # made + 1
    BY <1>0, <2>1 DEF CallerRows
  <2> HIDE DEF new, row
  <2>7. client' \in [Clients -> ClientRows] /\ caller' \in [Callers -> CallerRows']
    <3>1. DOMAIN client' = Clients /\ DOMAIN caller' = Callers
      BY <1>0, <1>2
    <3>2. client' = [d \in Clients |-> client'[d]] /\ caller' = [j \in Callers |-> caller'[j]]
      BY <1>0, <1>2, <3>1
    <3>3. \A d \in Clients : client'[d] \in ClientRows
      BY <1>0, <2>2, <2>4
    <3>4. \A j \in Callers : caller'[j] \in CallerRows'
      BY <2>3, <2>5, <2>6
    <3> QED
      BY <3>2, <3>3, <3>4
  <2>8. cached' \in 0 .. made'
    BY <1>0, <2>1
  <2>9. LspTypeOK'
    BY <1>0, <2>1, <2>7, <2>8 DEF LspTypeOK, ClientRows, CallerRows
  <2>a. \A j \in Callers : CallSettles(caller[j])'
    <3> SUFFICES ASSUME NEW j \in Callers PROVE CallSettles(caller[j])'
      OBVIOUS
    <3>1. CASE j = k
      BY <1>0, <2>1, <2>2, <2>3, <2>4, <2>5, <3>1 DEF CallSettles, NoClient
    <3>2. CASE j # k
      <4>1. caller'[j] = caller[j] /\ caller[j].c \in 0 .. made /\ CallSettles(caller[j])
        BY <1>0, <2>5, <3>2 DEF LspInv, CallerRows
      <4>2. caller[j].c # NoClient => caller[j].c \in Clients
        BY <1>0, <4>1 DEF NoClient, Clients
      <4>3. caller[j].c # NoClient => client'[caller[j].c] = client[caller[j].c]
        BY <2>4, <2>6, <4>2
      <4> QED
        BY <4>1, <4>3 DEF CallSettles
    <3> QED
      BY <3>1, <3>2
  <2>b. \A d \in Clients : ClientSound(d)'
    <3> SUFFICES ASSUME NEW d \in Clients PROVE ClientSound(d)'
      OBVIOUS
    <3>1. d \in Nat /\ ClientSound(d)
      BY DEF LspInv, Clients
    <3> QED
      BY <1>0, <1>2, <2>2, <2>4, <3>1 DEF ClientSound
  <2> QED
    BY <1>0, <2>9, <2>a, <2>b DEF LspInv
<1> QED
  BY <1>1, <1>2 DEF ClientFor

(* Diagnostics are published: who listens reads them. *)
LEMMA PublishKeeps ==
  ASSUME LspInv, NEW c \in Clients, Publish(c)
  PROVE  LspInv'
<1>1. \A k \in Callers :
        \/ caller'[k] = caller[k]
        \/ /\ caller[k].pc = "publish"
           /\ caller'[k] = [caller[k] EXCEPT !.pc = "clientFor", !.then = "read", !.c = NoClient]
  BY DEF Publish, Goto
<1>2. /\ caller' = [k \in Callers |-> caller'[k]] /\ caller \in [Callers -> CallerRows]
      /\ UNCHANGED <<client, made, cached, opened, manager, lspFaults>> /\ 0 \in 0 .. made
  BY LspAssumption DEF Publish, LspInv, LspTypeOK, CallerRows
<1>3. \A k \in Callers : /\ caller'[k] \in CallerRows
                         /\ \/ caller'[k] = caller[k]
                            \/ caller[k].pc = "publish" /\ caller'[k].pc = "clientFor"
  <2> SUFFICES ASSUME NEW k \in Callers
               PROVE  /\ caller'[k] \in CallerRows
                      /\ \/ caller'[k] = caller[k]
                         \/ caller[k].pc = "publish" /\ caller'[k].pc = "clientFor"
    OBVIOUS
  <2>1. caller[k] \in CallerRows
    BY <1>2
  <2>2. CASE caller'[k] = caller[k]
    BY <2>1, <2>2
  <2>3. CASE /\ caller[k].pc = "publish"
             /\ caller'[k] = [caller[k] EXCEPT !.pc = "clientFor", !.then = "read", !.c = NoClient]
    BY <1>2, <2>1, <2>3 DEF CallerRows, NoClient
  <2> QED
    BY <1>1, <2>2, <2>3
<1>4. LspTypeOK'
  <2>1. caller' \in [Callers -> CallerRows]
    BY <1>2, <1>3
  <2> QED
    BY <1>2, <2>1 DEF LspInv, LspTypeOK, CallerRows
<1>5. \A k \in Callers : CallSettles(caller[k])'
  BY <1>2, <1>3 DEF LspInv, CallSettles
<1>6. \A d \in Clients : ClientSound(d)'
  BY <1>2 DEF LspInv, ClientSound
<1> QED
  BY <1>2, <1>3, <1>4, <1>5, <1>6 DEF LspInv

(* The manager closes when no call is left. *)
LEMMA ManagerCloseKeeps ==
  ASSUME LspInv, ManagerClose
  PROVE  LspInv'
<1>0. /\ client \in [Clients -> ClientRows] /\ cached \in 0 .. made /\ made \in 0 .. MaxClients
      /\ manager' = "closed" /\ cached' = 0 /\ opened' = FALSE /\ MaxClients \in Nat
      /\ UNCHANGED <<made, caller, lspFaults>> /\ \A k \in Callers : caller[k].pc = "idle"
  BY LspAssumption DEF LspInv, LspTypeOK, ClientRows, ManagerClose, NoClient
<1>1. \A d \in Clients : client'[d] = client[d]
        \/ /\ client'[d] \in ClientRows /\ client'[d].step = client[d].step
           /\ \/ client'[d].state = "stopped"
              \/ client'[d].state = "shutting_down" /\ client'[d].wire = "open"
  <2>1. CASE cached = NoClient
    BY <2>1 DEF ManagerClose
  <2>2. CASE cached # NoClient
    <3> DEFINE state == IF client[cached].wire = "open" THEN "shutting_down" ELSE "stopped"
    <3>1. cached \in Clients /\ client[cached] \in ClientRows
      BY <1>0, <2>2 DEF NoClient, Clients
    <3>2. client' = [client EXCEPT ![cached] = [client[cached] EXCEPT !.state = state]]
      BY <1>0, <2>2, <3>1 DEF ManagerClose
    <3>3. [client[cached] EXCEPT !.state = state] \in ClientRows
      BY <3>1 DEF ClientRows
    <3> QED
      BY <1>0, <3>1, <3>2, <3>3 DEF ClientRows
  <2> QED
    BY <2>1, <2>2
<1>2. client' \in [Clients -> ClientRows]
  <2>1. client' = [d \in Clients |-> client'[d]]
    BY <1>0 DEF ManagerClose
  <2> QED
    BY <1>0, <1>1, <2>1
<1>3. LspTypeOK'
  <2>1. cached' \in 0 .. made'
    BY <1>0
  <2>2. opened' \in BOOLEAN
    BY <1>0, Zenon
  <2> QED
    BY <1>0, <1>2, <2>1, <2>2 DEF LspInv, LspTypeOK, ClientRows, CallerRows
<1>4. \A k \in Callers : CallSettles(caller[k])'
  BY <1>0 DEF CallSettles
<1>5. \A d \in Clients : ClientSound(d)'
  BY <1>0, <1>1 DEF LspInv, ClientSound
<1> QED
  BY <1>0, <1>3, <1>4, <1>5 DEF LspInv

LEMMA LspStep == LspInv /\ [LspNext]_lspVars => LspInv'
<1> SUFFICES ASSUME LspInv, [LspNext]_lspVars PROVE LspInv'
  OBVIOUS
<1>1. ASSUME NEW k \in Callers,
             \/ \E tool \in {"diagnostics", "ask"} : ToolStart(k, tool)
             \/ ContextStart(k) \/ FileRead(k) \/ ClientFor(k) \/ GotClient(k) \/ DidOpen(k)
             \/ PublishTimeout(k) \/ RequestSettles(k)
      PROVE  LspInv'
  BY <1>1, CallsKeep, ClientForKeeps, GotClientKeeps
<1>2. ASSUME NEW c \in Clients,
             \/ LspSpawnOk(c) \/ InitializeResult(c) \/ LspInitializeRefused(c)
             \/ Initialized(c) \/ Publish(c) \/ LspConnectionLost(c)
             \/ ShutdownAnswered(c)
      PROVE  LspInv'
  BY <1>2, ClientsKeep, PublishKeeps
<1>3. CASE UNCHANGED lspVars
  BY <1>3 DEF lspVars, LspInv, LspTypeOK, CallSettles, ClientSound
<1> QED
  BY <1>1, <1>2, <1>3, ManagerCloseKeeps DEF LspNext

LEMMA LspInvImplies == LspInv => LspTypeOK /\ LspCallsCanReturn
  BY DEF LspInv, CallSettles, ClientSound, LspCallsCanReturn

-----------------------------------------------------------------------------
(* EventStream.  What the reader has and what is under way is, frame by     *)
(* frame, at most one keep-alive and then the events that are published and *)
(* not yet shown.                                                           *)

Pieces == [event : Nat, ends : BOOLEAN]
Underway(i) == IF i <= Len(follower.buffer) THEN follower.buffer[i]
               ELSE pipe[i - Len(follower.buffer)]
LastShown == follower.start + Len(shown)

InFlight(kept) ==
  /\ stream.at >= LastShown
  /\ Len(follower.buffer) + Len(pipe) = 2 * (kept + (stream.at - LastShown))
  /\ \A m \in 1 .. kept + (stream.at - LastShown) :
       /\ Underway(2 * m - 1) = Lines(IF m <= kept THEN 0 ELSE LastShown + (m - kept))
       /\ Underway(2 * m) = Blank

StreamRows ==
  /\ log \in 0 .. MaxEvents
  /\ stream \in [state : StreamState, at : 0 .. MaxEvents]
  /\ follower \in [pc : FollowerPhase, start : 0 .. MaxEvents, after : 0 .. MaxEvents,
                   buffer : Seq(Pieces), count : Nat]
  /\ pipe \in Seq(Pieces)
  /\ shown \in Seq(1 .. MaxEvents)

StreamInv ==
  /\ StreamRows
  /\ ShownWithoutGaps
  /\ stream.state = "open" => follower.pc = "reading"
  /\ follower.pc = "history" => /\ shown = << >> /\ follower.after = follower.start
                                /\ follower.buffer = << >>
  /\ follower.pc = "connecting" => follower.after = LastShown /\ follower.buffer = << >>
  /\ follower.pc = "reading" => \E kept \in {0, 1} : InFlight(kept)

LEMMA FramesOf ==
  ASSUME NEW from \in Nat, NEW to \in Nat, NEW n \in Nat, n = to - from + 1
  PROVE  /\ Frames(from, to) \in Seq(Pieces) /\ Len(Frames(from, to)) = 2 * n
         /\ \A m \in 1 .. n : /\ Frames(from, to)[2 * m - 1] = Lines(from + (m - 1))
                              /\ Frames(from, to)[2 * m] = Blank
<1>1. \A i \in Nat : Lines(i) \in Pieces
  BY Zenon DEF Lines, Pieces
<1>2. Blank \in Pieces
  BY DEF Blank, Pieces
<1>3. 2 * n \in Nat /\ 2 * (to - from + 1) = 2 * n
  OBVIOUS
<1>4. \A i \in 1 .. 2 * n : from + (i - 1) \div 2 \in Nat
  OBVIOUS
<1>5. Frames(from, to) = [i \in 1 .. 2 * n |->
        IF i % 2 = 1 THEN Lines(from + (i - 1) \div 2) ELSE Blank]
  BY <1>3 DEF Frames
<1>6. Frames(from, to) \in [1 .. 2 * n -> Pieces]
  BY <1>1, <1>2, <1>4, <1>5
<1>7. Frames(from, to) \in Seq(Pieces) /\ Len(Frames(from, to)) = 2 * n
  BY <1>3, <1>6
<1>8. ASSUME NEW m \in 1 .. n
      PROVE  /\ Frames(from, to)[2 * m - 1] = Lines(from + (m - 1))
             /\ Frames(from, to)[2 * m] = Blank
  <2>1. /\ 2 * m \in 1 .. 2 * n /\ 2 * m - 1 \in 1 .. 2 * n
        /\ (2 * m) % 2 = 0 /\ (2 * m - 1) % 2 = 1 /\ (2 * m - 1 - 1) \div 2 = m - 1
    OBVIOUS
  <2> QED
    BY <1>5, <2>1
<1> QED
  BY <1>7, <1>8

LEMMA StreamStarts == StreamInit => StreamInv
<1> SUFFICES ASSUME StreamInit PROVE StreamInv
  OBVIOUS
<1>1. /\ log = 0 /\ pipe = << >> /\ shown = << >> /\ 0 \in 0 .. MaxEvents
      /\ stream = [state |-> "none", at |-> 0] /\ follower = NoFollower
  BY StreamAssumption DEF StreamInit
<1>2. follower \in [pc : FollowerPhase, start : 0 .. MaxEvents, after : 0 .. MaxEvents,
                   buffer : Seq(Pieces), count : Nat]
  BY <1>1 DEF NoFollower, FollowerPhase
<1>3. StreamRows
  BY <1>1, <1>2 DEF StreamRows, StreamState
<1> QED
  BY <1>1, <1>3 DEF StreamInv, ShownWithoutGaps, NoFollower

(* Pieces are appended to the pipe: the events after the last published.   *)
LEMMA PublishKeepsStream ==
  ASSUME StreamInv, PublishEvents
  PROVE  StreamInv'
<1>0. /\ log \in Nat /\ log <= MaxEvents /\ stream.at \in Nat /\ stream.at < log
      /\ stream.state = "open" /\ follower.pc = "reading"
      /\ pipe \in Seq(Pieces) /\ follower.buffer \in Seq(Pieces) /\ shown \in Seq(1 .. MaxEvents)
      /\ follower.start \in Nat /\ MaxEvents \in Nat
  BY StreamAssumption DEF StreamInv, StreamRows, PublishEvents
<1>1. /\ pipe' = pipe \o Frames(stream.at + 1, log)
      /\ stream' = [stream EXCEPT !.at = log]
      /\ UNCHANGED <<log, follower, shown>>
  BY DEF PublishEvents
<1>2. PICK kept \in {0, 1} : InFlight(kept)
  BY <1>0 DEF StreamInv
<1>3. PICK at \in Nat, top \in Nat, last \in Nat, b \in Nat, p \in Nat :
        /\ at = stream.at /\ top = log /\ last = LastShown
        /\ b = Len(follower.buffer) /\ p = Len(pipe)
  <2>1. Len(follower.buffer) \in Nat /\ Len(pipe) \in Nat /\ Len(shown) \in Nat
    BY <1>0
  <2>2. LastShown \in Nat
    BY <1>0, <2>1 DEF LastShown
  <2> QED
    BY <1>0, <2>1, <2>2
<1>4. PICK n \in Nat, old \in Nat :
        n = top - (at + 1) + 1 /\ old = kept + (at - last) /\ b + p = 2 * old
  <2>1. at < top /\ at >= last /\ b + p = 2 * (kept + (at - last))
    BY <1>0, <1>2, <1>3 DEF InFlight
  <2>2. top - (at + 1) + 1 \in Nat /\ kept + (at - last) \in Nat
    BY <2>1
  <2> QED
    BY <2>1, <2>2
<1>5. PICK new \in Seq(Pieces) :
        /\ new = Frames(at + 1, top) /\ Len(new) = 2 * n
        /\ \A m \in 1 .. n : new[2 * m - 1] = Lines(at + 1 + (m - 1)) /\ new[2 * m] = Blank
  BY <1>4, FramesOf
<1>6. pipe' = pipe \o new /\ pipe \in Seq(Pieces) /\ p = Len(pipe)
  BY <1>0, <1>1, <1>3, <1>5
<1>7. /\ pipe' \in Seq(Pieces) /\ Len(pipe') = p + 2 * n
      /\ \A i \in 1 .. p : pipe'[i] = pipe[i]
      /\ \A i \in 1 .. 2 * n : pipe'[p + i] = new[i]
  <2>1. PICK q \in Nat : q = 2 * n /\ q = Len(new)
    BY <1>5
  <2>2. /\ pipe \o new \in Seq(Pieces) /\ Len(pipe \o new) = p + q
        /\ \A i \in 1 .. p : (pipe \o new)[i] = pipe[i]
        /\ \A i \in 1 .. q : (pipe \o new)[p + i] = new[i]
    <3>1. PICK s \in Seq(Pieces) : s = pipe
      BY <1>6
    <3>2. p = Len(s) /\ q = Len(new)
      BY <1>6, <2>1, <3>1
    <3>3. /\ s \o new \in Seq(Pieces) /\ Len(s \o new) = p + q
          /\ \A i \in 1 .. p : (s \o new)[i] = s[i]
          /\ \A i \in 1 .. q : (s \o new)[p + i] = new[i]
      BY <3>2
    <3> QED
      BY <3>1, <3>3
  <2> QED
    BY <1>6, <2>1, <2>2
<1>8. stream'.at = top /\ stream'.state = "open"
      /\ stream' \in [state : StreamState, at : 0 .. MaxEvents]
  BY <1>0, <1>1, <1>3 DEF StreamInv, StreamRows
<1>9. StreamRows'
  BY <1>1, <1>7, <1>8 DEF StreamInv, StreamRows
<1>10. \A i \in 1 .. 2 * old : Underway(i)' = Underway(i)
  <2> SUFFICES ASSUME NEW i \in 1 .. 2 * old PROVE Underway(i)' = Underway(i)
    OBVIOUS
  <2>1. i <= b \/ i - b \in 1 .. p
    BY <1>4
  <2> QED
    BY <1>1, <1>3, <1>7, <2>1 DEF Underway
<1>11. \A i \in 1 .. 2 * n : Underway(2 * old + i)' = new[i]
  <2> SUFFICES ASSUME NEW i \in 1 .. 2 * n PROVE Underway(2 * old + i)' = new[i]
    OBVIOUS
  <2>1. ~(2 * old + i <= b) /\ 2 * old + i - b = p + i
    BY <1>4
  <2>2. Underway(2 * old + i)' = pipe'[p + i]
    <3>1. follower'.buffer = follower.buffer /\ Len(follower'.buffer) = b
      BY <1>1, <1>3
    <3>2. Underway(2 * old + i)' = pipe'[2 * old + i - b]
      BY <2>1, <3>1 DEF Underway
    <3> QED
      BY <2>1, <3>2
  <2> QED
    BY <1>7, <2>2
<1>12. \A m \in 1 .. old :
         /\ Underway(2 * m - 1) = Lines(IF m <= kept THEN 0 ELSE last + (m - kept))
         /\ Underway(2 * m) = Blank
  BY <1>2, <1>3, <1>4 DEF InFlight
<1>13. ASSUME NEW m \in 1 .. old + n
       PROVE  /\ Underway(2 * m - 1)' = Lines(IF m <= kept THEN 0 ELSE last + (m - kept))
              /\ Underway(2 * m)' = Blank
  <2>1. CASE m <= old
    <3>1. 2 * m - 1 \in 1 .. 2 * old /\ 2 * m \in 1 .. 2 * old /\ m \in 1 .. old
      BY <2>1
    <3> QED
      BY <1>10, <1>12, <3>1
  <2>2. CASE m > old
    <3>1. PICK k \in 1 .. n : k = m - old
      BY <2>2
    <3>2. /\ 2 * k - 1 \in 1 .. 2 * n /\ 2 * k \in 1 .. 2 * n
          /\ 2 * old + (2 * k - 1) = 2 * m - 1 /\ 2 * old + 2 * k = 2 * m
          /\ at + 1 + (k - 1) = last + (m - kept) /\ ~(m <= kept)
      <4>1. at >= last
        BY <1>2, <1>3 DEF InFlight
      <4> QED
        BY <1>4, <2>2, <3>1, <4>1
    <3>3. new[2 * k - 1] = Lines(at + 1 + (k - 1)) /\ new[2 * k] = Blank
      BY <1>5, <3>1
    <3>4. Underway(2 * m - 1)' = new[2 * k - 1] /\ Underway(2 * m)' = new[2 * k]
      BY <1>11, <3>2
    <3>5. Lines(IF m <= kept THEN 0 ELSE last + (m - kept)) = Lines(at + 1 + (k - 1))
      BY <3>2
    <3> QED
      BY <3>3, <3>4, <3>5
  <2> QED
    BY <2>1, <2>2
<1>14. InFlight(kept)'
  <2>1. kept + (top - last) = old + n /\ top >= last
    <3>1. at < top /\ at >= last
      BY <1>0, <1>2, <1>3 DEF InFlight
    <3> QED
      BY <1>4, <3>1
  <2>2. LastShown' = last /\ stream'.at = top /\ Len(follower'.buffer) + Len(pipe') = 2 * (old + n)
    <3>1. LastShown' = last /\ Len(follower'.buffer) = b
      BY <1>1, <1>3 DEF LastShown
    <3>2. b + (p + 2 * n) = 2 * (old + n)
      BY <1>4
    <3> QED
      BY <1>7, <1>8, <3>1, <3>2
  <2> QED
    BY <1>13, <2>1, <2>2 DEF InFlight
<1> QED
  BY <1>0, <1>1, <1>8, <1>9, <1>14 DEF StreamInv, ShownWithoutGaps

(* A read moves pieces from the pipe to the buffer.                         *)
LEMMA ReadKeepsStream ==
  ASSUME StreamInv, ReadChunk
  PROVE  StreamInv'
<1>0. /\ stream.at \in Nat /\ follower.pc = "reading"
      /\ pipe \in Seq(Pieces) /\ follower.buffer \in Seq(Pieces)
      /\ follower.start \in Nat /\ Len(shown) \in Nat /\ Len(pipe) \in Nat
      /\ Len(follower.buffer) \in Nat
      /\ UNCHANGED <<log, stream, shown>>
  <2>1. follower.pc = "reading" /\ UNCHANGED <<log, stream, shown>>
    BY DEF ReadChunk
  <2>2. /\ pipe \in Seq(Pieces) /\ follower.buffer \in Seq(Pieces)
        /\ shown \in Seq(1 .. MaxEvents)
    BY DEF StreamInv, StreamRows
  <2>3. stream.at \in 0 .. MaxEvents /\ follower.start \in 0 .. MaxEvents
    BY DEF StreamInv, StreamRows
  <2>4. stream.at \in Nat /\ follower.start \in Nat
    BY <2>3, StreamAssumption
  <2>5. Len(shown) \in Nat /\ Len(pipe) \in Nat /\ Len(follower.buffer) \in Nat
    BY <2>2
  <2> QED
    BY <2>1, <2>2, <2>4, <2>5
<1>1. PICK n \in 1 .. Len(pipe) :
        /\ follower' = [follower EXCEPT !.buffer = follower.buffer \o SubSeq(pipe, 1, n)]
        /\ pipe' = SubSeq(pipe, n + 1, Len(pipe))
  BY DEF ReadChunk
<1> DEFINE buffer == follower.buffer \o SubSeq(pipe, 1, n)
<1>2. /\ SubSeq(pipe, 1, n) \in Seq(Pieces) /\ Len(SubSeq(pipe, 1, n)) = n
      /\ \A i \in 1 .. n : SubSeq(pipe, 1, n)[i] = pipe[i]
  BY <1>0
<1>3. /\ buffer \in Seq(Pieces) /\ Len(buffer) = Len(follower.buffer) + n
      /\ \A i \in 1 .. Len(follower.buffer) : buffer[i] = follower.buffer[i]
      /\ \A i \in 1 .. n : buffer[Len(follower.buffer) + i] = pipe[i]
  BY <1>0, <1>2
<1>4. /\ pipe' \in Seq(Pieces) /\ Len(pipe') = Len(pipe) - n
      /\ \A i \in 1 .. Len(pipe) - n : pipe'[i] = pipe[n + i]
  BY <1>0, <1>1
<1> HIDE DEF buffer
<1>5. /\ follower'.buffer = buffer /\ follower'.pc = "reading" /\ follower'.start = follower.start
      /\ follower' \in [pc : FollowerPhase, start : 0 .. MaxEvents, after : 0 .. MaxEvents,
                   buffer : Seq(Pieces), count : Nat]
  BY <1>1, <1>3 DEF buffer, StreamInv, StreamRows, ReadChunk
<1>6. StreamRows'
  BY <1>0, <1>4, <1>5 DEF StreamInv, StreamRows
<1>7. PICK kept \in {0, 1} : InFlight(kept)
  BY <1>0 DEF StreamInv
<1>8. LastShown' = LastShown /\ LastShown \in Nat
  BY <1>0, <1>5 DEF LastShown
<1>9. \A i \in 1 .. Len(follower.buffer) + Len(pipe) : Underway(i)' = Underway(i)
  <2> SUFFICES ASSUME NEW i \in 1 .. Len(follower.buffer) + Len(pipe)
               PROVE  Underway(i)' = Underway(i)
    OBVIOUS
  <2>1. CASE i <= Len(follower.buffer)
    BY <1>0, <1>3, <1>5, <2>1 DEF Underway
  <2>2. CASE i > Len(follower.buffer) /\ i <= Len(follower.buffer) + n
    <3>1. i - Len(follower.buffer) \in 1 .. n /\ i <= Len(buffer)
          /\ Len(follower.buffer) + (i - Len(follower.buffer)) = i
      BY <1>0, <1>3, <2>2
    <3>2. buffer[i] = pipe[i - Len(follower.buffer)]
      BY <1>3, <3>1
    <3> QED
      BY <1>0, <1>5, <2>2, <3>1, <3>2 DEF Underway
  <2>3. CASE i > Len(follower.buffer) + n
    <3>1. /\ i - Len(buffer) \in 1 .. Len(pipe) - n /\ ~(i <= Len(buffer))
          /\ n + (i - Len(buffer)) = i - Len(follower.buffer) /\ ~(i <= Len(follower.buffer))
      BY <1>0, <1>3, <2>3
    <3>2. pipe'[i - Len(buffer)] = pipe[i - Len(follower.buffer)]
      BY <1>4, <3>1
    <3> QED
      BY <1>5, <3>1, <3>2 DEF Underway
  <2> QED
    BY <1>0, <2>1, <2>2, <2>3
<1>10. InFlight(kept)'
  <2> DEFINE all == kept + (stream.at - LastShown)
  <2>1. /\ stream.at >= LastShown /\ all \in Nat /\ Len(follower.buffer) + Len(pipe) = 2 * all
        /\ \A m \in 1 .. all :
             /\ Underway(2 * m - 1) = Lines(IF m <= kept THEN 0 ELSE LastShown + (m - kept))
             /\ Underway(2 * m) = Blank
    <3>1. /\ stream.at >= LastShown /\ Len(follower.buffer) + Len(pipe) = 2 * all
          /\ \A m \in 1 .. all :
               /\ Underway(2 * m - 1) = Lines(IF m <= kept THEN 0 ELSE LastShown + (m - kept))
               /\ Underway(2 * m) = Blank
      BY <1>7, Zenon DEF InFlight
    <3>2. PICK at \in Nat, last \in Nat : at = stream.at /\ last = LastShown
      BY <1>0, <1>8
    <3>3. at >= last
      BY <3>1, <3>2
    <3>4. kept + (at - last) \in Nat
      BY <3>3
    <3>5. all \in Nat
      BY <3>2, <3>4
    <3> QED
      BY <3>1, <3>5, Zenon
  <2>2. \A m \in 1 .. all : 2 * m - 1 \in 1 .. 2 * all /\ 2 * m \in 1 .. 2 * all
    BY <2>1
  <2>3. \A m \in 1 .. all :
             /\ Underway(2 * m - 1)' = Lines(IF m <= kept THEN 0 ELSE LastShown + (m - kept))
             /\ Underway(2 * m)' = Blank
    BY <1>9, <2>1, <2>2
  <2>4. Len(follower'.buffer) + Len(pipe') = 2 * all
    <3>1. Len(buffer) + Len(pipe') = Len(follower.buffer) + Len(pipe)
      BY <1>0, <1>3, <1>4
    <3> QED
      BY <1>5, <2>1, <3>1
  <2> QED
    BY <1>0, <1>8, <2>1, <2>3, <2>4 DEF InFlight
<1> QED
  BY <1>0, <1>5, <1>6, <1>10 DEF StreamInv, ShownWithoutGaps

(* A sequence with one more element.                                        *)
LEMMA OneMore ==
  ASSUME NEW S, NEW s \in Seq(S), NEW e \in S
  PROVE  /\ s \o << e >> \in Seq(S) /\ Len(s \o << e >>) = Len(s) + 1
         /\ \A i \in 1 .. Len(s) : (s \o << e >>)[i] = s[i]
         /\ (s \o << e >>)[Len(s) + 1] = e
<1>1. s \o << e >> = Append(s, e)
  OBVIOUS
<1>2. Append(s, e) \in Seq(S) /\ Len(Append(s, e)) = Len(s) + 1
  OBVIOUS
<1>3. \A i \in 1 .. Len(s) : Append(s, e)[i] = s[i]
  OBVIOUS
<1>4. Append(s, e)[Len(s) + 1] = e
  OBVIOUS
<1> QED
  BY <1>1, <1>2, <1>3, <1>4, Zenon

(* The generator takes the first frame off the buffer.                      *)
LEMMA YieldKeepsStream ==
  ASSUME StreamInv, YieldFrame
  PROVE  StreamInv'
<1>0. /\ stream.at \in Nat /\ stream.at <= MaxEvents /\ follower.pc = "reading"
      /\ pipe \in Seq(Pieces) /\ follower.buffer \in Seq(Pieces) /\ shown \in Seq(1 .. MaxEvents)
      /\ follower.start \in Nat /\ MaxEvents \in Nat /\ Complete(follower.buffer)
      /\ UNCHANGED <<log, stream, pipe>>
  BY StreamAssumption DEF StreamInv, StreamRows, YieldFrame
<1>1. PICK kept \in {0, 1} : InFlight(kept)
  BY <1>0 DEF StreamInv
<1>2. PICK at \in Nat, last \in Nat, p \in Nat, b \in Nat, start \in Nat, seen \in Nat :
        /\ at = stream.at /\ last = start + seen /\ last = LastShown /\ b = Len(follower.buffer)
        /\ p = Len(pipe) /\ start = follower.start /\ seen = Len(shown)
  <2>1. Len(follower.buffer) \in Nat /\ Len(pipe) \in Nat /\ Len(shown) \in Nat
    BY <1>0
  <2>2. LastShown \in Nat
    BY <1>0, <2>1 DEF LastShown
  <2> QED
    BY <1>0, <2>1, <2>2 DEF LastShown
<1>3. PICK all \in Nat : all = kept + (at - last) /\ b + p = 2 * all /\ at >= last
  <2>1. at >= last /\ b + p = 2 * (kept + (at - last))
    BY <1>1, <1>2 DEF InFlight
  <2>2. kept + (at - last) \in Nat
    BY <2>1
  <2> QED
    BY <2>1, <2>2
<1>4. \A m \in 1 .. all :
        /\ Underway(2 * m - 1) = Lines(IF m <= kept THEN 0 ELSE last + (m - kept))
        /\ Underway(2 * m) = Blank
  BY <1>1, <1>2, <1>3 DEF InFlight
<1>5. PICK buffer \in Seq(Pieces) : buffer = follower.buffer /\ b = Len(buffer)
  BY <1>0, <1>2
<1>6. all >= 1 /\ b >= 2 /\ FrameEnd(buffer) = 2
      /\ buffer[1] = Lines(IF 1 <= kept THEN 0 ELSE last + (1 - kept))
  <2>1. PICK i \in 1 .. b : buffer[i].ends
    BY <1>0, <1>5 DEF Complete
  <2>2. all >= 1 /\ 1 \in 1 .. all /\ 1 <= b /\ 2 * 1 - 1 = 1 /\ 2 * 1 = 2
    BY <1>3, <2>1
  <2>3. buffer[1] = Lines(IF 1 <= kept THEN 0 ELSE last + (1 - kept))
    BY <1>2, <1>4, <1>5, <2>2 DEF Underway
  <2>4. ~buffer[1].ends
    BY <2>3 DEF Lines
  <2>5. b >= 2
    BY <2>1, <2>4
  <2>6. buffer[2] = Blank
    BY <1>2, <1>4, <1>5, <2>2, <2>5 DEF Underway
  <2>7. FrameEnd(buffer) = 2
    <3>1. 2 \in 1 .. Len(buffer) /\ buffer[2].ends /\ \A j \in 1 .. 2 - 1 : ~buffer[j].ends
      BY <1>5, <2>4, <2>5, <2>6 DEF Blank
    <3>2. \A i2 \in 1 .. Len(buffer) :
            buffer[i2].ends /\ (\A j \in 1 .. i2 - 1 : ~buffer[j].ends) => i2 = 2
      BY <1>5, <2>4, <2>5, <3>1
    <3> QED
      BY <3>1, <3>2 DEF FrameEnd
  <2> QED
    BY <2>2, <2>3, <2>5, <2>7
<1>7. /\ shown' = shown \o EventOf(SubSeq(buffer, 1, 2))
      /\ follower' = [follower EXCEPT !.buffer = SubSeq(buffer, 3, b)]
  <2>1. /\ shown' = shown \o EventOf(SubSeq(buffer, 1, FrameEnd(buffer)))
        /\ follower' = [follower EXCEPT !.buffer = SubSeq(buffer, FrameEnd(buffer) + 1, b)]
    BY <1>2, <1>5 DEF YieldFrame
  <2>2. FrameEnd(buffer) + 1 = 3
    BY <1>6
  <2> QED
    BY <1>6, <2>1, <2>2
<1>8. EventOf(SubSeq(buffer, 1, 2)) = IF kept = 1 THEN << >> ELSE << last + 1 >>
  <2>1. SubSeq(buffer, 1, 2) # << >> /\ SubSeq(buffer, 1, 2)[1] = buffer[1]
    BY <1>5, <1>6
  <2>2. buffer[1].event = IF kept = 1 THEN 0 ELSE last + 1
    BY <1>6 DEF Lines
  <2> QED
    BY <2>1, <2>2 DEF EventOf
<1>9. PICK rest \in Seq(Pieces), r \in Nat :
        /\ rest = SubSeq(buffer, 3, b) /\ r = b - 2 /\ Len(rest) = r
        /\ \A i \in 1 .. r : rest[i] = buffer[i + 2]
  <2>1. b - 2 \in Nat
    BY <1>6
  <2>2. SubSeq(buffer, 3, b) \in Seq(Pieces) /\ Len(SubSeq(buffer, 3, b)) = b - 2
    BY <1>5, <1>6
  <2>3. \A i \in 1 .. b - 2 : SubSeq(buffer, 3, b)[i] = buffer[i + 2]
    BY <1>5, <1>6
  <2> QED
    BY <2>1, <2>2, <2>3
<1>10. /\ follower'.buffer = rest /\ follower'.pc = "reading" /\ follower'.start = start
       /\ follower' \in [pc : FollowerPhase, start : 0 .. MaxEvents, after : 0 .. MaxEvents,
                   buffer : Seq(Pieces), count : Nat]
  BY <1>0, <1>2, <1>7, <1>9 DEF StreamInv, StreamRows
<1>11. PICK left \in {0, 1}, more \in {0, 1} :
         /\ kept = 1 => left = 0 /\ more = 0
         /\ kept = 0 => left = 0 /\ more = 1
  OBVIOUS
<1>12. /\ shown' \in Seq(1 .. MaxEvents) /\ Len(shown') = seen + more
       /\ \A i \in 1 .. seen : shown'[i] = shown[i]
       /\ more = 1 => shown'[seen + 1] = last + 1
  <2>1. CASE kept = 1
    <3>1. shown' = shown
      <4>1. EventOf(SubSeq(buffer, 1, 2)) = << >>
        BY <1>8, <2>1
      <4>2. shown' = shown \o << >>
        BY <1>7, <4>1, Zenon
      <4>3. \A s \in Seq(1 .. MaxEvents) : s \o << >> = s
        OBVIOUS
      <4> QED
        BY <1>0, <4>2, <4>3, Zenon
    <3>2. more = 0
      BY <1>11, <2>1
    <3>3. Len(shown') = seen + more
      BY <1>2, <3>1, <3>2
    <3>4. shown' \in Seq(1 .. MaxEvents)
      BY <1>0, <3>1, Zenon
    <3> QED
      BY <3>1, <3>2, <3>3, <3>4
  <2>2. CASE kept = 0
    <3>0. at <= MaxEvents /\ MaxEvents \in Nat /\ all >= 1
      BY <1>0, <1>2, <1>6
    <3>1. last + 1 \in 1 .. MaxEvents
      BY <1>3, <2>2, <3>0
    <3>5. EventOf(SubSeq(buffer, 1, 2)) = << last + 1 >>
      BY <1>8, <2>2
    <3>2. shown' = shown \o << last + 1 >>
      BY <1>7, <3>5, Zenon
    <3>3. PICK E : E = 1 .. MaxEvents
      OBVIOUS
    <3>4. PICK s \in Seq(E), e \in E : s = shown /\ e = last + 1 /\ Len(s) = seen
      BY <1>0, <1>2, <3>1, <3>3
    <3>6. /\ s \o << e >> \in Seq(E) /\ Len(s \o << e >>) = Len(s) + 1
          /\ \A i \in 1 .. Len(s) : (s \o << e >>)[i] = s[i]
          /\ (s \o << e >>)[Len(s) + 1] = e
      BY OneMore
    <3>7. /\ Len(s \o << e >>) = seen + 1
          /\ \A i \in 1 .. seen : (s \o << e >>)[i] = s[i]
          /\ (s \o << e >>)[seen + 1] = e
      BY <3>4, <3>6, Zenon
    <3>8. shown' = s \o << e >>
      BY <3>2, <3>4
    <3>9. more = 1
      BY <1>11, <2>2
    <3>12. Len(shown') = seen + more
      BY <3>7, <3>8, <3>9
    <3>10. (\A i \in 1 .. seen : shown'[i] = shown[i]) /\ shown'[seen + 1] = last + 1
      BY <3>4, <3>7, <3>8, Zenon
    <3>11. shown' \in Seq(1 .. MaxEvents)
      BY <3>3, <3>6, <3>8, Zenon
    <3> QED
      BY <3>12, <3>10, <3>11, Zenon
  <2> QED
    BY <2>1, <2>2
<1>13. ShownWithoutGaps'
  <2> SUFFICES ASSUME NEW i \in 1 .. Len(shown') PROVE shown'[i] = follower'.start + i
    BY DEF ShownWithoutGaps
  <2>1. CASE i \in 1 .. seen
    BY <1>2, <1>10, <1>12, <2>1 DEF StreamInv, ShownWithoutGaps
  <2>2. CASE i \notin 1 .. seen
    <3>1. more = 1 /\ i = seen + 1
      BY <1>12, <2>2
    <3>3. last = start + seen
      BY <1>2
    <3>2. last + 1 = start + i
      BY <3>1, <3>3
    <3> QED
      BY <1>10, <1>12, <3>1, <3>2
  <2> QED
    BY <2>1, <2>2
<1>14. LastShown' = last + more
  <2>2. last = start + seen /\ more \in Nat
    BY <1>2
  <2>1. start + (seen + more) = last + more
    BY <2>2
  <2> QED
    BY <1>10, <1>12, <2>1 DEF LastShown
<1>15. StreamRows'
  BY <1>0, <1>10, <1>12 DEF StreamInv, StreamRows
<1>16. PICK now \in Nat : now = all - 1 /\ now = left + (at - (last + more)) /\ at >= last + more
  BY <1>3, <1>6, <1>11
<1>17. \A i \in 1 .. 2 * now : Underway(i)' = Underway(i + 2)
  <2> SUFFICES ASSUME NEW i \in 1 .. 2 * now PROVE Underway(i)' = Underway(i + 2)
    OBVIOUS
  <2>1. CASE i <= r
    <3>1. i \in 1 .. r /\ i + 2 <= b
      BY <1>9, <2>1
    <3>2. Underway(i)' = rest[i]
      <4>1. follower'.buffer = rest /\ Len(follower'.buffer) = r
        BY <1>9, <1>10
      <4> QED
        BY <2>1, <4>1 DEF Underway
    <3>3. Underway(i + 2) = buffer[i + 2]
      <4>1. follower.buffer = buffer /\ Len(follower.buffer) = b
        BY <1>2, <1>5
      <4> QED
        BY <3>1, <4>1 DEF Underway
    <3>4. rest[i] = buffer[i + 2]
      BY <1>9, <3>1
    <3> QED
      BY <3>2, <3>3, <3>4
  <2>2. CASE i > r
    <3>1. ~(i <= r) /\ ~(i + 2 <= b) /\ i - r = i + 2 - b
      BY <1>9, <2>2
    <3>2. Underway(i)' = pipe[i - r]
      <4>1. Len(follower'.buffer) = r /\ pipe' = pipe
        BY <1>0, <1>9, <1>10
      <4> QED
        BY <3>1, <4>1 DEF Underway
    <3>4. Len(follower.buffer) = b
      BY <1>2
    <3>3. Underway(i + 2) = pipe[i + 2 - b]
      BY <3>1, <3>4 DEF Underway
    <3> QED
      BY <3>1, <3>2, <3>3
  <2> QED
    BY <2>1, <2>2
<1>18. ASSUME NEW m \in 1 .. now
       PROVE  /\ Underway(2 * m - 1)' = Lines(IF m <= left THEN 0 ELSE last + more + (m - left))
              /\ Underway(2 * m)' = Blank
  <2>1. PICK k \in 1 .. all : k = m + 1
    BY <1>16
  <2>2. /\ 2 * m - 1 \in 1 .. 2 * now /\ 2 * m \in 1 .. 2 * now
        /\ 2 * m - 1 + 2 = 2 * k - 1 /\ 2 * m + 2 = 2 * k
        /\ ~(m <= left) /\ ~(k <= kept) /\ last + more + (m - left) = last + (k - kept)
    BY <1>11, <2>1
  <2>3. Underway(2 * m - 1)' = Underway(2 * k - 1) /\ Underway(2 * m)' = Underway(2 * k)
    BY <1>17, <2>2
  <2>4. Underway(2 * k - 1) = Lines(last + (k - kept)) /\ Underway(2 * k) = Blank
    BY <1>4, <2>1, <2>2
  <2> QED
    BY <2>2, <2>3, <2>4
<1>19. InFlight(left)'
  <2>1. r + p = 2 * now
    <3>1. b + p = 2 * all /\ now = all - 1
      BY <1>3, <1>16
    <3>2. r = b - 2
      BY <1>9
    <3> QED
      BY <3>1, <3>2
  <2>2. stream'.at = at /\ Len(follower'.buffer) = r /\ Len(pipe') = p
    BY <1>0, <1>2, <1>9, <1>10
  <2> QED
    BY <1>14, <1>16, <1>18, <2>1, <2>2 DEF InFlight
<1> QED
  BY <1>0, <1>10, <1>13, <1>15, <1>19 DEF StreamInv

(* Nothing is left when a stream that has finished is read to its end.      *)
LEMMA NothingPends ==
  ASSUME StreamInv, follower.pc = "reading", ~Complete(follower.buffer), pipe = << >>
  PROVE  follower.buffer = << >> /\ stream.at = LastShown
<1>0. /\ stream.at \in Nat /\ pipe \in Seq(Pieces) /\ follower.buffer \in Seq(Pieces)
      /\ follower.start \in Nat /\ shown \in Seq(1 .. MaxEvents)
  BY StreamAssumption DEF StreamInv, StreamRows
<1>1. PICK kept \in {0, 1} : InFlight(kept)
  BY DEF StreamInv
<1>2. PICK at \in Nat, last \in Nat, b \in Nat :
        /\ at = stream.at /\ last = LastShown /\ b = Len(follower.buffer)
  <2>1. Len(follower.buffer) \in Nat /\ Len(shown) \in Nat
    BY <1>0
  <2>2. LastShown \in Nat
    BY <1>0, <2>1 DEF LastShown
  <2> QED
    BY <1>0, <2>1, <2>2
<1>3. b = 2 * (kept + (at - last)) /\ at >= last
  <2>1. Len(pipe) = 0
    OBVIOUS
  <2>2. b + 0 = 2 * (kept + (at - last)) /\ at >= last
    BY <1>1, <1>2, <2>1 DEF InFlight
  <2> QED
    BY <2>2
<1>4. b = 0
  <2> SUFFICES ASSUME b # 0 PROVE FALSE
    OBVIOUS
  <2>1. 1 \in 1 .. kept + (at - last) /\ 2 <= b /\ 2 * 1 = 2
    BY <1>3
  <2>2. Underway(2) = Blank
    BY <1>1, <1>2, <2>1 DEF InFlight
  <2>3. follower.buffer[2] = Blank /\ 2 \in 1 .. Len(follower.buffer)
    BY <1>2, <2>1, <2>2 DEF Underway
  <2> QED
    BY <2>3 DEF Complete, Blank
<1>5. follower.buffer = << >>
  <2>1. PICK s \in Seq(Pieces) : s = follower.buffer /\ Len(s) = 0
    BY <1>0, <1>2, <1>4
  <2>2. s = << >>
    BY <2>1
  <2> QED
    BY <2>1, <2>2
<1>6. at = last
  BY <1>3, <1>4
<1> QED
  BY <1>2, <1>5, <1>6

LEMMA HistoryKeepsStream ==
  ASSUME StreamInv, History
  PROVE  StreamInv'
<1>0. /\ log \in Nat /\ log <= MaxEvents /\ follower.after \in Nat /\ follower.after <= MaxEvents
      /\ follower.start = follower.after /\ stream.state # "open" /\ MaxEvents \in Nat
      /\ shown' = [i \in 1 .. log - follower.after |-> follower.after + i]
      /\ UNCHANGED <<log, stream, pipe>>
  BY StreamAssumption DEF StreamInv, StreamRows, History
<1>1. PICK pc \in {"connecting", "ended"} :
        follower' = [follower EXCEPT !.pc = pc, !.after = IF log > @ THEN log ELSE @]
  BY DEF History
<1>2. /\ follower'.pc = pc /\ follower'.start = follower.after
      /\ follower'.buffer = follower.buffer
      /\ follower'.after = (IF log > follower.after THEN log ELSE follower.after)
      /\ follower' \in [pc : FollowerPhase, start : 0 .. MaxEvents, after : 0 .. MaxEvents,
                   buffer : Seq(Pieces), count : Nat]
  BY <1>0, <1>1 DEF StreamInv, StreamRows, FollowerPhase
<1>3. PICK n \in Nat : /\ 1 .. log - follower.after = 1 .. n
                       /\ follower'.after = follower.after + n
                       /\ n = 0 \/ n = log - follower.after
  <2>1. CASE log > follower.after
    <3>1. log - follower.after \in Nat /\ follower'.after = follower.after + (log - follower.after)
      BY <1>0, <1>2, <2>1
    <3> QED
      BY <3>1
  <2>2. CASE ~(log > follower.after)
    <3>1. 1 .. log - follower.after = 1 .. 0 /\ follower'.after = follower.after + 0
      BY <1>0, <1>2, <2>2
    <3> QED
      BY <3>1
  <2> QED
    BY <2>1, <2>2
<1>4. shown' = [i \in 1 .. n |-> follower.after + i]
  BY <1>0, <1>3
<1>5. \A i \in 1 .. n : follower.after + i \in 1 .. MaxEvents
  BY <1>0, <1>3
<1>6. shown' \in Seq(1 .. MaxEvents) /\ Len(shown') = n
      /\ \A i \in 1 .. n : shown'[i] = follower.after + i
  BY <1>4, <1>5
<1>7. ShownWithoutGaps'
  BY <1>2, <1>6 DEF ShownWithoutGaps
<1>8. follower'.after = LastShown'
  BY <1>2, <1>3, <1>6 DEF LastShown
<1>9. StreamRows'
  BY <1>0, <1>2, <1>6 DEF StreamInv, StreamRows
<1>10. follower.buffer = << >>
  BY DEF StreamInv, History
<1> QED
  BY <1>0, <1>2, <1>7, <1>8, <1>9, <1>10 DEF StreamInv

LEMMA OpenKeepsStream ==
  ASSUME StreamInv, OpenStream
  PROVE  StreamInv'
<1>0. /\ log \in Nat /\ log <= MaxEvents /\ follower.after \in Nat /\ follower.after <= MaxEvents
      /\ follower.after = LastShown /\ follower.buffer = << >> /\ MaxEvents \in Nat
      /\ follower' = [follower EXCEPT !.pc = "reading"]
      /\ pipe' = Frames(follower.after + 1, log)
      /\ stream' = [state |-> "open", at |-> IF log > follower.after THEN log ELSE follower.after]
      /\ UNCHANGED <<log, shown>>
  BY StreamAssumption DEF StreamInv, StreamRows, OpenStream
<1>1. /\ follower'.pc = "reading" /\ follower'.start = follower.start
      /\ follower'.buffer = << >> /\ LastShown' = follower.after
      /\ follower' \in [pc : FollowerPhase, start : 0 .. MaxEvents, after : 0 .. MaxEvents,
                   buffer : Seq(Pieces), count : Nat]
  BY <1>0 DEF StreamInv, StreamRows, FollowerPhase, LastShown
<1>2. PICK n \in Nat, last \in Nat :
        /\ last = follower.after /\ stream'.at = last + n
        /\ pipe' \in Seq(Pieces) /\ Len(pipe') = 2 * n
        /\ \A m \in 1 .. n : pipe'[2 * m - 1] = Lines(last + m) /\ pipe'[2 * m] = Blank
  <2>1. CASE log > follower.after
    <3>1. PICK n \in Nat, from \in Nat, to \in Nat :
            from = follower.after + 1 /\ to = log /\ n = to - from + 1
      <4>1. follower.after + 1 \in Nat /\ log - (follower.after + 1) + 1 \in Nat
        BY <1>0, <2>1
      <4> QED
        BY <1>0, <4>1
    <3>2. /\ pipe' \in Seq(Pieces) /\ Len(pipe') = 2 * n
          /\ \A m \in 1 .. n : pipe'[2 * m - 1] = Lines(from + (m - 1)) /\ pipe'[2 * m] = Blank
      <4>1. pipe' = Frames(from, to)
        BY <1>0, <3>1, Zenon
      <4>2. /\ Frames(from, to) \in Seq(Pieces) /\ Len(Frames(from, to)) = 2 * n
            /\ \A m \in 1 .. n : /\ Frames(from, to)[2 * m - 1] = Lines(from + (m - 1))
                                 /\ Frames(from, to)[2 * m] = Blank
        <5>1. n = to - from + 1
          BY <3>1
        <5> QED
          BY <5>1, FramesOf
      <4> QED
        BY <4>1, <4>2
    <3>3. \A m \in 1 .. n : from + (m - 1) = follower.after + m
      BY <1>0, <3>1
    <3>4. stream'.at = follower.after + n
      <4>1. log = follower.after + n
        BY <1>0, <3>1
      <4> QED
        BY <1>0, <2>1, <4>1
    <3>5. \A m \in 1 .. n : /\ pipe'[2 * m - 1] = Lines(follower.after + m)
                            /\ pipe'[2 * m] = Blank
      BY <3>2, <3>3, Zenon
    <3>6. follower.after \in Nat /\ pipe' \in Seq(Pieces) /\ Len(pipe') = 2 * n
      BY <1>0, <3>2
    <3> QED
      BY <3>4, <3>5, <3>6, Zenon
  <2>2. CASE ~(log > follower.after)
    <3>1. 1 .. 2 * (log - (follower.after + 1) + 1) = {}
      BY <1>0, <2>2
    <3>2. pipe' = << >>
      BY <1>0, <3>1 DEF Frames
    <3>3. stream'.at = follower.after + 0
      BY <1>0, <2>2
    <3>4. pipe' \in Seq(Pieces) /\ Len(pipe') = 2 * 0 /\ 1 .. 0 = {}
      BY <3>2
    <3> QED
      BY <1>0, <3>3, <3>4
  <2> QED
    BY <2>1, <2>2
<1>3. stream' \in [state : StreamState, at : 0 .. MaxEvents] /\ stream'.state = "open"
  BY <1>0 DEF StreamState
<1>4. StreamRows'
  BY <1>0, <1>1, <1>2, <1>3 DEF StreamInv, StreamRows
<1>5. \A i \in Nat : i >= 1 => Underway(i)' = pipe'[i]
  <2>1. Len(follower'.buffer) = 0
    BY <1>1
  <2>2. \A i \in Nat : i >= 1 => ~(i <= 0) /\ i - 0 = i
    OBVIOUS
  <2> QED
    BY <2>1, <2>2 DEF Underway
<1>6. InFlight(0)'
  <2>1. LastShown' = last /\ stream'.at = last + n /\ Len(follower'.buffer) = 0
    BY <1>1, <1>2
  <2>2. 0 + (last + n - last) = n /\ last + n >= last
    OBVIOUS
  <2>3. Len(follower'.buffer) + Len(pipe') = 2 * n
    BY <1>2, <2>1
  <2>4. ASSUME NEW m \in 1 .. n
        PROVE  /\ Underway(2 * m - 1)' = Lines(IF m <= 0 THEN 0 ELSE last + (m - 0))
               /\ Underway(2 * m)' = Blank
    <3>1. 2 * m - 1 \in Nat /\ 2 * m - 1 >= 1 /\ 2 * m \in Nat /\ 2 * m >= 1 /\ ~(m <= 0) /\ m - 0 = m
      OBVIOUS
    <3> QED
      BY <1>2, <1>5, <3>1
  <2> QED
    BY <2>1, <2>2, <2>3, <2>4 DEF InFlight
<1> QED
  BY <1>0, <1>1, <1>4, <1>6 DEF StreamInv, ShownWithoutGaps

LEMMA KeepAliveKeepsStream ==
  ASSUME StreamInv, KeepAlive
  PROVE  StreamInv'
<1>0. /\ follower.pc = "reading" /\ follower.buffer = << >> /\ pipe = << >>
      /\ pipe' = Frames(0, 0) /\ UNCHANGED <<log, stream, follower, shown>>
      /\ stream.at \in Nat
  BY StreamAssumption DEF StreamInv, StreamRows, KeepAlive
<1>1. ~Complete(follower.buffer)
  BY <1>0 DEF Complete
<1>2. stream.at = LastShown
  BY <1>0, <1>1, NothingPends
<1>3. PICK last \in Nat : last = LastShown /\ last = stream.at
  BY <1>0, <1>2
<1>4. /\ pipe' \in Seq(Pieces) /\ Len(pipe') = 2 * 1
      /\ \A m \in 1 .. 1 : pipe'[2 * m - 1] = Lines(0 + (m - 1)) /\ pipe'[2 * m] = Blank
  <2>1. PICK from \in Nat, n \in Nat : from = 0 /\ n = 1 /\ n = from - from + 1
    OBVIOUS
  <2>2. /\ Frames(from, from) \in Seq(Pieces) /\ Len(Frames(from, from)) = 2 * n
        /\ \A m \in 1 .. n : /\ Frames(from, from)[2 * m - 1] = Lines(from + (m - 1))
                             /\ Frames(from, from)[2 * m] = Blank
    BY <2>1, FramesOf
  <2>3. pipe' = Frames(from, from)
    BY <1>0, <2>1, Zenon
  <2> QED
    BY <2>1, <2>2, <2>3
<1>5. pipe'[1] = Lines(0) /\ pipe'[2] = Blank /\ Len(pipe') = 2
  <2>1. 1 \in 1 .. 1 /\ 2 * 1 - 1 = 1 /\ 2 * 1 = 2 /\ 0 + (1 - 1) = 0
    OBVIOUS
  <2> QED
    BY <1>4, <2>1
<1>6. Underway(1)' = Lines(0) /\ Underway(2)' = Blank
  <2>1. Len(follower'.buffer) = 0
    BY <1>0
  <2> QED
    BY <1>5, <2>1 DEF Underway
<1>7. InFlight(1)'
  <2>1. LastShown' = last /\ stream'.at = last /\ Len(follower'.buffer) = 0
    BY <1>0, <1>3 DEF LastShown
  <2>2. 1 + (last - last) = 1 /\ last >= last /\ 0 + 2 = 2 * 1
    OBVIOUS
  <2>3. \A m \in 1 .. 1 : m = 1 /\ 2 * m - 1 = 1 /\ 2 * m = 2 /\ m <= 1
    OBVIOUS
  <2> QED
    BY <1>5, <1>6, <2>1, <2>2, <2>3 DEF InFlight
<1>8. StreamRows'
  BY <1>0, <1>4 DEF StreamInv, StreamRows
<1> QED
  BY <1>0, <1>7, <1>8 DEF StreamInv, ShownWithoutGaps

(* A step that shows nothing, and leaves the phases in which the pipe and  *)
(* the buffer matter or was not in one of them.                             *)
LEMMA EndKeepsStream ==
  ASSUME StreamInv, UNCHANGED log, shown' = shown,
         ReadDone \/ ReadFails \/ RequestFails \/ Interrupt
  PROVE  StreamInv'
<1>1. /\ follower'.pc \in {"ended", "failed"} /\ follower'.start = follower.start
      /\ follower' \in [pc : FollowerPhase, start : 0 .. MaxEvents, after : 0 .. MaxEvents,
                   buffer : Seq(Pieces), count : Nat]
  BY DEF StreamInv, StreamRows, FollowerPhase, ReadDone, ReadFails, RequestFails, Interrupt
<1>2. /\ pipe' \in Seq(Pieces) /\ stream' \in [state : StreamState, at : 0 .. MaxEvents]
      /\ stream'.state # "open"
  <2>1. CASE ReadDone \/ ReadFails \/ RequestFails
    <3>1. stream' = stream /\ (pipe' = pipe \/ pipe' = << >>)
      BY <2>1 DEF ReadDone, ReadFails, RequestFails
    <3>2. \/ stream.state \in {"finished", "reset"}
          \/ follower.pc \in {"history", "connecting"}
      BY <2>1 DEF ReadDone, ReadFails, RequestFails
    <3>3. stream.state # "open"
      BY <3>2 DEF StreamInv
    <3>4. pipe \in Seq(Pieces) /\ << >> \in Seq(Pieces)
          /\ stream \in [state : StreamState, at : 0 .. MaxEvents]
      BY DEF StreamInv, StreamRows
    <3> QED
      BY <3>1, <3>3, <3>4, Zenon
  <2>2. CASE Interrupt
    BY <2>2 DEF StreamInv, StreamRows, StreamState, Interrupt
  <2> QED
    BY <2>1, <2>2
<1> QED
  BY <1>1, <1>2 DEF StreamInv, StreamRows, ShownWithoutGaps

LEMMA StreamStep == StreamInv /\ [StreamNext]_streamVars => StreamInv'
<1> SUFFICES ASSUME StreamInv, [StreamNext]_streamVars PROVE StreamInv'
  OBVIOUS
<1>1. CASE AppendEvent
  <2>1. log' \in 0 .. MaxEvents /\ UNCHANGED <<stream, pipe, follower, shown>>
    BY <1>1, StreamAssumption DEF AppendEvent, StreamInv, StreamRows
  <2>2. StreamRows' /\ ShownWithoutGaps' /\ LastShown' = LastShown
    BY <2>1 DEF StreamInv, StreamRows, ShownWithoutGaps, LastShown
  <2>3. \A kept \in {0, 1} : InFlight(kept) => InFlight(kept)'
    BY <2>1 DEF InFlight, LastShown, Underway
  <2> QED
    BY <2>1, <2>2, <2>3 DEF StreamInv
<1>2. ASSUME NEW after \in 0 .. MaxEvents, Attach(after) PROVE StreamInv'
  <2>1. /\ follower'.pc = "history" /\ follower'.start = after /\ follower'.after = after
        /\ follower'.buffer = << >> /\ shown' = << >> /\ pipe' = << >>
        /\ stream' = [state |-> "none", at |-> 0] /\ log' = log
        /\ follower' \in [pc : FollowerPhase, start : 0 .. MaxEvents, after : 0 .. MaxEvents,
                     buffer : Seq(Pieces), count : Nat]
    BY <1>2 DEF Attach, StreamInv, StreamRows, FollowerPhase
  <2>2. StreamRows'
    BY <2>1, StreamAssumption DEF StreamInv, StreamRows, StreamState
  <2> QED
    BY <2>1, <2>2 DEF StreamInv, ShownWithoutGaps
<1>3. CASE ReadDone
  <2>1. follower.buffer = << >>
    BY <1>3, NothingPends DEF ReadDone
  <2>2. EventOf(follower.buffer) = << >>
    BY <2>1 DEF EventOf
  <2>3. shown' = shown /\ log' = log
    <3>1. shown \in Seq(1 .. MaxEvents)
      BY DEF StreamInv, StreamRows
    <3> QED
      BY <1>3, <2>2, <3>1 DEF ReadDone
  <2> QED
    BY <1>3, <2>3, EndKeepsStream
<1>4. CASE ReadFails \/ RequestFails \/ Interrupt
  <2>1. shown' = shown /\ log' = log
    BY <1>4 DEF ReadFails, RequestFails, Interrupt
  <2> QED
    BY <1>4, <2>1, EndKeepsStream
<1>5. CASE ServerCloses \/ DaemonDies
  <2>1. /\ UNCHANGED <<log, pipe, follower, shown>> /\ stream'.at = stream.at
        /\ stream'.state # "open" /\ stream' \in [state : StreamState, at : 0 .. MaxEvents]
    BY <1>5 DEF ServerCloses, DaemonDies, StreamInv, StreamRows, StreamState
  <2>2. StreamRows' /\ ShownWithoutGaps' /\ LastShown' = LastShown
    BY <2>1 DEF StreamInv, StreamRows, ShownWithoutGaps, LastShown
  <2>3. \A kept \in {0, 1} : InFlight(kept) => InFlight(kept)'
    BY <2>1, <2>2 DEF InFlight, Underway
  <2> QED
    BY <2>1, <2>2, <2>3 DEF StreamInv
<1>6. CASE UNCHANGED streamVars
  <2>1. UNCHANGED <<log, stream, pipe, follower, shown>>
    BY <1>6 DEF streamVars
  <2>2. StreamRows' /\ ShownWithoutGaps' /\ LastShown' = LastShown
    BY <2>1 DEF StreamInv, StreamRows, ShownWithoutGaps, LastShown
  <2>3. \A kept \in {0, 1} : InFlight(kept) => InFlight(kept)'
    BY <2>1, <2>2 DEF InFlight, Underway
  <2> QED
    BY <2>1, <2>2, <2>3 DEF StreamInv
<1> QED
  BY <1>1, <1>2, <1>3, <1>4, <1>5, <1>6, HistoryKeepsStream, OpenKeepsStream,
     PublishKeepsStream, KeepAliveKeepsStream, ReadKeepsStream, YieldKeepsStream
  DEF StreamNext

LEMMA StreamInvImplies == StreamInv => StreamTypeOK /\ ShownWithoutGaps
  BY DEF StreamInv, StreamRows, StreamTypeOK

-----------------------------------------------------------------------------
(* The three together: what one of them does leaves the others alone.       *)

ClientsInv == McpInv /\ McpTypeOK /\ LspInv /\ StreamInv

LEMMA ClientsStart == Init => ClientsInv
  BY McpStarts, McpTypesStart, LspStarts, StreamStarts DEF Init, ClientsInv

LEMMA ClientsTakeAStep == ClientsInv /\ [Next]_vars => ClientsInv'
<1> SUFFICES ASSUME ClientsInv, [Next]_vars PROVE ClientsInv'
  OBVIOUS
<1>1. [McpNext]_mcpVars /\ [LspNext]_lspVars /\ [StreamNext]_streamVars
  BY DEF Next, vars
<1> QED
  BY <1>1, McpStep, McpTypesStep, LspStep, StreamStep DEF ClientsInv

(* What a daemon keeps about its MCP servers, its language servers and the *)
(* client that follows a Run has its type, for any number of servers,       *)
(* turns, clients and events.                                               *)
THEOREM ClientsKeepTheirTypes == Spec => []ClientsTypeOK
<1>1. ClientsInv => ClientsTypeOK
  BY LspInvImplies, StreamInvImplies DEF ClientsInv, ClientsTypeOK
<1> QED
  BY <1>1, ClientsStart, ClientsTakeAStep, PTL DEF Spec

(* finish, open and close of both kinds of connection: no tool call, turn,  *)
(* reconcile pass or shutdown ever waits for an answer that cannot come.    *)
THEOREM EveryWaitCanEnd == Spec => []CallsCanReturn
<1>1. McpInv => McpCallsCanReturn
  BY DEF McpInv, WaitsInv, TurnReturns, PassReturns, McpCallsCanReturn
<1>2. ClientsInv => CallsCanReturn
  BY <1>1, LspInvImplies DEF ClientsInv, CallsCanReturn
<1> QED
  BY <1>2, ClientsStart, ClientsTakeAStep, PTL DEF Spec

(* attach and streamEvents: however reads cut the frames, whatever was      *)
(* appended between the history request and the stream, and however the     *)
(* stream ends, the events printed are those after --after, in order, each  *)
(* once and none skipped.                                                   *)
THEOREM EventsAreShownInOrder == Spec => []ShownWithoutGaps
<1>1. ClientsInv => ShownWithoutGaps
  BY StreamInvImplies DEF ClientsInv
<1> QED
  BY <1>1, ClientsStart, ClientsTakeAStep, PTL DEF Spec
=============================================================================
