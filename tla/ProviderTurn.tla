----------------------------- MODULE ProviderTurn -----------------------------
(***************************************************************************)
(* One Run's turns against its providers: the engine's loop of provider    *)
(* answers and tool calls, the failover over the configured candidates,    *)
(* the abort of a turn by a pause or a shutdown, and what the coordinator  *)
(* does with a failed turn: retry later, start a new epoch, or park the    *)
(* Run.  Of the event log the kinds that the count of consecutive failures *)
(* looks at are kept, of the messages nothing.                             *)
(***************************************************************************)
EXTENDS Integers, Sequences, FiniteSetsExt

CONSTANTS Candidates,           \* number of failover candidates
          MaxProviderAttempts,  \* maxProviderAttempts
          MaxToolCalls,         \* maxToolCalls of a turn
          RetryAfters,          \* Retry-After headers, in quarter seconds
          MaxLog,               \* bound: events
          MaxReplies            \* bound: tool calls in one provider answer

ASSUME TurnAssumption ==
  /\ Candidates \in Nat \ {0}
  /\ MaxProviderAttempts \in Nat /\ MaxToolCalls \in Nat /\ MaxReplies \in Nat
  /\ RetryAfters \subseteq Nat

VARIABLES events,     \* the event log, kinds only
          parked,     \* waiting_external
          wake,       \* delay of the timer of the Run in quarter seconds
          turn,       \* stage of the turn, candidate asked, calls left and made
          aborted     \* the signal of the turn

turnVars == <<events, parked, wake, turn, aborted>>

FailureKinds == {"authentication", "connection_timeout", "context_overflow",
                 "malformed_output", "rate_limited", "server"}
FailoverKinds == {"connection_timeout", "rate_limited", "server"}
ProgressEvents == {"agent.message", "tool.call_finished"}
NoWake == -1
IdleTurn == [stage |-> "idle", candidate |-> 0, calls |-> 0, made |-> 0]

TurnTypeOK ==
  /\ events \in Seq(ProgressEvents \cup {"provider.failed", "context.compacted", "run.retry_scheduled"})
  /\ parked \in BOOLEAN
  /\ wake \in Nat \cup {NoWake}
  /\ turn.stage \in {"idle", "ask", "answering", "tools", "executing"}
  /\ turn.candidate \in 0 .. Candidates
  /\ turn.calls \in 0 .. MaxReplies
  /\ turn.made \in 0 .. MaxToolCalls
  /\ aborted \in BOOLEAN
  /\ turn.stage = "idle" => ~aborted

-----------------------------------------------------------------------------
(* ProviderFailure.retryable *)
Retryable(kind) ==
  kind \notin {"authentication", "context_overflow", "invalid_request", "malformed_output"}

(* Bounds of the jittered backoff, in quarter seconds: a quarter of the     *)
(* base either way, and never more than half a minute.  What a provider     *)
(* says with a 429 or a 5xx is taken as it is.                              *)
RetryDelays(kind, attempt) ==
  LET bounded == IF attempt > 6 THEN 6 ELSE attempt
      base    == Min({30, 2 ^ bounded})
  IN {3 * base, Min({120, 5 * base})}
       \cup {after \in RetryAfters : kind \in {"rate_limited", "server"}}

(* Failures since the last event that shows the provider path works *)
ConsecutiveProviderFailures(log) ==
  LET last == Max({0} \cup {i \in DOMAIN log : log[i] \in ProgressEvents})
  IN Cardinality({i \in last + 1 .. Len(log) : log[i] = "provider.failed"})

-----------------------------------------------------------------------------
TurnInit ==
  /\ events = << >>
  /\ parked = FALSE
  /\ wake = NoWake
  /\ turn = IdleTurn
  /\ aborted = FALSE

(* The engine begins a turn of a running Run that no timer holds back *)
StartTurn ==
  /\ turn.stage = "idle" /\ ~parked /\ wake = NoWake
  /\ Len(events) + 3 <= MaxLog
  /\ turn' = [IdleTurn EXCEPT !.stage = "ask", !.candidate = 1]
  /\ UNCHANGED <<events, parked, wake, aborted>>

(* handleAbort: the epoch ends, nothing is scheduled *)
EndTurn == turn' = IdleTurn /\ aborted' = FALSE

HandleAbort == EndTurn /\ UNCHANGED <<events, parked, wake>>

(* handleFailure of the coordinator *)
HandleFailure(kind) ==
  LET failed      == Append(events, "provider.failed")
      consecutive == ConsecutiveProviderFailures(failed)
  IN /\ EndTurn
     /\ \/ /\ kind = "context_overflow"
           /\ events' = Append(failed, "context.compacted")
           /\ UNCHANGED <<parked, wake>>
        \/ /\ Retryable(kind) /\ consecutive <= MaxProviderAttempts
           /\ wake' \in RetryDelays(kind, consecutive)
           /\ events' = Append(failed, "run.retry_scheduled")
           /\ UNCHANGED parked
        \/ /\ kind # "context_overflow"
           /\ ~Retryable(kind) \/ consecutive > MaxProviderAttempts
           /\ events' = failed
           /\ parked' = TRUE
           /\ UNCHANGED wake

(* Mutant of Thrown: a failure is a failure, aborted or not. *)
MutantThrown(kind) == HandleFailure(kind)

(* An error that leaves the engine: an abort, if the signal says so *)
Thrown(kind) == IF aborted THEN HandleAbort ELSE HandleFailure(kind)

(* The head of the engine's and of the failover's loops *)
Ask ==
  /\ turn.stage = "ask"
  /\ IF aborted THEN HandleAbort
     ELSE /\ turn' = [turn EXCEPT !.stage = "answering"]
          /\ UNCHANGED <<events, parked, wake, aborted>>

(* A candidate answers, with tool calls or, to end the turn, with text *)
Complete(calls) ==
  /\ turn.stage = "answering"
  /\ \/ aborted /\ HandleAbort
     \/ /\ ~aborted /\ calls = 0
        /\ events' = Append(events, "agent.message")
        /\ EndTurn
        /\ UNCHANGED <<parked, wake>>
     \/ /\ ~aborted /\ calls > 0
        /\ turn' = [turn EXCEPT !.stage = "tools", !.calls = calls]
        /\ UNCHANGED <<events, parked, wake, aborted>>

(* FailoverTurnProvider.complete: the next candidate, if there is one and  *)
(* the failure is not the request's own fault                              *)
CandidateFails(kind) ==
  /\ turn.stage = "answering"
  /\ IF turn.candidate = Candidates \/ kind \notin FailoverKinds
     THEN Thrown(kind)
     ELSE /\ turn' = [turn EXCEPT !.stage = "ask", !.candidate = @ + 1]
          /\ UNCHANGED <<events, parked, wake, aborted>>

(* The next call of the answer: refused, unknown to the registry, or begun *)
NextToolCall ==
  LET left == [turn EXCEPT !.calls = @ - 1, !.made = @ + 1]
  IN /\ turn.stage = "tools" /\ turn.calls > 0
     /\ \/ aborted /\ HandleAbort
        \/ ~aborted /\ turn.made = MaxToolCalls /\ HandleFailure("malformed_output")
        \/ /\ ~aborted /\ turn.made < MaxToolCalls
           /\ \/ turn' = left
              \/ turn' = [left EXCEPT !.stage = "executing"]
           /\ UNCHANGED <<events, parked, wake, aborted>>

(* All calls of an answer are done: the provider is asked again *)
AskAgain ==
  /\ turn.stage = "tools" /\ turn.calls = 0
  /\ turn' = [turn EXCEPT !.stage = "ask", !.candidate = 1]
  /\ UNCHANGED <<events, parked, wake, aborted>>

(* The tool resolves or rejects, aborted or not; both are journalled *)
ToolFinishes ==
  /\ turn.stage = "executing"
  /\ Len(events) + 3 <= MaxLog
  /\ events' = Append(events, "tool.call_finished")
  /\ IF aborted THEN EndTurn
     ELSE turn' = [turn EXCEPT !.stage = "tools"] /\ UNCHANGED aborted
  /\ UNCHANGED <<parked, wake>>

(* The call needs an approval: the turn stops before the tool does anything *)
ToolNeedsApproval ==
  /\ turn.stage = "executing"
  /\ EndTurn
  /\ parked' = (parked \/ ~aborted)
  /\ UNCHANGED <<events, wake>>

(* A pause or a shutdown sets the signal of the turn *)
Abort ==
  /\ turn.stage # "idle" /\ ~aborted
  /\ aborted' = TRUE
  /\ UNCHANGED <<events, parked, wake, turn>>

(* wakeDueContinuations *)
Wake ==
  /\ wake # NoWake /\ wake' = NoWake
  /\ UNCHANGED <<events, parked, turn, aborted>>

(* The operator resumes the Run, or the approval is resolved *)
Unpark == parked /\ parked' = FALSE /\ UNCHANGED <<events, wake, turn, aborted>>

TurnNext ==
  \/ StartTurn \/ Ask \/ NextToolCall \/ AskAgain \/ ToolFinishes
  \/ ToolNeedsApproval \/ Abort \/ Wake \/ Unpark
  \/ \E calls \in 0 .. MaxReplies : Complete(calls)
  \/ \E kind \in FailureKinds : CandidateFails(kind)

TurnSpec == TurnInit /\ [][TurnNext]_turnVars

-----------------------------------------------------------------------------
(* Retries scheduled since the last sign that the provider works *)
RetriesSinceProgress ==
  LET last == Max({0} \cup {i \in DOMAIN events : events[i] \in ProgressEvents})
  IN Cardinality({i \in last + 1 .. Len(events) : events[i] = "run.retry_scheduled"})

(* Between two signs that the provider works, at most MaxProviderAttempts  *)
(* retries are scheduled, however the failures are mixed with overflows,   *)
(* aborts, parks and resumes; and a pause or a shutdown is not an outage:  *)
(* from the abort on, the turn asks no further candidate, begins no tool,  *)
(* counts no failure, schedules no retry and parks no Run (the             *)
(* coordinator's handleAbort, "must never schedule a retry").              *)
FailuresAreContained ==
  [][/\ RetriesSinceProgress' <= MaxProviderAttempts
     /\ aborted => /\ turn'.stage \in {turn.stage, "idle", "ask"}
                   /\ ConsecutiveProviderFailures(events')
                        <= ConsecutiveProviderFailures(events)
                   /\ wake' <= wake
                   /\ parked' => parked]_turnVars
=============================================================================
