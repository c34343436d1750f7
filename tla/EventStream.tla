----------------------------- MODULE EventStream -----------------------------
(***************************************************************************)
(* How a client follows a Run: the event log in the store, the server's    *)
(* /events and /events/stream routes, OttiliClient.streamEvents and the    *)
(* attach command that prints the history and then follows the stream.     *)
(*                                                                         *)
(* The store numbers a Run's events 1, 2, ... in the transaction that      *)
(* causes them, so an event is its number.  A server-sent event reaches    *)
(* the client as two pieces, its lines and the blank line that ends it,    *)
(* and a read may end between the two.                                     *)
(***************************************************************************)
EXTENDS Integers, Sequences

CONSTANTS MaxEvents,  \* bound: events of the Run
          MaxStreams  \* bound: attach commands

ASSUME StreamAssumption == MaxEvents \in Nat /\ MaxStreams \in Nat

VARIABLES log,      \* number of events in the store
          stream,   \* the response: its state and the last sequence published
          pipe,     \* pieces written and not yet read
          follower, \* the attach command
          shown     \* events the command has printed

streamVars == <<log, stream, pipe, follower, shown>>

FollowerPhase == {"idle", "history", "connecting", "reading", "ended", "failed"}
StreamState == {"none", "open", "finished", "reset"}
Following == {"history", "connecting", "reading"}

(* A piece is a frame's lines (a keep-alive comment's carry no event) or   *)
(* the blank line after it.                                                *)
Lines(n) == [event |-> n, ends |-> FALSE]
Blank == [event |-> 0, ends |-> TRUE]
Frames(from, to) ==
  [i \in 1 .. 2 * (to - from + 1) |->
     IF i % 2 = 1 THEN Lines(from + (i - 1) \div 2) ELSE Blank]

NoFollower == [pc |-> "idle", start |-> 0, after |-> 0, buffer |-> << >>, count |-> 0]

StreamInit ==
  /\ log = 0 /\ pipe = << >> /\ shown = << >>
  /\ stream = [state |-> "none", at |-> 0]
  /\ follower = NoFollower

-----------------------------------------------------------------------------
(* appendEventInternal: the next sequence of the Run *)
AppendEvent ==
  /\ log < MaxEvents /\ log' = log + 1
  /\ UNCHANGED <<stream, pipe, follower, shown>>

(* attach --after n *)
Attach(after) ==
  /\ follower.pc \notin Following /\ follower.count < MaxStreams
  /\ follower' = [pc |-> "history", start |-> after, after |-> after,
                  buffer |-> << >>, count |-> follower.count + 1]
  /\ stream' = [state |-> "none", at |-> 0] /\ pipe' = << >> /\ shown' = << >>
  /\ UNCHANGED log

(* GET /events: everything after `after`; nextSequence is the last of it,  *)
(* or `after` when there is none.  Without --follow the command ends here. *)
History ==
  /\ follower.pc = "history"
  /\ shown' = [i \in 1 .. log - follower.after |-> follower.after + i]
  /\ \E pc \in {"connecting", "ended"} :
       follower' = [follower EXCEPT !.pc = pc, !.after = IF log > @ THEN log ELSE @]
  /\ UNCHANGED <<log, stream, pipe>>

(* Mutant of OpenStream: it starts at the end of the log. *)
MutantOpenStream ==
  /\ follower.pc = "connecting"
  /\ follower' = [follower EXCEPT !.pc = "reading"]
  /\ stream' = [state |-> "open", at |-> log]
  /\ UNCHANGED <<log, pipe, shown>>

(* GET /events/stream?after=n with Last-Event-ID n: the greater of the two *)
(* starts the stream, and publish runs at once.                            *)
OpenStream ==
  /\ follower.pc = "connecting"
  /\ follower' = [follower EXCEPT !.pc = "reading"]
  /\ pipe' = Frames(follower.after + 1, log)
  /\ stream' = [state |-> "open", at |-> IF log > follower.after THEN log ELSE follower.after]
  /\ UNCHANGED <<log, shown>>

(* Mutant of PublishEvents: the last sequence is miscounted. *)
MutantPublishEvents ==
  /\ stream.state = "open" /\ stream.at < log
  /\ pipe' = pipe \o Frames(stream.at + 1, log)
  /\ stream' = [stream EXCEPT !.at = @ + 1]
  /\ UNCHANGED <<log, follower, shown>>

(* publish, every 200 ms: a frame for each event after the last published *)
PublishEvents ==
  /\ stream.state = "open" /\ stream.at < log
  /\ pipe' = pipe \o Frames(stream.at + 1, log)
  /\ stream' = [stream EXCEPT !.at = log]
  /\ UNCHANGED <<log, follower, shown>>
(* ": keepalive", every 15 s (bound: one at a time is under way) *)
KeepAlive ==
  /\ stream.state = "open" /\ pipe = << >> /\ follower.buffer = << >>
  /\ pipe' = Frames(0, 0)
  /\ UNCHANGED <<log, stream, follower, shown>>

(* split("\n\n"): a frame ends at the first blank line; its lines are one  *)
(* piece, and parseSseFrame drops a frame that carries no data             *)
Complete(pieces) == \E i \in 1 .. Len(pieces) : pieces[i].ends
FrameEnd(pieces) ==
  CHOOSE i \in 1 .. Len(pieces) :
    pieces[i].ends /\ \A j \in 1 .. i - 1 : ~pieces[j].ends
EventOf(frame) ==
  IF frame # << >> /\ frame[1].event > 0 THEN << frame[1].event >> ELSE << >>

(* A read returns some of the pieces, once the frames of the last one are  *)
(* yielded.                                                                *)
ReadChunk ==
  /\ follower.pc = "reading" /\ ~Complete(follower.buffer) /\ pipe # << >>
  /\ \E n \in 1 .. Len(pipe) :
       /\ follower' = [follower EXCEPT !.buffer = follower.buffer \o SubSeq(pipe, 1, n)]
       /\ pipe' = SubSeq(pipe, n + 1, Len(pipe))
  /\ UNCHANGED <<log, stream, shown>>
(* The generator yields the event of the next frame, which the command     *)
(* prints; the rest stays in the buffer                                    *)
YieldFrame ==
  /\ follower.pc = "reading" /\ Complete(follower.buffer)
  /\ LET end == FrameEnd(follower.buffer) IN
       /\ shown' = shown \o EventOf(SubSeq(follower.buffer, 1, end))
       /\ follower' = [follower EXCEPT !.buffer =
            SubSeq(follower.buffer, end + 1, Len(follower.buffer))]
  /\ UNCHANGED <<log, stream, pipe>>
(* done: what is left in the buffer is parsed as a last frame *)
ReadDone ==
  /\ follower.pc = "reading" /\ ~Complete(follower.buffer)
  /\ pipe = << >> /\ stream.state = "finished"
  /\ shown' = shown \o EventOf(follower.buffer)
  /\ follower' = [follower EXCEPT !.pc = "ended", !.buffer = << >>]
  /\ UNCHANGED <<log, stream, pipe>>

(* DaemonServer.close ends every response; attach then returns normally *)
ServerCloses ==
  /\ stream.state = "open"
  /\ stream' = [stream EXCEPT !.state = "finished"]
  /\ UNCHANGED <<log, pipe, follower, shown>>
(* The daemon process dies: the read, or a request under way, rejects.     *)
(* Frames that were read are yielded in microtasks, before anything else   *)
(* happens to the command.                                                 *)
DaemonDies ==
  /\ stream.state \in {"open", "finished"}
  /\ stream' = [stream EXCEPT !.state = "reset"]
  /\ UNCHANGED <<log, pipe, follower, shown>>
ReadFails ==
  /\ follower.pc = "reading" /\ ~Complete(follower.buffer)
  /\ stream.state = "reset"
  /\ follower' = [follower EXCEPT !.pc = "failed"] /\ pipe' = << >>
  /\ UNCHANGED <<log, stream, shown>>
RequestFails ==
  /\ follower.pc \in {"history", "connecting"}
  /\ follower' = [follower EXCEPT !.pc = "failed"]
  /\ UNCHANGED <<log, stream, pipe, shown>>
(* SIGINT aborts the request; the rejection is swallowed, and the server   *)
(* side's close stops its timers.                                          *)
Interrupt ==
  /\ follower.pc \in {"connecting", "reading"} /\ ~Complete(follower.buffer)
  /\ follower' = [follower EXCEPT !.pc = "ended"] /\ pipe' = << >>
  /\ stream' = [stream EXCEPT !.state = "none"]
  /\ UNCHANGED <<log, shown>>

StreamNext ==
  \/ AppendEvent \/ History \/ OpenStream \/ PublishEvents \/ KeepAlive
  \/ ReadChunk \/ YieldFrame \/ ReadDone \/ ServerCloses \/ DaemonDies
  \/ ReadFails \/ RequestFails \/ Interrupt
  \/ \E after \in 0 .. MaxEvents : Attach(after)

(* The interval timer of an open response fires, and the client's loop     *)
(* reads what has arrived.                                                 *)
StreamFairness ==
  /\ WF_streamVars(PublishEvents) /\ WF_streamVars(ReadChunk)
  /\ WF_streamVars(YieldFrame) /\ WF_streamVars(ReadDone)
StreamSpec == StreamInit /\ [][StreamNext]_streamVars /\ StreamFairness

-----------------------------------------------------------------------------
StreamTypeOK ==
  /\ log \in 0 .. MaxEvents
  /\ stream.state \in StreamState /\ stream.at \in 0 .. MaxEvents
  /\ follower.pc \in FollowerPhase /\ follower.after \in 0 .. MaxEvents
  /\ shown \in Seq(1 .. MaxEvents)

(* Across the history request, the gap before the stream opens, frames cut *)
(* by a read, and however the stream ends, the command has printed the     *)
(* events after --after in order, each once and none skipped.              *)
ShownWithoutGaps ==
  \A i \in 1 .. Len(shown) : shown[i] = follower.start + i

(* While a client follows, every event of the Run is printed, or the       *)
(* stream ends: streamEvents and the server's publish lose no wakeup.      *)
FollowerCatchesUp ==
  \A n \in 1 .. MaxEvents :
    (follower.pc = "reading" /\ follower.start < n /\ n <= log)
      ~> (follower.start + Len(shown) >= n \/ follower.pc # "reading"
          \/ stream.state # "open")
=============================================================================
