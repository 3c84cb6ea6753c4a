------------------------------- MODULE Gateway -------------------------------
(***************************************************************************)
(* One WebSocket connection of the gateway (internal/gateway/ws.go) and    *)
(* the runs it starts: the read loop, the tick goroutine, and for each     *)
(* chat.send a handler goroutine (server.go, handleInbound) that drains    *)
(* the bounded channel a runtime goroutine fills (agentruntime/runtime.go, *)
(* Run).  The session manager is reduced to what each append leaves in the *)
(* transcript; module Sessions models it.                                  *)
(*                                                                         *)
(* An event is observed (written to the connection), sent to the message   *)
(* hub and appended to the transcript, in that order, by the handler.      *)
(***************************************************************************)
EXTENDS Integers, Sequences, FiniteSets

CONSTANTS
  Runs,       \* the runs one connection may start
  Kinds,      \* kinds of message a run may carry: a subset of AllKinds
  ChanCap,    \* capacity of the event channel (4 in the code)
  Chunks,     \* chunks of a "!slow" run (20 in the code)
  MaxTicks,   \* bound: ticks of the connection
  HubFails,   \* whether hub.Send may fail
  StoreFails, \* whether the session manager may fail
  Breaks      \* whether the peer may go away

AllKinds == {"command", "slow", "tool", "model"}

Ticker == "ticker"
Nobody == "nobody"

ASSUME GatewayAssumption ==
  /\ Kinds \subseteq AllKinds
  /\ {Ticker, Nobody} \cap Runs = {}
  /\ ChanCap \in Nat \ {0} /\ Chunks \in Nat /\ MaxTicks \in Nat
  /\ HubFails \in BOOLEAN /\ StoreFails \in BOOLEAN /\ Breaks \in BOOLEAN

VARIABLES
  loop,      \* the read loop: "hello", "read", "accept", "abort", "done"
  loopRun,   \* the run the loop is accepting or aborting
  writable,  \* writes to the connection succeed
  ctxDone,   \* the connection's context is canceled
  active,    \* activeRuns
  canceled,  \* runs whose own context was canceled (runCancel)
  kind,      \* what each run's message asks for
  rt,        \* runtime goroutine: "off", "begin", "slow", "tool", "generate", "ended"
  todo,      \* events the runtime goroutine is about to push
  chunk,     \* chunks a slow run has produced
  chan,      \* the event channel
  h,         \* handler: "off", "prepare", "recv", "observe", "hub", "append", "report", "done"
  hand,      \* the event the handler works on
  failed,    \* runs whose HandleInbound returned an error
  seq,       \* the connection's event counter
  held,      \* the sequence number a goroutine has drawn but not written, by goroutine
  ticks,
  written,   \* auxiliary: sequence numbers on the wire
  frames,    \* auxiliary: what the client got about each run, in order
  made,      \* auxiliary: the events the runtime produced, in order
  sent,      \* auxiliary: the events the hub delivered
  stored,    \* auxiliary: the events appended to the transcript
  cut        \* auxiliary: runs whose work failed because their context was canceled

vars == <<loop, loopRun, writable, ctxDone, active, canceled, kind, rt, todo, chunk, chan,
          h, hand, failed, seq, held, ticks, written, frames, made, sent, stored, cut>>

loopVars    == <<loop, loopRun, kind>>
connVars    == <<writable, ctxDone>>
runtimeVars == <<rt, todo, chunk, made, cut>>
seqVars     == <<seq, held, ticks, written>>
outVars     == <<sent, stored>>

Event(k, aborted, blank) == [kind |-> k, aborted |-> aborted, blank |-> blank]
Events  == [kind : {"block", "tool", "final"}, aborted : BOOLEAN, blank : BOOLEAN]
NoEvent == Event("block", FALSE, TRUE)
Final   == Event("final", FALSE, FALSE)
Aborted == Event("final", TRUE, FALSE)

\* A run's context derives from the connection's.
Done(r) == r \in canceled \/ ctxDone

Frame(k, aborted) == [kind |-> k, aborted |-> aborted]
Frames == [kind : {"accepted", "block", "tool", "final", "error"}, aborted : BOOLEAN]

Init ==
  /\ loop = "hello" /\ loopRun = Nobody
  /\ writable = TRUE /\ ctxDone = FALSE
  /\ active = {} /\ canceled = {}
  /\ kind = [r \in Runs |-> "command"]
  /\ rt = [r \in Runs |-> "off"]
  /\ todo = [r \in Runs |-> <<>>]
  /\ chunk = [r \in Runs |-> 0]
  /\ chan = [r \in Runs |-> <<>>]
  /\ h = [r \in Runs |-> "off"]
  /\ hand = [r \in Runs |-> NoEvent]
  /\ failed = {}
  /\ seq = 0 /\ held = [g \in Runs \cup {Ticker} |-> 0] /\ ticks = 0 /\ written = {}
  /\ frames = [r \in Runs |-> <<>>]
  /\ made = [r \in Runs |-> <<>>]
  /\ sent = [r \in Runs |-> <<>>]
  /\ stored = [r \in Runs |-> <<>>]
  /\ cut = {}

-----------------------------------------------------------------------------
(* The read loop: ReadJSON, then one handler per method. *)

\* connect: protocol and token are accepted (a rejected one changes nothing).
Connect ==
  /\ loop = "hello"
  /\ writable
  /\ loop' = "read"
  /\ UNCHANGED <<loopRun, kind, connVars, active, canceled, runtimeVars, chan, h, hand, failed,
                 seqVars, frames, outVars>>

\* Any other first method ends the loop.
Unauthenticated ==
  /\ loop = "hello"
  /\ loop' = "done"
  /\ ctxDone' = TRUE
  /\ UNCHANGED <<loopRun, kind, writable, active, canceled, runtimeVars, chan, h, hand, failed,
                 seqVars, frames, outVars>>

\* Mutant: the handler goroutine starts before the response is written.
ChatSendStartsAtOnce(r, k) ==
  /\ loop = "read"
  /\ h[r] = "off" /\ r \notin active
  /\ kind' = [kind EXCEPT ![r] = k]
  /\ active' = active \cup {r}
  /\ h' = [h EXCEPT ![r] = "prepare"]
  /\ loop' = "accept" /\ loopRun' = r
  /\ UNCHANGED <<connVars, canceled, runtimeVars, chan, hand, failed, seqVars, frames, outVars>>

\* chat.send: the run is registered before it is acknowledged.
ChatSend(r, k) ==
  /\ loop = "read"
  /\ h[r] = "off" /\ r \notin active
  /\ kind' = [kind EXCEPT ![r] = k]
  /\ active' = active \cup {r}
  /\ loop' = "accept" /\ loopRun' = r
  /\ UNCHANGED <<connVars, canceled, runtimeVars, chan, h, hand, failed, seqVars, frames, outVars>>

\* The response goes out, and only then does the handler goroutine start.
Accept(r) ==
  /\ loop = "accept" /\ loopRun = r
  /\ writable
  /\ frames' = [frames EXCEPT ![r] = Append(@, Frame("accepted", FALSE))]
  /\ h' = [h EXCEPT ![r] = "prepare"]
  /\ loop' = "read" /\ loopRun' = Nobody
  /\ UNCHANGED <<connVars, active, canceled, kind, runtimeVars, chan, hand, failed, seqVars,
                 outVars>>

\* The response cannot be written: runCancel, unregisterRun, and the loop returns.
AcceptFails(r) ==
  /\ loop = "accept" /\ loopRun = r
  /\ ~writable
  /\ canceled' = canceled \cup {r}
  /\ active' = active \ {r}
  /\ loop' = "done" /\ loopRun' = Nobody
  /\ ctxDone' = TRUE
  /\ UNCHANGED <<writable, kind, runtimeVars, chan, h, hand, failed, seqVars, frames, outVars>>

\* chat.abort finds a run by its id, or any active run of its session...
AbortFind(r) ==
  /\ loop = "read"
  /\ r \in active
  /\ loop' = "abort" /\ loopRun' = r
  /\ UNCHANGED <<connVars, active, canceled, kind, runtimeVars, chan, h, hand, failed, seqVars,
                 frames, outVars>>

\* ...cancels it, and answers; a failing answer ends the loop.
AbortCancel(r) ==
  /\ loop = "abort" /\ loopRun = r
  /\ canceled' = canceled \cup {r}
  /\ loopRun' = Nobody
  /\ \/ writable /\ loop' = "read" /\ UNCHANGED ctxDone
     \/ ~writable /\ loop' = "done" /\ ctxDone' = TRUE
  /\ UNCHANGED <<writable, active, kind, runtimeVars, chan, h, hand, failed, seqVars, frames,
                 outVars>>

\* ReadJSON fails, or a response cannot be written: the loop returns, its
\* deferred calls cancel the context and then close the connection.
ReadFails ==
  /\ loop \in {"hello", "read"}
  /\ ~writable \/ Breaks
  /\ loop' = "done"
  /\ ctxDone' = TRUE
  /\ UNCHANGED <<loopRun, kind, writable, active, canceled, runtimeVars, chan, h, hand, failed,
                 seqVars, frames, outVars>>

\* The peer is gone, or the loop has closed the connection: writes fail.
PeerGone ==
  /\ Breaks \/ loop = "done"
  /\ writable
  /\ writable' = FALSE
  /\ UNCHANGED <<loopVars, ctxDone, active, canceled, runtimeVars, chan, h, hand, failed,
                 seqVars, frames, outVars>>

-----------------------------------------------------------------------------
(* sendEvent draws a sequence number, then takes writeMu and writes. *)

\* Mutant: the number is taken from what has been written so far.
DrawFromWritten(g) ==
  /\ seq' = Cardinality(written) + 1
  /\ held' = [held EXCEPT ![g] = Cardinality(written) + 1]

Draw(g) ==
  /\ seq' = seq + 1
  /\ held' = [held EXCEPT ![g] = seq + 1]

\* The write succeeds or is lost with the connection.
WriteHeld(g) ==
  /\ written' = IF writable THEN written \cup {held[g]} ELSE written
  /\ held' = [held EXCEPT ![g] = 0]

\* The tick goroutine starts with the first connect.
Tick ==
  /\ loop # "hello"
  /\ ~ctxDone
  /\ held[Ticker] = 0
  /\ ticks < MaxTicks
  /\ ticks' = ticks + 1
  /\ Draw(Ticker)
  /\ UNCHANGED <<loopVars, connVars, active, canceled, runtimeVars, chan, h, hand, failed,
                 written, frames, outVars>>

\* A tick that cannot be written cancels the context, not the loop.
TickWrite ==
  /\ held[Ticker] # 0
  /\ WriteHeld(Ticker)
  /\ ctxDone' = (ctxDone \/ ~writable)
  /\ UNCHANGED <<loopVars, writable, active, canceled, runtimeVars, chan, h, hand, failed,
                 seq, ticks, frames, outVars>>

-----------------------------------------------------------------------------
(* The runtime goroutine. *)

\* It commits to pushing events es, then goes on in state next.
Produce(r, es, next) ==
  /\ todo' = [todo EXCEPT ![r] = es]
  /\ made' = [made EXCEPT ![r] = @ \o es]
  /\ rt' = [rt EXCEPT ![r] = next]

RtIdle(r, label) == rt[r] = label /\ todo[r] = <<>>

\* A push blocks while the channel is full, canceled or not.
RtPush(r) ==
  /\ todo[r] # <<>>
  /\ Len(chan[r]) < ChanCap
  /\ chan' = [chan EXCEPT ![r] = Append(@, Head(todo[r]))]
  /\ todo' = [todo EXCEPT ![r] = Tail(@)]
  /\ UNCHANGED <<loopVars, connVars, active, canceled, rt, chunk, made, cut, h, hand, failed,
                 seqVars, frames, outVars>>

\* Commands, proposals and rejected skills answer at once; "!tool" may be blocked.
RtBegin(r) ==
  /\ RtIdle(r, "begin")
  /\ \/ kind[r] \in {"command", "tool"} /\ Produce(r, <<Final>>, "ended")
     \/ kind[r] = "slow" /\ Produce(r, <<>>, "slow")
     \/ kind[r] = "tool" /\ Produce(r, <<>>, "tool")
     \/ kind[r] = "model" /\ Done(r) /\ Produce(r, <<Aborted>>, "ended")
     \/ kind[r] = "model" /\ ~Done(r) /\ Produce(r, <<>>, "generate")
  /\ UNCHANGED <<loopVars, connVars, active, canceled, chunk, chan, cut, h, hand, failed,
                 seqVars, frames, outVars>>

\* "!slow": each round waits for the context or the timer.
RtSlow(r) ==
  /\ RtIdle(r, "slow")
  /\ \/ chunk[r] < Chunks /\ Done(r) /\ Produce(r, <<Aborted>>, "ended") /\ UNCHANGED chunk
     \/ /\ chunk[r] < Chunks
        /\ Produce(r, <<Event("block", FALSE, FALSE)>>, "slow")
        /\ chunk' = [chunk EXCEPT ![r] = @ + 1]
     \/ chunk[r] = Chunks /\ Produce(r, <<Final>>, "ended") /\ UNCHANGED chunk
  /\ UNCHANGED <<loopVars, connVars, active, canceled, chan, cut, h, hand, failed, seqVars,
                 frames, outVars>>

\* What a tool call yields: a tool that is refused or fails has only the final
\* event, a result is told in an event of its own before it.
ToolCallEvents == {<<Final>>, <<Event("tool", FALSE, FALSE), Final>>}

\* The model and the tools honour the context; an error, its own or the
\* context's, becomes a final event that is not marked aborted.
RtWork(r) ==
  /\ RtIdle(r, "tool") \/ RtIdle(r, "generate")
  /\ \/ (\E es \in ToolCallEvents : Produce(r, es, "ended")) /\ UNCHANGED cut
     \/ rt[r] = "generate" /\ Produce(r, <<Event("final", FALSE, TRUE)>>, "ended") /\ UNCHANGED cut
     \/ Done(r) /\ Produce(r, <<Final>>, "ended") /\ cut' = cut \cup {r}
  /\ UNCHANGED <<loopVars, connVars, active, canceled, chunk, chan, h, hand, failed, seqVars,
                 frames, outVars>>

-----------------------------------------------------------------------------
(* The handler goroutine. *)

HGoto(r, label) == h' = [h EXCEPT ![r] = label]

\* Touch, ModelContext and the append of the user's message, then Run.
HPrepare(r) ==
  /\ h[r] = "prepare"
  /\ HGoto(r, "recv")
  /\ rt' = [rt EXCEPT ![r] = "begin"]
  /\ UNCHANGED <<loopVars, connVars, active, canceled, todo, chunk, made, cut, chan, hand, failed,
                 seqVars, frames, outVars>>

\* HandleInbound returns an error: the handler draws a number for its own final event.
HErr(r) ==
  /\ failed' = failed \cup {r}
  /\ HGoto(r, "report")
  /\ Draw(r)

HPrepareFails(r) ==
  /\ StoreFails
  /\ h[r] = "prepare"
  /\ HErr(r)
  /\ UNCHANGED <<loopVars, connVars, active, canceled, runtimeVars, chan, hand, ticks, written,
                 frames, outVars>>

\* Mutant: the handler stops draining a run that was canceled.
HRecvUntilCanceled(r) ==
  /\ h[r] = "recv"
  /\ chan[r] # <<>> /\ ~Done(r)
  /\ hand' = [hand EXCEPT ![r] = Head(chan[r])]
  /\ chan' = [chan EXCEPT ![r] = Tail(@)]
  /\ Draw(r)
  /\ HGoto(r, "observe")
  /\ UNCHANGED <<loopVars, connVars, active, canceled, runtimeVars, failed, ticks, written,
                 frames, outVars>>

\* The observer calls sendEvent.
HRecv(r) ==
  /\ h[r] = "recv"
  /\ chan[r] # <<>>
  /\ hand' = [hand EXCEPT ![r] = Head(chan[r])]
  /\ chan' = [chan EXCEPT ![r] = Tail(@)]
  /\ Draw(r)
  /\ HGoto(r, "observe")
  /\ UNCHANGED <<loopVars, connVars, active, canceled, runtimeVars, failed, ticks, written,
                 frames, outVars>>

\* A failing write is ignored; a blank event goes no further.
HObserve(r) ==
  /\ h[r] = "observe"
  /\ WriteHeld(r)
  /\ frames' = IF writable
               THEN [frames EXCEPT ![r] = Append(@, Frame(hand[r].kind, hand[r].aborted))]
               ELSE frames
  /\ HGoto(r, IF hand[r].blank THEN "recv" ELSE "hub")
  /\ UNCHANGED <<loopVars, connVars, active, canceled, runtimeVars, chan, hand, failed, seq,
                 ticks, outVars>>

HSend(r) ==
  /\ h[r] = "hub"
  /\ sent' = [sent EXCEPT ![r] = Append(@, hand[r])]
  /\ HGoto(r, "append")
  /\ UNCHANGED <<loopVars, connVars, active, canceled, runtimeVars, chan, hand, failed, seqVars,
                 frames, stored>>

HSendFails(r) ==
  /\ HubFails
  /\ h[r] = "hub"
  /\ HErr(r)
  /\ UNCHANGED <<loopVars, connVars, active, canceled, runtimeVars, chan, hand, ticks, written,
                 frames, outVars>>

\* Mutant: streamed chunks are not kept in the transcript.
HAppendSkipsBlocks(r) ==
  /\ h[r] = "append"
  /\ stored' = IF hand[r].kind = "block" THEN stored
               ELSE [stored EXCEPT ![r] = Append(@, hand[r])]
  /\ HGoto(r, "recv")
  /\ UNCHANGED <<loopVars, connVars, active, canceled, runtimeVars, chan, hand, failed, seqVars,
                 frames, sent>>

HAppend(r) ==
  /\ h[r] = "append"
  /\ stored' = [stored EXCEPT ![r] = Append(@, hand[r])]
  /\ HGoto(r, "recv")
  /\ UNCHANGED <<loopVars, connVars, active, canceled, runtimeVars, chan, hand, failed, seqVars,
                 frames, sent>>

HAppendFails(r) ==
  /\ StoreFails
  /\ h[r] = "append"
  /\ HErr(r)
  /\ UNCHANGED <<loopVars, connVars, active, canceled, runtimeVars, chan, hand, ticks, written,
                 frames, outVars>>

\* The channel is closed and drained: HandleInbound returns nil, the run is unregistered.
HEnd(r) ==
  /\ h[r] = "recv"
  /\ RtIdle(r, "ended") /\ chan[r] = <<>>
  /\ active' = active \ {r}
  /\ HGoto(r, "done")
  /\ UNCHANGED <<loopVars, connVars, canceled, runtimeVars, chan, hand, failed, seqVars, frames,
                 outVars>>

\* Mutant: an aborted run needs no error event.
HReportSkipsAborted(r) ==
  /\ h[r] = "report"
  /\ WriteHeld(r)
  /\ frames' = IF writable /\ ~Done(r)
               THEN [frames EXCEPT ![r] = Append(@, Frame("error", FALSE))]
               ELSE frames
  /\ active' = active \ {r}
  /\ HGoto(r, "done")
  /\ UNCHANGED <<loopVars, connVars, canceled, runtimeVars, chan, hand, failed, seq, ticks,
                 outVars>>

\* Mutant: unregisterRun is reached only when HandleInbound succeeds.
HReportKeepsRun(r) ==
  /\ h[r] = "report"
  /\ WriteHeld(r)
  /\ frames' = IF writable
               THEN [frames EXCEPT ![r] = Append(@, Frame("error", Done(r)))]
               ELSE frames
  /\ HGoto(r, "done")
  /\ UNCHANGED <<loopVars, connVars, active, canceled, runtimeVars, chan, hand, failed, seq,
                 ticks, outVars>>

\* After an error: a final event marked aborted iff the run's context is done.
HReport(r) ==
  /\ h[r] = "report"
  /\ WriteHeld(r)
  /\ frames' = IF writable
               THEN [frames EXCEPT ![r] = Append(@, Frame("error", Done(r)))]
               ELSE frames
  /\ active' = active \ {r}
  /\ HGoto(r, "done")
  /\ UNCHANGED <<loopVars, connVars, canceled, runtimeVars, chan, hand, failed, seq, ticks,
                 outVars>>

-----------------------------------------------------------------------------

Loop ==
  \/ \E r \in Runs, k \in Kinds : ChatSend(r, k)
  \/ \E r \in Runs : Accept(r) \/ AcceptFails(r) \/ AbortFind(r) \/ AbortCancel(r)
  \/ Connect \/ Unauthenticated \/ ReadFails

Runtime(r) == RtPush(r) \/ RtBegin(r) \/ RtSlow(r) \/ RtWork(r)

Handler(r) ==
  \/ HPrepare(r) \/ HPrepareFails(r) \/ HRecv(r) \/ HObserve(r)
  \/ HSend(r) \/ HSendFails(r) \/ HAppend(r) \/ HAppendFails(r)
  \/ HEnd(r) \/ HReport(r)

Next ==
  \/ Loop \/ PeerGone \/ Tick \/ TickWrite
  \/ \E r \in Runs : Runtime(r) \/ Handler(r)

Spec == Init /\ [][Next]_vars

(***************************************************************************)
(* Goroutines that can run do, and the model and the tools return.  The    *)
(* client need not send, abort or leave.                                   *)
(***************************************************************************)
Fairness ==
  /\ WF_vars(TickWrite)
  /\ WF_vars(\E r \in Runs : Accept(r) \/ AcceptFails(r) \/ AbortCancel(r))
  /\ WF_vars(ReadFails /\ ~writable)
  /\ \A r \in Runs : WF_vars(Runtime(r)) /\ WF_vars(Handler(r))

FairSpec == Spec /\ Fairness

-----------------------------------------------------------------------------

IsPrefixOf(s, t) == Len(s) <= Len(t) /\ s = SubSeq(t, 1, Len(s))

Seen(r) == [i \in 1..Len(made[r]) |-> Frame(made[r][i].kind, made[r][i].aborted)]
LastFrame(r) == frames[r][Len(frames[r])]

(***************************************************************************)
(* The client sees a run as: the acknowledgement, then the runtime's       *)
(* events in their order and without a gap, then, if HandleInbound failed, *)
(* one error event and nothing more.                                       *)
(***************************************************************************)
StreamIsFaithful ==
  \A r \in Runs :
    LET n == Len(frames[r])
        errs == {i \in 1..n : frames[r][i].kind = "error"}
    IN /\ n > 0 => frames[r][1].kind = "accepted"
       /\ errs \subseteq {n} /\ (errs # {} => r \in failed /\ h[r] = "done")
       /\ IsPrefixOf(SubSeq(frames[r], 2, IF errs = {} THEN n ELSE n - 1), Seen(r))

(***************************************************************************)
(* A run that is over has told a client that is still there: its last      *)
(* frame is final.  A second final comes only after a failed delivery.     *)
(***************************************************************************)
EveryRunReports ==
  \A r \in Runs :
    h[r] = "done" /\ writable =>
      /\ LastFrame(r).kind = IF r \in failed THEN "error" ELSE "final"
      /\ r \notin failed => Len(frames[r]) = Len(made[r]) + 1

\* How many of the first n events say something, and that out has the first of
\* those among all events, in their order.
SpokenUpTo(events, n) == Cardinality({i \in 1..n : ~events[i].blank})

Tells(out, events) ==
  /\ Len(out) <= SpokenUpTo(events, Len(events))
  /\ \A i \in 1..Len(events) :
       ~events[i].blank /\ SpokenUpTo(events, i) <= Len(out) =>
         out[SpokenUpTo(events, i)] = events[i]

(***************************************************************************)
(* The transcript holds what the channel got, in order: it is never ahead, *)
(* and lags by one event only while that is appended or if that failed.  A *)
(* run that reports no error has delivered everything the runtime said,    *)
(* whether or not the client was still there to see it.                    *)
(***************************************************************************)
TranscriptFollowsChannel ==
  \A r \in Runs :
    /\ Tells(sent[r], made[r])
    /\ IF h[r] = "append" \/ r \in failed
       THEN Len(sent[r]) - Len(stored[r]) \in {0, 1} /\ IsPrefixOf(stored[r], sent[r])
       ELSE stored[r] = sent[r]
    /\ h[r] = "done" /\ r \notin failed => Len(sent[r]) = SpokenUpTo(made[r], Len(made[r]))

(***************************************************************************)
(* chat.abort can find exactly the runs that are being acknowledged or     *)
(* handled: none is lost, none is left behind.                             *)
(***************************************************************************)
ActiveRunsAreRunning ==
  active = {r \in Runs : h[r] \notin {"off", "done"}}
           \cup (IF loop = "accept" THEN {loopRun} ELSE {})

(***************************************************************************)
(* Sequence numbers may reach the client out of order, but each is used    *)
(* once and none is missing: a gap on the wire is a number some goroutine  *)
(* still holds, as long as writes succeed.                                 *)
(***************************************************************************)
SequenceHasNoGaps ==
  LET inHand == {held[g] : g \in Runs \cup {Ticker}} \ {0}
  IN /\ written \cap inHand = {}
     /\ \A g1, g2 \in Runs \cup {Ticker} : held[g1] = held[g2] /\ held[g1] # 0 => g1 = g2
     /\ writable => 1..seq = written \cup inHand

(***************************************************************************)
(* Every acknowledged run ends, aborted or not, and whatever fails: its    *)
(* handler, and its runtime goroutine too, unless the handler left early   *)
(* (a failed delivery) with more events to come than the channel takes.    *)
(***************************************************************************)
EveryRunEnds ==
  \A r \in Runs :
    (h[r] = "prepare") ~>
      /\ h[r] = "done"
      /\ \/ RtIdle(r, "ended")
         \/ r \in failed /\ rt[r] = "off"
         \/ r \in failed /\ Len(chan[r]) = ChanCap /\ todo[r] # <<>>

(***************************************************************************)
(* "expected aborted final event for runId": a run that chat.abort cut     *)
(* short ends with a final event marked aborted.                           *)
(***************************************************************************)
AbortedRunSaysSo ==
  \A r \in Runs :
    h[r] = "done" /\ r \in cut \cap canceled /\ writable => LastFrame(r).aborted
=============================================================================
