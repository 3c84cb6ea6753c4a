------------------------------ MODULE McpClient ------------------------------
(***************************************************************************)
(* The pending-request protocol of mcp.Client (internal/mcp/client.go):    *)
(* callers register a one-slot channel under a fresh id and wait on it;    *)
(* the read loop, the wait loop, Close and the callers themselves compete  *)
(* to take an id out of the map and answer it.                             *)
(*                                                                         *)
(* "stdio" talks to a child process through pipes; "sse" posts requests    *)
(* over HTTP and reads the answers from one long-lived stream.  A request  *)
(* is named by its id (nextID is a process-wide counter, so ids are never  *)
(* reused).  A critical section of pendingMu is one step.                  *)
(***************************************************************************)
EXTENDS Integers, Sequences, FiniteSets

CONSTANTS
  Reqs,        \* the requests callers make
  Transports,  \* the transports a client may use
  MaxDups,     \* bound: answers repeated, requests made and bad frames sent by the server
  BadFrames,   \* whether the server may emit a frame that readFrame rejects
  Cancels,     \* requests whose context may be canceled
  MayClose,    \* whether Close may be called
  None

ASSUME McpClientAssumption ==
  /\ Transports \subseteq {"stdio", "sse"}
  /\ MaxDups \in Nat
  /\ BadFrames \in BOOLEAN /\ MayClose \in BOOLEAN
  /\ Cancels \subseteq Reqs
  /\ None \notin Reqs

VARIABLES
  transport,  \* "stdio" or "sse", as the configuration says
  pending,    \* Client.pending: ids waiting for an answer
  slot,       \* the buffered value of each request's channel, or "empty"
  slotClosed, \* requests whose channel has been closed
  pc,         \* each caller: "idle", "write", "post", "posted", "wait", "done"
  result,     \* what the call returned
  ctxDone,    \* requests whose context is done
  closed,     \* closedCh is closed
  closer,     \* Close: "idle", "pipes", "drain", "done"
  server,     \* the child process or HTTP server: "up" or "down"
  stream,     \* stdout or the SSE body: "open" or "cut"
  inbox,      \* requests the server has received and may answer
  wire,       \* frames on the stream, oldest first
  reader,     \* the read loop: "read", "deliver", "fail", "ended"
  hand,       \* the frame the read loop delivers
  waiter,     \* waitLoop: "wait", "fail", "ended"
  dups,
  answered    \* auxiliary: requests the server has answered with a result

vars == <<transport, pending, slot, slotClosed, pc, result, ctxDone, closed, closer, server,
          stream, inbox, wire, reader, hand, waiter, dups, answered>>

callVars   == <<pc, result, ctxDone>>
chanVars   == <<slot, slotClosed>>
closeVars  == <<closed, closer>>
serverVars == <<server, inbox, dups, answered>>
readerVars == <<reader, hand>>

Answers == {"result", "rpcError"}
NoFrame == [id |-> None, kind |-> "bad"]
\* "request": a call the server makes itself, whose id may be one of ours.
Frames  == [id : Reqs, kind : Answers \cup {"request"}] \cup {NoFrame}
\* What a channel carries: a message without "result" or "error" is an empty result.
Responses == Answers \cup {"emptyResult", "streamEnd", "clientClosed"}
\* "rawBody" is a body returned undecoded; "zero" is a receive from a closed channel.
Outcomes == Responses \cup {"canceled", "writeError", "rawBody", "zero"}

Init ==
  /\ transport \in Transports
  /\ pending = {}
  /\ slot = [q \in Reqs |-> "empty"]
  /\ slotClosed = {}
  /\ pc = [q \in Reqs |-> "idle"]
  /\ result = [q \in Reqs |-> "none"]
  /\ ctxDone = {}
  /\ closed = FALSE
  /\ closer = "idle"
  /\ server = "up"
  /\ stream = "open"
  /\ inbox = {}
  /\ wire = <<>>
  /\ reader = "read"
  /\ hand = NoFrame
  /\ waiter = IF transport = "stdio" THEN "wait" ELSE "ended"
  /\ dups = 0
  /\ answered = {}

Goto(q, label) == pc' = [pc EXCEPT ![q] = label]

Return(q, value) ==
  /\ Goto(q, "done")
  /\ result' = [result EXCEPT ![q] = value]

-----------------------------------------------------------------------------
(* The callers. *)

\* requestAsync and requestSSE begin alike: pending[id] = respCh.
Register(q) ==
  /\ pc[q] = "idle"
  /\ pending' = pending \cup {q}
  /\ Goto(q, IF transport = "stdio" THEN "write" ELSE "post")
  /\ UNCHANGED <<transport, chanVars, result, ctxDone, closeVars, serverVars, stream, wire,
                 readerVars, waiter>>

\* writeStdioMessage: the pipe takes the frame as long as both ends are open.
WriteOk(q) ==
  /\ pc[q] = "write"
  /\ server = "up"
  /\ closer \in {"idle", "pipes"}
  /\ inbox' = inbox \cup {q}
  /\ Goto(q, "wait")
  /\ UNCHANGED <<transport, pending, chanVars, result, ctxDone, closeVars, server, dups, answered,
                 stream, wire, readerVars, waiter>>

\* Mutant: the error of the write is dropped.
WriteFailsUnnoticed(q) ==
  /\ pc[q] = "write"
  /\ server = "down" \/ closer \in {"drain", "done"}
  /\ Goto(q, "wait")
  /\ UNCHANGED <<transport, pending, chanVars, result, ctxDone, closeVars, serverVars, stream, wire,
                 readerVars, waiter>>

WriteFails(q) ==
  /\ pc[q] = "write"
  /\ server = "down" \/ closer \in {"drain", "done"}
  /\ pending' = pending \ {q}
  /\ Return(q, "writeError")
  /\ UNCHANGED <<transport, chanVars, ctxDone, closeVars, serverVars, stream, wire,
                 readerVars, waiter>>

\* postJSONRPC sends the request; what comes back decides how to go on.
PostSent(q) ==
  /\ pc[q] = "post"
  /\ server = "up"
  /\ inbox' = inbox \cup {q}
  /\ Goto(q, "posted")
  /\ UNCHANGED <<transport, pending, chanVars, result, ctxDone, closeVars, server, dups, answered,
                 stream, wire, readerVars, waiter>>

\* The body carries the answer: the one on the stream is not needed.  A body that
\* parseJSONRPCResult rejects, a JSON-RPC error too, is returned as it is.
PostResult(q) ==
  /\ pc[q] = "posted"
  /\ server = "up"
  /\ pending' = pending \ {q}
  /\ \/ Return(q, "result") /\ answered' = answered \cup {q}
     \/ Return(q, "rawBody") /\ UNCHANGED answered
  /\ UNCHANGED <<transport, chanVars, ctxDone, closeVars, server, inbox, dups, stream, wire,
                 readerVars, waiter>>

\* A failing POST: the connection, the status, the context or requestTimeout.
PostFails(q) ==
  /\ pc[q] \in {"post", "posted"}
  /\ pending' = pending \ {q}
  /\ Return(q, "writeError")
  /\ UNCHANGED <<transport, chanVars, ctxDone, closeVars, serverVars, stream, wire,
                 readerVars, waiter>>

\* errNoAsyncResponse: an empty body, the answer comes on the stream.
PostAccepted(q) ==
  /\ pc[q] = "posted"
  /\ Goto(q, "wait")
  /\ UNCHANGED <<transport, pending, chanVars, result, ctxDone, closeVars, serverVars, stream, wire,
                 readerVars, waiter>>

\* Mutant: a canceled call forgets to leave the map.
AwaitCanceledKeepsId(q) ==
  /\ pc[q] = "wait"
  /\ q \in ctxDone
  /\ Return(q, "canceled")
  /\ UNCHANGED <<transport, pending, chanVars, ctxDone, closeVars, serverVars, stream, wire,
                 readerVars, waiter>>

\* awaitPending: select picks any case that is ready.
AwaitCanceled(q) ==
  /\ pc[q] = "wait"
  /\ q \in ctxDone
  /\ pending' = pending \ {q}
  /\ Return(q, "canceled")
  /\ UNCHANGED <<transport, chanVars, ctxDone, closeVars, serverVars, stream, wire,
                 readerVars, waiter>>

AwaitClosed(q) ==
  /\ pc[q] = "wait"
  /\ closed
  /\ Return(q, "clientClosed")
  /\ UNCHANGED <<transport, pending, chanVars, ctxDone, closeVars, serverVars, stream, wire,
                 readerVars, waiter>>

\* A receive from a closed, drained channel yields a zero response.
AwaitAnswer(q) ==
  /\ pc[q] = "wait"
  /\ slot[q] # "empty" \/ q \in slotClosed
  /\ Return(q, IF slot[q] = "empty" THEN "zero" ELSE slot[q])
  /\ slot' = [slot EXCEPT ![q] = "empty"]
  /\ UNCHANGED <<transport, pending, slotClosed, ctxDone, closeVars, serverVars, stream, wire,
                 readerVars, waiter>>

CancelContext(q) ==
  /\ q \in Cancels \ ctxDone
  /\ pc[q] \notin {"idle", "done"}
  /\ ctxDone' = ctxDone \cup {q}
  /\ UNCHANGED <<transport, pending, chanVars, pc, result, closeVars, serverVars, stream, wire,
                 readerVars, waiter>>

-----------------------------------------------------------------------------
(* The read loop. *)

\* Sending on a full channel would block, so "empty" is a guard.
CanSend(ids) == \A q \in ids : slot[q] = "empty" /\ q \notin slotClosed

\* Mutant: the channels are closed without a response.
CloseOnly(ids, value) ==
  /\ CanSend(ids)
  /\ slotClosed' = slotClosed \cup ids
  /\ UNCHANGED slot

SendAndClose(ids, value) ==
  /\ CanSend(ids)
  /\ slot' = [q \in Reqs |-> IF q \in ids THEN value ELSE slot[q]]
  /\ slotClosed' = slotClosed \cup ids

\* Mutant: the id is looked up, but stays in the map until the answer is sent.
DispatchPeeks ==
  /\ reader = "read"
  /\ wire # <<>>
  /\ Head(wire).kind # "bad"
  /\ wire' = Tail(wire)
  /\ IF Head(wire).id \in pending
     THEN hand' = Head(wire) /\ reader' = "deliver"
     ELSE UNCHANGED <<hand, reader>>
  /\ UNCHANGED <<transport, pending, callVars, chanVars, closeVars, serverVars, stream, waiter>>

\* dispatchRPCMessage takes the id out of the map under the lock...
Dispatch ==
  /\ reader = "read"
  /\ wire # <<>>
  /\ Head(wire).kind # "bad"
  /\ wire' = Tail(wire)
  /\ \/ /\ Head(wire).id \in pending
        /\ pending' = pending \ {Head(wire).id}
        /\ hand' = Head(wire)
        /\ reader' = "deliver"
     \/ /\ Head(wire).id \notin pending
        /\ UNCHANGED <<pending, hand, reader>>
  /\ UNCHANGED <<transport, callVars, chanVars, closeVars, serverVars, stream, waiter>>

\* ...and sends outside of it.
Deliver ==
  /\ reader = "deliver"
  /\ SendAndClose({hand.id}, IF hand.kind = "request" THEN "emptyResult" ELSE hand.kind)
  /\ hand' = NoFrame
  /\ reader' = "read"
  /\ UNCHANGED <<transport, pending, callVars, closeVars, serverVars, stream, wire, waiter>>

\* A rejected frame ends the loop, and so does the end of the stream.
ReadFails ==
  /\ reader = "read"
  /\ \/ wire # <<>> /\ Head(wire).kind = "bad"
     \/ wire = <<>> /\ stream = "cut"
  /\ reader' = "fail"
  /\ UNCHANGED <<transport, pending, chanVars, callVars, closeVars, serverVars, stream, wire,
                 hand, waiter>>

\* failPending answers every id in the map with the error.
FailPending ==
  /\ SendAndClose(pending, "streamEnd")
  /\ pending' = {}

ReaderFailsPending ==
  /\ reader = "fail"
  /\ FailPending
  /\ reader' = "ended"
  /\ UNCHANGED <<transport, callVars, closeVars, serverVars, stream, wire, hand, waiter>>

\* Of the frames under way only those the reader has buffered are still read.
CutStream ==
  /\ stream' = "cut"
  /\ \E n \in 0..Len(wire) : wire' = SubSeq(wire, 1, n)

(* waitLoop: Wait closes stdout, so frames not read by then are lost. *)
WaitReturns ==
  /\ waiter = "wait"
  /\ server = "down"
  /\ waiter' = "fail"
  /\ CutStream
  /\ UNCHANGED <<transport, pending, chanVars, callVars, closeVars, serverVars, readerVars>>

WaiterFailsPending ==
  /\ waiter = "fail"
  /\ FailPending
  /\ waiter' = "ended"
  /\ UNCHANGED <<transport, callVars, closeVars, serverVars, stream, wire, readerVars>>

-----------------------------------------------------------------------------
(* Close, once. *)

CloseSignals ==
  /\ MayClose
  /\ closer = "idle"
  /\ closed' = TRUE
  /\ closer' = "pipes"
  /\ UNCHANGED <<transport, pending, chanVars, callVars, serverVars, stream, wire,
                 readerVars, waiter>>

\* The pipes are closed and the child is killed; an HTTP server lives on.
ClosePipes ==
  /\ closer = "pipes"
  /\ closer' = "drain"
  /\ CutStream
  /\ server' = IF transport = "stdio" THEN "down" ELSE server
  /\ UNCHANGED <<transport, pending, chanVars, callVars, closed, inbox, dups, answered,
                 readerVars, waiter>>

CloseDrains ==
  /\ closer = "drain"
  /\ SendAndClose(pending, "clientClosed")
  /\ pending' = {}
  /\ closer' = "done"
  /\ UNCHANGED <<transport, callVars, closed, serverVars, stream, wire, readerVars, waiter>>

-----------------------------------------------------------------------------
(* The server: it answers what it received, perhaps twice, until it stops. *)

ServerAnswers(q) ==
  /\ server = "up" /\ stream = "open"
  /\ q \in inbox
  /\ \E kind \in Answers :
       /\ wire' = Append(wire, [id |-> q, kind |-> kind])
       /\ answered' = IF kind = "result" THEN answered \cup {q} ELSE answered
  /\ \/ inbox' = inbox \ {q} /\ UNCHANGED dups
     \/ dups < MaxDups /\ dups' = dups + 1 /\ UNCHANGED inbox
  /\ UNCHANGED <<transport, pending, chanVars, callVars, closeVars, server, stream,
                 readerVars, waiter>>

\* A request of the server's own: it numbers them as it likes.
ServerAsks(q) ==
  /\ server = "up" /\ stream = "open"
  /\ dups < MaxDups /\ dups' = dups + 1
  /\ wire' = Append(wire, [id |-> q, kind |-> "request"])
  /\ UNCHANGED <<transport, pending, chanVars, callVars, closeVars, server, inbox, answered, stream,
                 readerVars, waiter>>

ServerBadFrame ==
  /\ BadFrames
  /\ server = "up" /\ stream = "open"
  /\ dups < MaxDups /\ dups' = dups + 1
  /\ wire' = Append(wire, NoFrame)
  /\ UNCHANGED <<transport, pending, chanVars, callVars, closeVars, server, inbox, answered, stream,
                 readerVars, waiter>>

\* The process exits, or the HTTP server goes away.
ServerStops ==
  /\ server = "up"
  /\ server' = "down"
  /\ stream' = "cut"
  /\ UNCHANGED <<transport, pending, chanVars, callVars, closeVars, inbox, dups, answered, wire,
                 readerVars, waiter>>

\* Only the SSE connection breaks; POSTs still get through.
StreamBreaks ==
  /\ transport = "sse"
  /\ stream = "open"
  /\ stream' = "cut"
  /\ UNCHANGED <<transport, pending, chanVars, callVars, closeVars, serverVars, wire,
                 readerVars, waiter>>

-----------------------------------------------------------------------------

Caller(q) ==
  \/ Register(q) \/ WriteOk(q) \/ WriteFails(q)
  \/ PostSent(q) \/ PostResult(q) \/ PostFails(q) \/ PostAccepted(q)
  \/ AwaitCanceled(q) \/ AwaitClosed(q) \/ AwaitAnswer(q)

Client ==
  \/ Dispatch \/ Deliver \/ ReadFails \/ ReaderFailsPending
  \/ WaitReturns \/ WaiterFailsPending
  \/ CloseSignals \/ ClosePipes \/ CloseDrains

Environment ==
  \/ \E q \in Reqs : CancelContext(q) \/ ServerAnswers(q) \/ ServerAsks(q)
  \/ ServerBadFrame \/ ServerStops \/ StreamBreaks

Quiet ==
  /\ \A q \in Reqs : pc[q] = "done"
  /\ UNCHANGED vars

Next == (\E q \in Reqs : Caller(q)) \/ Client \/ Environment \/ Quiet

Spec == Init /\ [][Next]_vars

(***************************************************************************)
(* Goroutines that can run do.  The server is assumed to answer what it    *)
(* received while it is up; nothing makes it stop, a caller give up or     *)
(* Close be called.                                                        *)
(***************************************************************************)
Fairness ==
  /\ \A q \in Reqs :
       /\ WF_vars(WriteOk(q) \/ WriteFails(q))
       /\ WF_vars(PostSent(q) \/ PostFails(q))
       /\ WF_vars(PostResult(q) \/ PostFails(q) \/ PostAccepted(q))
       /\ WF_vars(AwaitCanceled(q) \/ AwaitClosed(q) \/ AwaitAnswer(q))
       /\ WF_vars(ServerAnswers(q) /\ q \notin inbox')
  /\ WF_vars(Dispatch) /\ WF_vars(Deliver) /\ WF_vars(ReadFails)
  /\ WF_vars(ReaderFailsPending)
  /\ WF_vars(WaitReturns) /\ WF_vars(WaiterFailsPending)
  /\ WF_vars(ClosePipes) /\ WF_vars(CloseDrains)

FairSpec == Spec /\ Fairness

-----------------------------------------------------------------------------

TypeOK ==
  /\ transport \in {"stdio", "sse"}
  /\ pending \subseteq Reqs
  /\ slot \in [Reqs -> Responses \cup {"empty"}]
  /\ slotClosed \subseteq Reqs
  /\ pc \in [Reqs -> {"idle", "write", "post", "posted", "wait", "done"}]
  /\ result \in [Reqs -> Outcomes \cup {"none"}]
  /\ ctxDone \subseteq Reqs
  /\ closed \in BOOLEAN
  /\ closer \in {"idle", "pipes", "drain", "done"}
  /\ server \in {"up", "down"}
  /\ stream \in {"open", "cut"}
  /\ inbox \subseteq Reqs
  /\ wire \in Seq(Frames)
  /\ reader \in {"read", "deliver", "fail", "ended"}
  /\ hand \in Frames
  /\ waiter \in {"wait", "fail", "ended"}
  /\ dups \in Nat
  /\ answered \subseteq Reqs

(***************************************************************************)
(* The right to answer a request is in one place: the map, the hand of the *)
(* read loop, or used up.  So no goroutine ever sends on a closed channel  *)
(* (a panic) or on a full one (a block, for three of them with pendingMu   *)
(* held), whatever the order of answers, failures, cancellation and Close. *)
(***************************************************************************)
AnswerOnce ==
  /\ CanSend(pending)
  /\ reader = "deliver" => hand.id \notin pending /\ CanSend({hand.id})

(***************************************************************************)
(* A call that returns a result returns one the server gave to it, and     *)
(* never the zero response of a channel closed without an answer, which    *)
(* would read as success.  (A server request under a pending id does read  *)
(* as an empty success, and so does an error in a POST body: both are      *)
(* outcomes of their own here.)                                            *)
(***************************************************************************)
SuccessIsAnswered ==
  \A q \in Reqs : result[q] # "zero" /\ (result[q] = "result" => q \in answered)

(***************************************************************************)
(* A call that has returned leaves nothing in the map, except that after   *)
(* closedCh it leaves its id to Close, which is still to drain.  (Over SSE *)
(* a POST outlives Close: its id may stay behind on the closed client.)    *)
(***************************************************************************)
ReturnedIsForgotten ==
  \A q \in pending :
    pc[q] = "done" => closer \in {"pipes", "drain"} \/ (closed /\ transport = "sse")

(***************************************************************************)
(* Once Close has drained the map, whoever registers late finds the pipe   *)
(* closed: no call waits on a closed client (stdio).                       *)
(***************************************************************************)
ClosedClientIsEmpty ==
  transport = "stdio" /\ closer = "done" => \A q \in pending : pc[q] = "write"

(***************************************************************************)
(* Over stdio every call returns: answered, or failed when the stream ends *)
(* or the process exits, however registration races with the failure.  A   *)
(* frame that ends the read loop while the process lives is the exception: *)
(* see EndedStreamFailsCalls.                                              *)
(***************************************************************************)
EveryCallReturns ==
  \A q \in Reqs :
    (transport = "stdio" /\ pc[q] # "idle") ~>
      (pc[q] = "done" \/ (reader = "ended" /\ server = "up"))

(***************************************************************************)
(* "reader loops now fail pending RPC calls when stream ends/errors": once *)
(* the read loop is gone, a call in the map does not wait for ever.        *)
(***************************************************************************)
EndedStreamFailsCalls ==
  \A q \in Reqs : (reader = "ended" /\ q \in pending) ~> (pc[q] = "done")
=============================================================================
