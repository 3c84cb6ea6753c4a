--------------------------- MODULE McpClientProofs ---------------------------
(***************************************************************************)
(* Proofs about McpClient for any set of requests, either transport and    *)
(* any bound on the server.  IInv is the inductive invariant: the           *)
(* properties of McpClient together with what a fresh call has not touched *)
(* yet (Fresh), what a closed channel still holds (Filled), where a result *)
(* comes from (Sourced), and which steps a transport takes (Lanes).        *)
(***************************************************************************)
EXTENDS McpClient, TLAPS

\* A call that has not registered has no id in the map, no channel, no answer.
Fresh ==
  \A q \in Reqs :
    pc[q] = "idle" =>
      /\ q \notin pending /\ slot[q] = "empty" /\ q \notin slotClosed
      /\ ~(reader = "deliver" /\ hand.id = q)

\* Only the caller empties a closed channel, and then it has returned.
Filled ==
  \A q \in slotClosed : slot[q] = "empty" => pc[q] = "done"

\* Every result under way comes from an answer of the server.
Sourced ==
  /\ \A i \in 1..Len(wire) : wire[i].kind = "result" => wire[i].id \in answered
  /\ hand.kind = "result" => hand.id \in answered
  /\ \A q \in Reqs : slot[q] = "result" => q \in answered

Lanes ==
  /\ closed <=> closer # "idle"
  /\ \A q \in Reqs :
       /\ transport = "stdio" => pc[q] \notin {"post", "posted"}
       /\ transport = "sse" => pc[q] # "write"
  /\ reader = "deliver" => hand.id \in Reqs /\ hand.kind # "bad"

IInv ==
  /\ TypeOK
  /\ AnswerOnce
  /\ Fresh
  /\ Filled
  /\ Sourced
  /\ Lanes
  /\ SuccessIsAnswered
  /\ ReturnedIsForgotten
  /\ ClosedClientIsEmpty

-----------------------------------------------------------------------------

\* The initial state, and every step, keeps the types.
LEMMA InitTypes == Init => TypeOK
<1> SUFFICES ASSUME Init PROVE TypeOK
  OBVIOUS
<1>1. hand \in Frames
  BY DEF Init, Frames
<1>2. wire \in Seq(Frames)
  BY DEF Init
<1>3. waiter \in {"wait", "fail", "ended"}
  BY DEF Init
<1>4. slot \in [Reqs -> Responses \cup {"empty"}] /\ result \in [Reqs -> Outcomes \cup {"none"}]
  BY DEF Init
<1>5. transport \in {"stdio", "sse"}
  BY McpClientAssumption DEF Init
<1> QED
  BY <1>1, <1>2, <1>3, <1>4, <1>5 DEF Init, TypeOK

LEMMA StepTypes == TypeOK /\ Lanes /\ [Next]_vars => TypeOK'
<1> SUFFICES ASSUME TypeOK, Lanes, [Next]_vars PROVE TypeOK'
  OBVIOUS
<1> USE McpClientAssumption
    DEF TypeOK, Lanes, Frames, NoFrame, Answers, Responses, Outcomes,
        vars, callVars, chanVars, closeVars, serverVars, readerVars
<1>1. ASSUME NEW q \in Reqs, Register(q) PROVE TypeOK'
  BY <1>1 DEF Register, Goto
<1>2. ASSUME NEW q \in Reqs, WriteOk(q) PROVE TypeOK'
  BY <1>2 DEF WriteOk, Goto
<1>3. ASSUME NEW q \in Reqs, WriteFails(q) PROVE TypeOK'
  BY <1>3 DEF WriteFails, Return, Goto
<1>4. ASSUME NEW q \in Reqs, PostSent(q) PROVE TypeOK'
  BY <1>4 DEF PostSent, Goto
<1>5. ASSUME NEW q \in Reqs, PostResult(q) PROVE TypeOK'
  BY <1>5 DEF PostResult, Return, Goto
<1>6. ASSUME NEW q \in Reqs, PostFails(q) PROVE TypeOK'
  BY <1>6 DEF PostFails, Return, Goto
<1>7. ASSUME NEW q \in Reqs, PostAccepted(q) PROVE TypeOK'
  BY <1>7 DEF PostAccepted, Goto
<1>8. ASSUME NEW q \in Reqs, AwaitCanceled(q) PROVE TypeOK'
  BY <1>8 DEF AwaitCanceled, Return, Goto
<1>9. ASSUME NEW q \in Reqs, AwaitClosed(q) PROVE TypeOK'
  BY <1>9 DEF AwaitClosed, Return, Goto
<1>10. ASSUME NEW q \in Reqs, AwaitAnswer(q) PROVE TypeOK'
  BY <1>10 DEF AwaitAnswer, Return, Goto
<1>11. CASE Dispatch
  BY <1>11 DEF Dispatch
<1>12. CASE Deliver
  BY <1>12 DEF Deliver, SendAndClose
<1>13. CASE ReadFails
  BY <1>13 DEF ReadFails
<1>14. CASE ReaderFailsPending
  BY <1>14 DEF ReaderFailsPending, FailPending, SendAndClose
<1>15. CASE WaitReturns
  BY <1>15 DEF WaitReturns, CutStream
<1>16. CASE WaiterFailsPending
  BY <1>16 DEF WaiterFailsPending, FailPending, SendAndClose
<1>17. CASE CloseSignals
  BY <1>17 DEF CloseSignals
<1>18. CASE ClosePipes
  BY <1>18 DEF ClosePipes, CutStream
<1>19. CASE CloseDrains
  BY <1>19 DEF CloseDrains, SendAndClose
<1>20. ASSUME NEW q \in Reqs, CancelContext(q) PROVE TypeOK'
  BY <1>20 DEF CancelContext
<1>21. ASSUME NEW q \in Reqs, ServerAnswers(q) PROVE TypeOK'
  BY <1>21 DEF ServerAnswers
<1>22. ASSUME NEW q \in Reqs, ServerAsks(q) PROVE TypeOK'
  BY <1>22 DEF ServerAsks
<1>23. CASE ServerBadFrame
  BY <1>23 DEF ServerBadFrame
<1>24. CASE ServerStops
  BY <1>24 DEF ServerStops
<1>25. CASE StreamBreaks
  BY <1>25 DEF StreamBreaks
<1>26. CASE UNCHANGED vars
  BY <1>26
<1> QED
  BY <1>1, <1>2, <1>3, <1>4, <1>5, <1>6, <1>7, <1>8, <1>9, <1>10, <1>11, <1>12, <1>13,
     <1>14, <1>15, <1>16, <1>17, <1>18, <1>19, <1>20, <1>21, <1>22, <1>23, <1>24, <1>25, <1>26
     DEF Next, Caller, Client, Environment, Quiet

LEMMA InitInv == Init => IInv
<1> SUFFICES ASSUME Init PROVE IInv
  OBVIOUS
<1> QED
  BY InitTypes, McpClientAssumption
     DEF Init, IInv, AnswerOnce, CanSend, Fresh, Filled, Sourced, Lanes, NoFrame,
         SuccessIsAnswered, ReturnedIsForgotten, ClosedClientIsEmpty

\* Every step keeps the relations between the map, the channels and the callers.
LEMMA StepInv == IInv /\ TypeOK' /\ [Next]_vars => IInv'
<1> SUFFICES ASSUME IInv, TypeOK', [Next]_vars PROVE IInv'
  OBVIOUS
<1> USE McpClientAssumption
    DEF IInv, AnswerOnce, CanSend, Fresh, Filled, Sourced, Lanes, SuccessIsAnswered,
        ReturnedIsForgotten, ClosedClientIsEmpty,
        TypeOK, Frames, NoFrame, Answers, Responses, Outcomes,
        vars, callVars, chanVars, closeVars, serverVars, readerVars
<1>1. ASSUME NEW q \in Reqs, Register(q) PROVE IInv'
  BY <1>1 DEF Register, Goto
<1>2. ASSUME NEW q \in Reqs, WriteOk(q) PROVE IInv'
  BY <1>2 DEF WriteOk, Goto
<1>3. ASSUME NEW q \in Reqs, WriteFails(q) PROVE IInv'
  BY <1>3 DEF WriteFails, Return, Goto
<1>4. ASSUME NEW q \in Reqs, PostSent(q) PROVE IInv'
  BY <1>4 DEF PostSent, Goto
<1>5. ASSUME NEW q \in Reqs, PostResult(q) PROVE IInv'
  BY <1>5 DEF PostResult, Return, Goto
<1>6. ASSUME NEW q \in Reqs, PostFails(q) PROVE IInv'
  BY <1>6 DEF PostFails, Return, Goto
<1>7. ASSUME NEW q \in Reqs, PostAccepted(q) PROVE IInv'
  BY <1>7 DEF PostAccepted, Goto
<1>8. ASSUME NEW q \in Reqs, AwaitCanceled(q) PROVE IInv'
  BY <1>8 DEF AwaitCanceled, Return, Goto
<1>9. ASSUME NEW q \in Reqs, AwaitClosed(q) PROVE IInv'
  BY <1>9 DEF AwaitClosed, Return, Goto
<1>10. ASSUME NEW q \in Reqs, AwaitAnswer(q) PROVE IInv'
  BY <1>10 DEF AwaitAnswer, Return, Goto
<1>11. CASE Dispatch
  BY <1>11 DEF Dispatch
<1>12. CASE Deliver
  BY <1>12 DEF Deliver, SendAndClose
<1>13. CASE ReadFails
  BY <1>13 DEF ReadFails
<1>14. CASE ReaderFailsPending
  BY <1>14 DEF ReaderFailsPending, FailPending, SendAndClose
<1>15. CASE WaitReturns
  BY <1>15 DEF WaitReturns, CutStream
<1>16. CASE WaiterFailsPending
  BY <1>16 DEF WaiterFailsPending, FailPending, SendAndClose
<1>17. CASE CloseSignals
  BY <1>17 DEF CloseSignals
<1>18. CASE ClosePipes
  BY <1>18 DEF ClosePipes, CutStream
<1>19. CASE CloseDrains
  BY <1>19 DEF CloseDrains, SendAndClose
<1>20. ASSUME NEW q \in Reqs, CancelContext(q) PROVE IInv'
  BY <1>20 DEF CancelContext
<1>21. ASSUME NEW q \in Reqs, ServerAnswers(q) PROVE IInv'
  BY <1>21 DEF ServerAnswers
<1>22. ASSUME NEW q \in Reqs, ServerAsks(q) PROVE IInv'
  BY <1>22 DEF ServerAsks
<1>23. CASE ServerBadFrame
  BY <1>23 DEF ServerBadFrame
<1>24. CASE ServerStops
  BY <1>24 DEF ServerStops
<1>25. CASE StreamBreaks
  BY <1>25 DEF StreamBreaks
<1>26. CASE UNCHANGED vars
  BY <1>26
<1> QED
  BY <1>1, <1>2, <1>3, <1>4, <1>5, <1>6, <1>7, <1>8, <1>9, <1>10, <1>11, <1>12, <1>13,
     <1>14, <1>15, <1>16, <1>17, <1>18, <1>19, <1>20, <1>21, <1>22, <1>23, <1>24, <1>25, <1>26
     DEF Next, Caller, Client, Environment, Quiet

-----------------------------------------------------------------------------

LEMMA Invariance == Spec => []IInv
<1>1. IInv /\ [Next]_vars => IInv'
  BY StepTypes, StepInv DEF IInv
<1> QED
  BY InitInv, <1>1, PTL DEF Spec

(***************************************************************************)
(* Whatever the number of calls, no goroutine sends on a closed or a full  *)
(* channel: readers, waitLoop and Close never answer the same id.          *)
(***************************************************************************)
THEOREM AnsweredOnce == Spec => []AnswerOnce
  BY Invariance, PTL DEF IInv

(***************************************************************************)
(* A result handed to a caller is one the server gave for its id.          *)
(***************************************************************************)
THEOREM ResultsAreAnswers == Spec => []SuccessIsAnswered
  BY Invariance, PTL DEF IInv

(***************************************************************************)
(* The map holds no id of a call that is over, up to the drain of Close;   *)
(* after it, only ids whose write is bound to fail.                        *)
(***************************************************************************)
THEOREM MapIsClean == Spec => [](ReturnedIsForgotten /\ ClosedClientIsEmpty)
  BY Invariance, PTL DEF IInv

\* The state keeps its types.
THEOREM McpTypeCorrect == Spec => []TypeOK
  BY Invariance, PTL DEF IInv
=============================================================================
