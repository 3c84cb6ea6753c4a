---------------------------- MODULE GatewayProofs ----------------------------
(***************************************************************************)
(* Proofs about Gateway for any set of runs, any capacity of the channel   *)
(* and whatever fails.  First, chat.abort finds what runs, and the event   *)
(* numbers have no gap although each is drawn before the lock of the       *)
(* write: Numbers ties a number in hand to the place of the goroutine that *)
(* drew it, so that none is drawn over another.  Then, the client sees     *)
(* what the runtime says: Pipe follows each event through the runtime      *)
(* goroutine, the channel and the handler's hand, Stream to the client.    *)
(* Last, so do the channel and the transcript: OutInv says up to which     *)
(* event the handler has passed on all that is not blank.                  *)
(***************************************************************************)
EXTENDS Gateway, FiniteSetTheorems, SequenceTheorems, TLAPS

Writers == Runs \cup {Ticker}

Labels == {"off", "prepare", "recv", "observe", "hub", "append", "report", "done"}

Types ==
  /\ loop \in {"hello", "read", "accept", "abort", "done"}
  /\ h \in [Runs -> Labels]
  /\ held \in [Writers -> Nat]
  /\ seq \in Nat

\* A run that is being acknowledged has no handler yet.
Acknowledging == loop = "accept" => loopRun \in Runs /\ h[loopRun] = "off"

\* A handler has a number in hand exactly while it is about to write it.
InHand == \A r \in Runs : held[r] # 0 <=> h[r] \in {"observe", "report"}

Numbers ==
  /\ written \subseteq 1..seq
  /\ \A g \in Writers : held[g] <= seq
  /\ SequenceHasNoGaps

IInv == Types /\ Acknowledging /\ ActiveRunsAreRunning /\ InHand /\ Numbers

-----------------------------------------------------------------------------
(* The sequence numbers. *)

LEMMA DrawKeepsNumbers ==
  ASSUME Types, Numbers, NEW g \in Writers, held[g] = 0, Draw(g), UNCHANGED <<written, writable>>
  PROVE  Numbers'
<1>1. seq' = seq + 1 /\ held' = [held EXCEPT ![g] = seq + 1]
  BY DEF Draw
<1>2. held'[g] = seq + 1 /\ \A f \in Writers \ {g} : held'[f] = held[f]
  BY <1>1 DEF Types
<1>3. written' \subseteq 1..seq' /\ \A f \in Writers : held'[f] <= seq'
  BY <1>1, <1>2 DEF Types, Numbers
<1>4. \A f, e \in Writers : held'[f] = held'[e] /\ held'[f] # 0 => f = e
  BY <1>1, <1>2 DEF Types, Numbers, SequenceHasNoGaps, Writers
<1> DEFINE taken == {held[f] : f \in Writers} \ {0}
<1>5. taken' = taken \cup {seq + 1}
  BY <1>2 DEF Types
<1>6. written' \cap taken' = {}
  <2>1. seq + 1 \notin written /\ written \cap taken = {}
    BY DEF Types, Numbers, SequenceHasNoGaps, Writers
  <2> QED
    BY <1>5, <2>1
<1>7. writable' => 1..seq' = written' \cup taken'
  <2>1. writable => 1..seq = written \cup taken
    BY DEF Numbers, SequenceHasNoGaps, Writers
  <2>2. 1..(seq + 1) = 1..seq \cup {seq + 1}
    BY DEF Types
  <2> HIDE DEF taken
  <2> QED
    BY <1>1, <1>5, <2>1, <2>2
<1> QED
  BY <1>3, <1>4, <1>6, <1>7 DEF Numbers, SequenceHasNoGaps, Writers

LEMMA WriteKeepsNumbers ==
  ASSUME Types, Numbers, NEW g \in Writers, held[g] # 0, WriteHeld(g), UNCHANGED <<seq, writable>>
  PROVE  Numbers'
<1> DEFINE taken == {held[f] : f \in Writers} \ {0}
<1>1. held' = [held EXCEPT ![g] = 0] /\ written' \in {written, written \cup {held[g]}}
      /\ (writable => written' = written \cup {held[g]})
  BY DEF WriteHeld
<1>2. held'[g] = 0 /\ \A f \in Writers \ {g} : held'[f] = held[f]
  BY <1>1 DEF Types
<1>3. \A f, e \in Writers : held[f] = held[e] /\ held[f] # 0 => f = e
  BY DEF Numbers, SequenceHasNoGaps, Writers
<1>4. written' \subseteq 1..seq' /\ \A f \in Writers : held'[f] <= seq'
  BY <1>1, <1>2 DEF Types, Numbers
<1>5. taken' = taken \ {held[g]}
  BY <1>2, <1>3
<1>6. written \cap taken = {} /\ (writable => 1..seq = written \cup taken)
  BY DEF Numbers, SequenceHasNoGaps, Writers
<1>7. held[g] \in taken
  OBVIOUS
<1>8. \A f, e \in Writers : held'[f] = held'[e] /\ held'[f] # 0 => f = e
  BY <1>2, <1>3
<1>9. written' \cap taken' = {} /\ (writable' => 1..seq' = written' \cup taken')
  <2> HIDE DEF taken
  <2> QED
    BY <1>1, <1>5, <1>6, <1>7
<1> QED
  BY <1>4, <1>8, <1>9 DEF Numbers, SequenceHasNoGaps, Writers

\* A step that neither draws nor writes may at most break the connection.
LEMMA OthersKeepNumbers ==
  ASSUME Numbers, UNCHANGED <<seq, held, written>>, writable' => writable
  PROVE  Numbers'
  BY DEF Numbers, SequenceHasNoGaps

-----------------------------------------------------------------------------
(* The runs that chat.abort can find. *)

LEMMA InitInv == Init => IInv
<1> SUFFICES ASSUME Init PROVE IInv
  OBVIOUS
<1>1. Types /\ Acknowledging /\ ActiveRunsAreRunning /\ InHand
  BY DEF Init, Types, Writers, Labels, Acknowledging, ActiveRunsAreRunning, InHand
<1>2. \A g \in Writers : held[g] = 0
  BY DEF Init, Writers
<1>3. Numbers
  BY <1>2 DEF Init, Numbers, SequenceHasNoGaps, Writers
<1> QED
  BY <1>1, <1>3 DEF IInv

LEMMA LoopStep ==
  ASSUME IInv, Loop
  PROVE  IInv'
<1>1. UNCHANGED <<seq, held, written, writable>>
  BY DEF Loop, ChatSend, Accept, AcceptFails, AbortFind, AbortCancel, Connect, Unauthenticated,
         ReadFails, seqVars, connVars
<1>2. Numbers'
  BY <1>1, OthersKeepNumbers DEF IInv
<1>3. ASSUME NEW r \in Runs, NEW k \in Kinds, ChatSend(r, k) PROVE IInv'
  <2>1. UNCHANGED h /\ h[r] = "off" /\ loop = "read" /\ loop' = "accept" /\ loopRun' = r
        /\ active' = active \cup {r}
    BY <1>3 DEF ChatSend
  <2> QED
    BY <1>1, <1>2, <2>1 DEF IInv, Types, Acknowledging, ActiveRunsAreRunning, InHand
<1>4. ASSUME NEW r \in Runs, Accept(r) PROVE IInv'
  <2>1. h' = [h EXCEPT ![r] = "prepare"] /\ loop = "accept" /\ loopRun = r /\ loop' = "read"
        /\ UNCHANGED active /\ h[r] = "off"
    BY <1>4 DEF IInv, Acknowledging, Accept
  <2>2. Types' /\ Acknowledging' /\ InHand'
    BY <1>1, <2>1 DEF IInv, Types, Labels, Acknowledging, InHand
  <2>3. ActiveRunsAreRunning'
    BY <2>1 DEF IInv, Types, Labels, ActiveRunsAreRunning
  <2> QED
    BY <1>2, <2>2, <2>3 DEF IInv
<1>5. ASSUME NEW r \in Runs, AcceptFails(r) PROVE IInv'
  <2>1. UNCHANGED h /\ loop = "accept" /\ loopRun = r /\ loop' = "done"
        /\ active' = active \ {r} /\ h[r] = "off"
    BY <1>5 DEF IInv, Acknowledging, AcceptFails
  <2> QED
    BY <1>1, <1>2, <2>1 DEF IInv, Types, Acknowledging, ActiveRunsAreRunning, InHand
<1>6. ASSUME UNCHANGED <<h, active>>, loop # "accept", loop' \in {"read", "abort", "done"}
      PROVE  IInv'
  BY <1>1, <1>2, <1>6 DEF IInv, Types, Acknowledging, ActiveRunsAreRunning, InHand
<1> QED
  BY <1>3, <1>4, <1>5, <1>6
     DEF Loop, AbortFind, AbortCancel, Connect, Unauthenticated, ReadFails

\* Steps of the connection and of the runtime leave the runs and the loop alone.
LEMMA QuietStep ==
  ASSUME IInv, PeerGone \/ Tick \/ TickWrite \/ \E r \in Runs : Runtime(r)
  PROVE  IInv'
<1>1. UNCHANGED <<h, active, loop, loopRun>>
  BY DEF PeerGone, Tick, TickWrite, Runtime, RtPush, RtBegin, RtSlow, RtWork, loopVars
<1>2. Acknowledging' /\ ActiveRunsAreRunning'
  BY <1>1 DEF IInv, Acknowledging, ActiveRunsAreRunning
<1>3. Ticker \in Writers /\ Ticker \notin Runs
  BY GatewayAssumption DEF Writers
<1>4. CASE Tick
  <2>1. held[Ticker] = 0 /\ Draw(Ticker) /\ UNCHANGED <<written, writable>>
    BY <1>4 DEF Tick, connVars
  <2>2. Numbers'
    BY <1>3, <2>1, DrawKeepsNumbers DEF IInv
  <2>3. Types' /\ InHand'
    BY <1>1, <1>3, <2>1 DEF IInv, Types, Writers, InHand, Draw
  <2> QED
    BY <1>2, <2>2, <2>3 DEF IInv
<1>5. CASE TickWrite
  <2>1. held[Ticker] # 0 /\ WriteHeld(Ticker) /\ UNCHANGED <<seq, writable>>
    BY <1>5 DEF TickWrite
  <2>2. Numbers'
    BY <1>3, <2>1, WriteKeepsNumbers DEF IInv
  <2>3. Types' /\ InHand'
    BY <1>1, <1>3, <2>1 DEF IInv, Types, Writers, InHand, WriteHeld
  <2> QED
    BY <1>2, <2>2, <2>3 DEF IInv
<1>6. CASE PeerGone \/ \E r \in Runs : Runtime(r)
  <2>1. UNCHANGED <<seq, held, written>> /\ (writable' => writable)
    BY <1>6 DEF PeerGone, Runtime, RtPush, RtBegin, RtSlow, RtWork, connVars, seqVars
  <2>2. Numbers'
    BY <2>1, OthersKeepNumbers DEF IInv
  <2>3. Types' /\ InHand'
    BY <1>1, <2>1 DEF IInv, Types, InHand
  <2> QED
    BY <1>2, <2>2, <2>3 DEF IInv
<1> QED
  BY <1>4, <1>5, <1>6

LEMMA HandlerStep ==
  ASSUME IInv, NEW r \in Runs, Handler(r)
  PROVE  IInv'
<1>1. UNCHANGED <<loop, loopRun, writable>> /\ h[r] \notin {"off", "done"} /\ r \in Writers
      /\ \E label \in Labels \ {"off"} :
           /\ h' = [h EXCEPT ![r] = label]
           /\ active' = IF label = "done" THEN active \ {r} ELSE active
  BY DEF Handler, HPrepare, HPrepareFails, HRecv, HObserve, HSend, HSendFails, HAppend, HAppendFails,
         HEnd, HReport, HErr, HGoto, Labels, Writers, loopVars, connVars
<1>2. Acknowledging' /\ ActiveRunsAreRunning'
  <2>1. PICK label \in Labels \ {"off"} :
          /\ h' = [h EXCEPT ![r] = label]
          /\ active' = IF label = "done" THEN active \ {r} ELSE active
    BY <1>1
  <2>2. loop = "accept" => loopRun # r
    BY <1>1 DEF IInv, Acknowledging
  <2>3. Acknowledging'
    BY <1>1, <2>1, <2>2 DEF IInv, Types, Acknowledging
  <2>4. ActiveRunsAreRunning'
    BY <1>1, <2>1, <2>2 DEF IInv, Types, Labels, ActiveRunsAreRunning
  <2> QED
    BY <2>3, <2>4
<1>3. CASE HPrepareFails(r) \/ HRecv(r) \/ HSendFails(r) \/ HAppendFails(r)
  <2>1. /\ Draw(r) /\ UNCHANGED written
        /\ h[r] \notin {"observe", "report"}
        /\ h' = [h EXCEPT ![r] = h'[r]] /\ h'[r] \in {"observe", "report"}
    BY <1>3 DEF IInv, Types, HPrepareFails, HRecv, HSendFails, HAppendFails, HErr, HGoto
  <2>2. held[r] = 0
    BY <2>1 DEF IInv, InHand
  <2>3. Numbers'
    BY <1>1, <2>1, <2>2, DrawKeepsNumbers DEF IInv
  <2>4. Types' /\ InHand'
    BY <1>1, <2>1 DEF IInv, Types, Labels, InHand, Draw, Writers
  <2> QED
    BY <1>2, <2>3, <2>4 DEF IInv
<1>4. CASE HObserve(r) \/ HReport(r)
  <2>1. /\ WriteHeld(r) /\ UNCHANGED seq
        /\ h[r] \in {"observe", "report"}
        /\ h' = [h EXCEPT ![r] = h'[r]] /\ h'[r] \in {"recv", "hub", "done"}
    BY <1>4 DEF IInv, Types, HObserve, HReport, HGoto
  <2>2. held[r] # 0
    BY <2>1 DEF IInv, InHand
  <2>3. Numbers'
    BY <1>1, <2>1, <2>2, WriteKeepsNumbers DEF IInv
  <2>4. Types' /\ InHand'
    BY <1>1, <2>1 DEF IInv, Types, Labels, InHand, WriteHeld, Writers
  <2> QED
    BY <1>2, <2>3, <2>4 DEF IInv
<1>5. CASE HPrepare(r) \/ HSend(r) \/ HAppend(r) \/ HEnd(r)
  <2>1. /\ UNCHANGED <<seq, held, written>>
        /\ h[r] \notin {"observe", "report"}
        /\ h' = [h EXCEPT ![r] = h'[r]] /\ h'[r] \in {"recv", "append", "done"}
    BY <1>5 DEF IInv, Types, HPrepare, HSend, HAppend, HEnd, HGoto, seqVars
  <2>2. Numbers'
    BY <1>1, <2>1, OthersKeepNumbers DEF IInv
  <2>3. Types' /\ InHand'
    BY <2>1, <1>1 DEF IInv, Types, Labels, InHand
  <2> QED
    BY <1>2, <2>2, <2>3 DEF IInv
<1> QED
  BY <1>3, <1>4, <1>5 DEF Handler

LEMMA Invariance == Spec => []IInv
<1>1. IInv /\ [Next]_vars => IInv'
  <2> SUFFICES ASSUME IInv, [Next]_vars PROVE IInv'
    OBVIOUS
  <2>1. CASE UNCHANGED vars
    BY <2>1 DEF IInv, Types, Acknowledging, ActiveRunsAreRunning, InHand, Numbers,
                SequenceHasNoGaps, vars
  <2>2. CASE Next
    BY <2>2, LoopStep, QuietStep, HandlerStep DEF Next
  <2> QED
    BY <2>1, <2>2
<1> QED
  BY InitInv, <1>1, PTL DEF Spec

(***************************************************************************)
(* activeRuns holds exactly the runs that are being acknowledged or        *)
(* handled, so chat.abort neither misses a run nor finds one that is over. *)
(***************************************************************************)
THEOREM AbortFindsWhatRuns == Spec => []ActiveRunsAreRunning
<1>1. IInv => ActiveRunsAreRunning
  BY DEF IInv
<1> QED
  BY <1>1, Invariance, PTL

(***************************************************************************)
(* However many runs and ticks draw numbers before they take writeMu, each *)
(* number is used once and none gets lost while the connection lasts.      *)
(***************************************************************************)
THEOREM NumbersHaveNoGaps == Spec => []SequenceHasNoGaps
<1>1. IInv => SequenceHasNoGaps
  BY DEF IInv, Numbers
<1> QED
  BY <1>1, Invariance, PTL

-----------------------------------------------------------------------------
(* What the client sees of a run. *)

\* An event the runtime has made is in todo, then in the channel, then taken.
Taken(r) == Len(made[r]) - Len(todo[r]) - Len(chan[r])
Told(r)  == IF h[r] = "observe" THEN Taken(r) - 1 ELSE Taken(r)

StreamTypes ==
  /\ h \in [Runs -> Labels]
  /\ rt \in [Runs -> {"off", "begin", "slow", "tool", "generate", "ended"}]
  /\ made \in [Runs -> Seq(Events)] /\ todo \in [Runs -> Seq(Events)]
  /\ chan \in [Runs -> Seq(Events)] /\ hand \in [Runs -> Events]
  /\ frames \in [Runs -> Seq(Frames)]

\* Nothing is lost or reordered on the way.
Pipe(r) ==
  /\ Taken(r) >= 0
  /\ \A i \in 1..Len(todo[r]) : todo[r][i] = made[r][Taken(r) + Len(chan[r]) + i]
  /\ \A i \in 1..Len(chan[r]) : chan[r][i] = made[r][Taken(r) + i]
  /\ h[r] = "observe" => Taken(r) > 0 /\ hand[r] = made[r][Taken(r)]

\* Where the two goroutines of a run are, together.
Places(r) ==
  /\ h[r] \in {"off", "prepare"} => rt[r] = "off"
  /\ rt[r] = "off" => made[r] = <<>>
  /\ rt[r] = "ended" => made[r] # <<>> /\ made[r][Len(made[r])].kind = "final"
  /\ h[r] = "report" => r \in failed
  /\ r \in failed => h[r] \in {"report", "done"}
  /\ h[r] = "done" /\ r \notin failed => rt[r] = "ended" /\ Taken(r) = Len(made[r])

\* The frames are what was told, all of it as long as writes succeed.
Stream(r) ==
  /\ h[r] = "off" => frames[r] = <<>>
  /\ h[r] # "off" => frames[r] # <<>> /\ frames[r][1].kind = "accepted"
  /\ \A i \in 1..Len(frames[r]) :
       frames[r][i].kind = "error" => i = Len(frames[r]) /\ r \in failed /\ h[r] = "done"
  /\ \A i \in 2..Len(frames[r]) :
       frames[r][i].kind # "error" =>
         i - 1 <= Told(r) /\ frames[r][i] = Frame(made[r][i - 1].kind, made[r][i - 1].aborted)
  /\ writable /\ h[r] # "off" =>
       IF h[r] = "done" /\ r \in failed THEN LastFrame(r).kind = "error"
       ELSE Len(frames[r]) = Told(r) + 1

StreamInv == StreamTypes /\ \A r \in Runs : Pipe(r) /\ Places(r) /\ Stream(r)

\* All that StreamInv says of a run depends on.
RunVars(r) ==
  <<h[r], rt[r], made[r], todo[r], chan[r], hand[r], frames[r], r \in failed>>

LEMMA SameRun ==
  ASSUME NEW r \in Runs, Pipe(r), Places(r), Stream(r), RunVars(r)' = RunVars(r),
         writable' => writable
  PROVE  Pipe(r)' /\ Places(r)' /\ Stream(r)'
<1>1. /\ h'[r] = h[r] /\ rt'[r] = rt[r] /\ made'[r] = made[r] /\ todo'[r] = todo[r]
      /\ chan'[r] = chan[r] /\ hand'[r] = hand[r] /\ frames'[r] = frames[r]
      /\ (r \in failed' <=> r \in failed)
  BY DEF RunVars
<1>2. Taken(r)' = Taken(r) /\ Told(r)' = Told(r) /\ LastFrame(r)' = LastFrame(r)
  BY <1>1 DEF Taken, Told, LastFrame
<1> QED
  BY <1>1, <1>2 DEF Pipe, Places, Stream

\* It is enough to look at the run that takes the step.
LEMMA OneRun ==
  ASSUME StreamInv, StreamTypes', writable' => writable, NEW r \in Runs,
         \A q \in Runs \ {r} : RunVars(q)' = RunVars(q),
         Pipe(r)' /\ Places(r)' /\ Stream(r)'
  PROVE  StreamInv'
<1>1. \A q \in Runs \ {r} : Pipe(q)' /\ Places(q)' /\ Stream(q)'
  BY SameRun DEF StreamInv
<1> QED
  BY <1>1 DEF StreamInv

LEMMA LengthFacts ==
  ASSUME StreamTypes, NEW r \in Runs
  PROVE  /\ Len(made[r]) \in Nat /\ Len(todo[r]) \in Nat /\ Len(chan[r]) \in Nat
         /\ Len(frames[r]) \in Nat /\ Taken(r) \in Int /\ Told(r) \in Int
  BY DEF StreamTypes, Taken, Told

\* The runtime makes events es and goes on.
LEMMA ProduceStep ==
  ASSUME StreamInv, NEW r \in Runs, NEW es \in Seq(Events), NEW label,
         RtIdle(r, rt[r]), rt[r] \notin {"off", "ended"},
         label \in {"slow", "tool", "generate", "ended"},
         label = "ended" => es # <<>> /\ es[Len(es)].kind = "final",
         Produce(r, es, label), UNCHANGED <<h, chan, hand, failed, frames, writable>>
  PROVE  StreamInv'
<1>1. /\ todo[r] = <<>> /\ todo' = [todo EXCEPT ![r] = es] /\ rt' = [rt EXCEPT ![r] = label]
      /\ made' = [made EXCEPT ![r] = @ \o es]
  BY DEF RtIdle, Produce
<1>2. StreamTypes'
  BY <1>1 DEF StreamInv, StreamTypes
<1>3. \A q \in Runs \ {r} : RunVars(q)' = RunVars(q)
  BY <1>1 DEF StreamInv, StreamTypes, RunVars
<1>4. /\ todo'[r] = es /\ rt'[r] = label /\ made'[r] = made[r] \o es
      /\ made[r] \in Seq(Events) /\ Len(todo[r]) = 0 /\ Len(es) \in Nat
  BY <1>1 DEF StreamInv, StreamTypes
<1>5. /\ Len(made'[r]) = Len(made[r]) + Len(es)
      /\ \A i \in 1..Len(made[r]) : made'[r][i] = made[r][i]
      /\ \A i \in 1..Len(es) : made'[r][Len(made[r]) + i] = es[i]
  BY <1>4
<1>0. /\ StreamTypes /\ Pipe(r) /\ Places(r) /\ Stream(r)
      /\ Len(made[r]) \in Nat /\ Len(chan[r]) \in Nat /\ Len(frames[r]) \in Nat
      /\ Taken(r) \in Int /\ Told(r) \in Int
  BY LengthFacts DEF StreamInv
<1>6. Taken(r)' = Taken(r) /\ Told(r)' = Told(r) /\ LastFrame(r)' = LastFrame(r)
      /\ Taken(r) + Len(chan[r]) = Len(made[r])
  BY <1>0, <1>4, <1>5 DEF Taken, Told, LastFrame
<1>7. Pipe(r)'
  <2>1. \A i \in 1..Len(todo'[r]) : todo'[r][i] = made'[r][Taken(r)' + Len(chan'[r]) + i]
    BY <1>4, <1>5, <1>6
  <2>2. \A i \in 1..Len(chan'[r]) : chan'[r][i] = made'[r][Taken(r)' + i]
    <3> SUFFICES ASSUME NEW i \in 1..Len(chan[r]) PROVE chan[r][i] = made'[r][Taken(r) + i]
      BY <1>6
    <3>1. chan[r][i] = made[r][Taken(r) + i] /\ Taken(r) + i \in 1..Len(made[r])
      BY <1>0, <1>6 DEF Pipe
    <3> QED
      BY <1>5, <3>1
  <2>3. h'[r] = "observe" => Taken(r)' > 0 /\ hand'[r] = made'[r][Taken(r)']
    <3>1. Taken(r) > 0 => Taken(r) \in 1..Len(made[r])
      BY <1>0, <1>6
    <3>2. h'[r] = h[r] /\ hand'[r] = hand[r]
      OBVIOUS
    <3> QED
      BY <1>0, <1>5, <1>6, <3>1, <3>2 DEF Pipe
  <2> QED
    BY <1>0, <1>6, <2>1, <2>2, <2>3 DEF Pipe
<1>8. Places(r)'
  BY <1>0, <1>4, <1>5 DEF Places
<1>9. Stream(r)'
  <2>1. Told(r) <= Len(made[r])
    BY <1>0, <1>6 DEF Told
  <2>2. \A i \in 2..Len(frames[r]) : i - 1 <= Told(r) => made'[r][i - 1] = made[r][i - 1]
    <3> SUFFICES ASSUME NEW i \in 2..Len(frames[r]), i - 1 <= Told(r)
                 PROVE  made'[r][i - 1] = made[r][i - 1]
      OBVIOUS
    <3>1. i - 1 \in 1..Len(made[r])
      BY <1>0, <2>1
    <3> QED
      BY <1>5, <3>1
  <2> QED
    BY <1>0, <1>6, <2>2 DEF Stream
<1> QED
  BY <1>2, <1>3, <1>7, <1>8, <1>9, OneRun

\* Moving the head of one sequence to the end of another.
LEMMA HeadToEnd ==
  ASSUME NEW S, NEW s \in Seq(S), s # <<>>, NEW t \in Seq(S)
  PROVE  /\ Tail(s) \in Seq(S) /\ Head(s) \in S /\ Head(s) = s[1]
         /\ Len(s) \in Nat /\ Len(s) > 0 /\ Len(Tail(s)) = Len(s) - 1
         /\ \A i \in 1..(Len(s) - 1) : Tail(s)[i] = s[i + 1]
         /\ Append(t, Head(s)) \in Seq(S) /\ Len(t) \in Nat
         /\ Len(Append(t, Head(s))) = Len(t) + 1
         /\ \A i \in 1..Len(t) : Append(t, Head(s))[i] = t[i]
         /\ Append(t, Head(s))[Len(t) + 1] = s[1]
<1>1. /\ Tail(s) \in Seq(S) /\ Head(s) \in S /\ Head(s) = s[1]
      /\ Len(s) \in Nat /\ Len(s) > 0 /\ Len(Tail(s)) = Len(s) - 1
      /\ \A i \in 1..(Len(s) - 1) : Tail(s)[i] = s[i + 1]
  OBVIOUS
<1>2. ASSUME NEW e \in S
      PROVE  /\ Append(t, e) \in Seq(S) /\ Len(t) \in Nat
             /\ Len(Append(t, e)) = Len(t) + 1
             /\ \A i \in 1..Len(t) : Append(t, e)[i] = t[i]
             /\ Append(t, e)[Len(t) + 1] = e
  OBVIOUS
<1> QED
  BY <1>1, <1>2

LEMMA RuntimeStream ==
  ASSUME StreamInv, NEW r \in Runs, Runtime(r)
  PROVE  StreamInv'
<1>0. /\ StreamTypes /\ Pipe(r) /\ Places(r) /\ Stream(r)
      /\ Len(made[r]) \in Nat /\ Len(chan[r]) \in Nat /\ Len(todo[r]) \in Nat
      /\ Taken(r) \in Int
  BY LengthFacts DEF StreamInv
<1>1. UNCHANGED <<h, hand, failed, frames, writable>>
  BY DEF Runtime, RtPush, RtBegin, RtSlow, RtWork, connVars
<1>2. Final \in Events /\ Aborted \in Events /\ Final.kind = "final" /\ Aborted.kind = "final"
      /\ \A b \in BOOLEAN : /\ Event("tool", FALSE, b) \in Events
                            /\ Event("block", FALSE, b) \in Events
                            /\ Event("final", FALSE, b) \in Events
                            /\ Event("final", FALSE, b).kind = "final"
  BY DEF Events, Event, Final, Aborted
<1>3. CASE RtPush(r)
  <2>1. /\ todo[r] # <<>> /\ chan' = [chan EXCEPT ![r] = Append(@, Head(todo[r]))]
        /\ todo' = [todo EXCEPT ![r] = Tail(@)] /\ UNCHANGED <<rt, made>>
    BY <1>3 DEF RtPush
  <2>2. /\ chan'[r] = Append(chan[r], Head(todo[r])) /\ todo'[r] = Tail(todo[r])
        /\ todo[r] \in Seq(Events) /\ chan[r] \in Seq(Events)
    BY <1>0, <2>1 DEF StreamTypes
  <2>3. /\ Len(chan'[r]) = Len(chan[r]) + 1 /\ Len(todo'[r]) = Len(todo[r]) - 1
        /\ Len(todo[r]) > 0 /\ Head(todo[r]) = todo[r][1]
        /\ \A i \in 1..Len(chan[r]) : chan'[r][i] = chan[r][i]
        /\ chan'[r][Len(chan[r]) + 1] = todo[r][1]
        /\ \A i \in 1..(Len(todo[r]) - 1) : todo'[r][i] = todo[r][i + 1]
    <3> DEFINE t == todo[r]
               c == chan[r]
    <3>1. t \in Seq(Events) /\ t # <<>> /\ c \in Seq(Events)
      BY <2>1, <2>2
    <3> HIDE DEF t, c
    <3>2. /\ Len(t) > 0 /\ Len(Tail(t)) = Len(t) - 1 /\ Head(t) = t[1]
          /\ \A i \in 1..(Len(t) - 1) : Tail(t)[i] = t[i + 1]
          /\ Len(Append(c, Head(t))) = Len(c) + 1
          /\ \A i \in 1..Len(c) : Append(c, Head(t))[i] = c[i]
          /\ Append(c, Head(t))[Len(c) + 1] = t[1]
      BY <3>1, HeadToEnd
    <3>3. chan'[r] = Append(c, Head(t)) /\ todo'[r] = Tail(t) /\ t = todo[r] /\ c = chan[r]
      BY <2>2 DEF t, c
    <3> QED
      BY ONLY <3>2, <3>3
  <2>4. StreamTypes'
    <3>1. Head(todo[r]) \in Events /\ Tail(todo[r]) \in Seq(Events)
      BY <2>1, <2>2
    <3> QED
      BY <1>0, <1>1, <2>1, <3>1 DEF StreamTypes
  <2>a. Len(todo[r]) > 0 /\ Len(chan'[r]) = Len(chan[r]) + 1 /\ Len(todo'[r]) = Len(todo[r]) - 1
        /\ made' = made /\ h' = h /\ frames' = frames
    BY <1>1, <2>1, <2>3
  <2>b. Taken(r)' = Taken(r)
    BY <1>0, <2>a DEF Taken
  <2>5. Taken(r)' = Taken(r) /\ Told(r)' = Told(r) /\ LastFrame(r)' = LastFrame(r)
    BY <2>a, <2>b DEF Told, LastFrame
  <2>6. Pipe(r)'
    <3>1. \A i \in 1..Len(todo'[r]) : todo'[r][i] = made'[r][Taken(r)' + Len(chan'[r]) + i]
      <4> SUFFICES ASSUME NEW i \in 1..(Len(todo[r]) - 1)
                   PROVE  todo[r][i + 1] = made[r][Taken(r) + (Len(chan[r]) + 1) + i]
        BY <2>1, <2>3, <2>5
      <4>1. i + 1 \in 1..Len(todo[r])
            /\ Taken(r) + (Len(chan[r]) + 1) + i = Taken(r) + Len(chan[r]) + (i + 1)
        BY <1>0
      <4> QED
        BY <1>0, <4>1 DEF Pipe
    <3>2. \A i \in 1..Len(chan'[r]) : chan'[r][i] = made'[r][Taken(r)' + i]
      <4>1. todo[r][1] = made[r][Taken(r) + Len(chan[r]) + 1]
        BY <1>0, <2>3 DEF Pipe
      <4>2. Taken(r) + Len(chan[r]) + 1 = Taken(r) + (Len(chan[r]) + 1)
        BY <1>0
      <4> QED
        <5> SUFFICES ASSUME NEW i \in 1..(Len(chan[r]) + 1)
                     PROVE  chan'[r][i] = made[r][Taken(r) + i]
          BY <2>a, <2>5
        <5>1. CASE i = Len(chan[r]) + 1
          BY ONLY <2>3, <4>1, <4>2, <5>1
        <5>2. CASE i \in 1..Len(chan[r])
          <6>1. chan'[r][i] = chan[r][i]
            BY <2>3, <5>2
          <6> QED
            BY <1>0, <5>2, <6>1 DEF Pipe
        <5> QED
          BY <1>0, <5>1, <5>2
    <3> QED
      BY <1>0, <1>1, <2>1, <2>5, <3>1, <3>2 DEF Pipe
  <2>7. Taken(r) # Len(made[r])
    <3>1. Len(made[r]) \in Nat /\ Len(chan[r]) \in Nat /\ Len(todo[r]) \in Nat /\ Len(todo[r]) > 0
      BY <1>0, <2>a
    <3>2. \A a, b, c \in Nat : b > 0 => a - b - c # a
      OBVIOUS
    <3>3. Len(made[r]) - Len(todo[r]) - Len(chan[r]) # Len(made[r])
      BY ONLY <3>1, <3>2
    <3> QED
      BY <3>3 DEF Taken
  <2>8. Places(r)' /\ Stream(r)'
    BY <1>0, <1>1, <2>1, <2>5, <2>7 DEF Places, Stream
  <2>9. \A q \in Runs \ {r} : RunVars(q)' = RunVars(q)
    BY <1>0, <1>1, <2>1 DEF RunVars, StreamTypes
  <2> QED
    BY <1>1, <2>4, <2>6, <2>8, <2>9, OneRun
<1>4. ASSUME NEW es, NEW label, RtIdle(r, rt[r]), rt[r] \notin {"off", "ended"},
             Produce(r, es, label), UNCHANGED chan,
             \/ es = <<>> /\ label \in {"slow", "tool", "generate"}
             \/ es = <<Event("block", FALSE, FALSE)>> /\ label = "slow"
             \/ es = <<Final>> /\ label = "ended"
             \/ es = <<Aborted>> /\ label = "ended"
             \/ es = <<Event("tool", FALSE, FALSE), Final>> /\ label = "ended"
             \/ es = <<Event("final", FALSE, TRUE)>> /\ label = "ended"
      PROVE  StreamInv'
  <2>1. es \in Seq(Events) /\ (label = "ended" => es # <<>> /\ es[Len(es)].kind = "final")
        /\ label \in {"slow", "tool", "generate", "ended"}
    <3>1. ASSUME NEW e \in Events, e.kind = "final", es = <<e>>
          PROVE  es \in Seq(Events) /\ es # <<>> /\ es[Len(es)].kind = "final"
      BY <3>1
    <3>2. ASSUME NEW e \in Events, es = <<e>> PROVE es \in Seq(Events)
      BY <3>2
    <3>3. ASSUME NEW e \in Events, NEW f \in Events, f.kind = "final", es = <<e, f>>
          PROVE  es \in Seq(Events) /\ es # <<>> /\ es[Len(es)].kind = "final"
      BY <3>3
    <3>4. es = <<>> => es \in Seq(Events)
      OBVIOUS
    <3> DEFINE block == Event("block", FALSE, FALSE)
               tool  == Event("tool", FALSE, FALSE)
               mute  == Event("final", FALSE, TRUE)
    <3>6. /\ block \in Events /\ tool \in Events /\ mute \in Events /\ mute.kind = "final"
          /\ \/ es = <<>> /\ label \in {"slow", "tool", "generate"}
             \/ es = <<block>> /\ label = "slow"
             \/ (es = <<Final>> \/ es = <<Aborted>> \/ es = <<tool, Final>> \/ es = <<mute>>)
                /\ label = "ended"
      BY <1>2, <1>4
    <3> HIDE DEF block, tool, mute
    <3>7. Final \in Events /\ Aborted \in Events /\ Final.kind = "final" /\ Aborted.kind = "final"
      BY <1>2
    <3>8. CASE es = <<>> /\ label \in {"slow", "tool", "generate"}
      BY <3>4, <3>8
    <3>9. CASE es = <<block>> /\ label = "slow"
      BY <3>2, <3>6, <3>9
    <3>10. CASE (es = <<Final>> \/ es = <<Aborted>> \/ es = <<tool, Final>> \/ es = <<mute>>)
                /\ label = "ended"
      BY <3>1, <3>3, <3>6, <3>7, <3>10
    <3> QED
      BY <3>6, <3>8, <3>9, <3>10
  <2> QED
    BY <1>1, <1>4, <2>1, ProduceStep
<1>5. CASE RtBegin(r)
  BY <1>4, <1>5 DEF RtBegin, RtIdle
<1>6. CASE RtSlow(r)
  BY <1>4, <1>6 DEF RtSlow, RtIdle
<1>7. CASE RtWork(r)
  BY <1>4, <1>7 DEF RtWork, RtIdle, ToolCallEvents
<1> QED
  BY <1>3, <1>5, <1>6, <1>7 DEF Runtime

\* A step that leaves all runs as they are.
LEMMA IdleStream ==
  ASSUME StreamInv, UNCHANGED <<h, rt, made, todo, chan, hand, frames, failed>>,
         writable' => writable
  PROVE  StreamInv'
<1>1. \A r \in Runs : RunVars(r)' = RunVars(r)
  BY DEF RunVars
<1>2. StreamTypes'
  BY DEF StreamInv, StreamTypes
<1> QED
  BY <1>1, <1>2, SameRun DEF StreamInv

LEMMA HandlerStream ==
  ASSUME StreamInv, NEW r \in Runs, Handler(r)
  PROVE  StreamInv'
<1>0. /\ StreamTypes /\ Pipe(r) /\ Places(r) /\ Stream(r)
      /\ Len(made[r]) \in Nat /\ Len(chan[r]) \in Nat /\ Len(todo[r]) \in Nat
      /\ Len(frames[r]) \in Nat /\ Taken(r) \in Int /\ Told(r) \in Int
  BY LengthFacts DEF StreamInv
<1>1. UNCHANGED <<made, todo, writable>>
  BY DEF Handler, HPrepare, HPrepareFails, HRecv, HObserve, HSend, HSendFails, HAppend,
         HAppendFails, HEnd, HReport, connVars, runtimeVars
<1>2. CASE HPrepare(r)
  <2>1. /\ h[r] = "prepare" /\ h' = [h EXCEPT ![r] = "recv"] /\ rt' = [rt EXCEPT ![r] = "begin"]
        /\ UNCHANGED <<chan, hand, failed, frames>>
    BY <1>2 DEF HPrepare, HGoto
  <2>2. h'[r] = "recv" /\ rt'[r] = "begin"
    BY <1>0, <2>1 DEF StreamTypes
  <2>3. Taken(r)' = Taken(r) /\ Told(r)' = Told(r) /\ LastFrame(r)' = LastFrame(r)
    BY <1>1, <2>1, <2>2 DEF Taken, Told, LastFrame
  <2>4. Pipe(r)' /\ Places(r)' /\ Stream(r)'
    BY <1>0, <1>1, <2>1, <2>2, <2>3 DEF Pipe, Places, Stream
  <2>5. StreamTypes' /\ \A q \in Runs \ {r} : RunVars(q)' = RunVars(q)
    BY <1>0, <1>1, <2>1 DEF StreamTypes, Labels, RunVars
  <2> QED
    BY <1>1, <2>4, <2>5, OneRun
<1>3. CASE HPrepareFails(r) \/ HSendFails(r) \/ HAppendFails(r)
  <2>1. /\ h[r] \in {"prepare", "hub", "append"} /\ h' = [h EXCEPT ![r] = "report"]
        /\ failed' = failed \cup {r}
        /\ UNCHANGED <<rt, chan, hand, frames>>
    BY <1>3 DEF HPrepareFails, HSendFails, HAppendFails, HErr, HGoto, runtimeVars
  <2>2. h'[r] = "report"
    BY <1>0, <2>1 DEF StreamTypes
  <2>3. Taken(r)' = Taken(r) /\ Told(r)' = Told(r) /\ LastFrame(r)' = LastFrame(r)
    BY <1>1, <2>1, <2>2 DEF Taken, Told, LastFrame
  <2>4. Pipe(r)' /\ Places(r)' /\ Stream(r)'
    BY <1>0, <1>1, <2>1, <2>2, <2>3 DEF Pipe, Places, Stream
  <2>5. StreamTypes' /\ \A q \in Runs \ {r} : RunVars(q)' = RunVars(q)
    BY <1>0, <1>1, <2>1 DEF StreamTypes, Labels, RunVars
  <2> QED
    BY <1>1, <2>4, <2>5, OneRun
<1>4. CASE HSend(r) \/ HAppend(r)
  <2>1. /\ h[r] \in {"hub", "append"}
        /\ h' = [h EXCEPT ![r] = h'[r]] /\ h'[r] \in {"append", "recv"}
        /\ UNCHANGED <<rt, chan, hand, failed, frames>>
    BY <1>0, <1>4 DEF HSend, HAppend, HGoto, runtimeVars, StreamTypes
  <2>3. Taken(r)' = Taken(r) /\ Told(r)' = Told(r) /\ LastFrame(r)' = LastFrame(r)
    BY <1>1, <2>1 DEF Taken, Told, LastFrame
  <2>4. Pipe(r)' /\ Places(r)' /\ Stream(r)'
    BY <1>0, <1>1, <2>1, <2>3 DEF Pipe, Places, Stream
  <2>5. StreamTypes' /\ \A q \in Runs \ {r} : RunVars(q)' = RunVars(q)
    BY <1>0, <1>1, <2>1 DEF StreamTypes, Labels, RunVars
  <2> QED
    BY <1>1, <2>4, <2>5, OneRun
<1>5. CASE HEnd(r)
  <2>1. /\ h[r] = "recv" /\ h' = [h EXCEPT ![r] = "done"] /\ rt[r] = "ended"
        /\ todo[r] = <<>> /\ chan[r] = <<>>
        /\ UNCHANGED <<rt, chan, hand, failed, frames>>
    BY <1>5 DEF HEnd, HGoto, RtIdle, runtimeVars
  <2>2. h'[r] = "done" /\ r \notin failed
    BY <1>0, <2>1 DEF StreamTypes, Places
  <2>3. Taken(r)' = Taken(r) /\ Told(r)' = Told(r) /\ LastFrame(r)' = LastFrame(r)
    BY <1>1, <2>1, <2>2 DEF Taken, Told, LastFrame
  <2>4. Taken(r) = Len(made[r])
    BY <1>0, <2>1 DEF Taken
  <2>5. Pipe(r)' /\ Places(r)' /\ Stream(r)'
    BY <1>0, <1>1, <2>1, <2>2, <2>3, <2>4 DEF Pipe, Places, Stream
  <2>6. StreamTypes' /\ \A q \in Runs \ {r} : RunVars(q)' = RunVars(q)
    BY <1>0, <1>1, <2>1 DEF StreamTypes, Labels, RunVars
  <2> QED
    BY <1>1, <2>5, <2>6, OneRun
<1>6. CASE HRecv(r)
  <2> DEFINE c == chan[r]
  <2>1. /\ h[r] = "recv" /\ h' = [h EXCEPT ![r] = "observe"] /\ c # <<>>
        /\ hand' = [hand EXCEPT ![r] = Head(c)] /\ chan' = [chan EXCEPT ![r] = Tail(c)]
        /\ UNCHANGED <<rt, failed, frames>>
    BY <1>6 DEF HRecv, HGoto, runtimeVars
  <2>2. c \in Seq(Events) /\ h'[r] = "observe" /\ hand'[r] = Head(c) /\ chan'[r] = Tail(c)
    BY <1>0, <2>1 DEF StreamTypes
  <2>3. c = chan[r] /\ \A k \in 1..Len(c) : c[k] = made[r][Taken(r) + k]
    BY <1>0 DEF Pipe
  <2> HIDE DEF c
  <2>4. /\ Tail(c) \in Seq(Events) /\ Head(c) \in Events /\ Head(c) = c[1]
        /\ Len(c) \in Nat /\ Len(c) > 0 /\ Len(Tail(c)) = Len(c) - 1
        /\ \A k \in 1..(Len(c) - 1) : Tail(c)[k] = c[k + 1]
    BY <2>1, <2>2, HeadToEnd
  <2>5. Taken(r)' = Taken(r) + 1
    <3>1. Len(made'[r]) = Len(made[r]) /\ Len(todo'[r]) = Len(todo[r])
          /\ Len(chan'[r]) = Len(chan[r]) - 1
      BY <1>1, <2>2, <2>3, <2>4
    <3> QED
      BY <1>0, <3>1 DEF Taken
  <2>6. Told(r)' = Told(r) /\ LastFrame(r)' = LastFrame(r)
    BY <1>0, <2>1, <2>2, <2>5 DEF Told, LastFrame
  <2>7. Pipe(r)'
    <3>1. Taken(r) >= 0
          /\ \A k \in 1..Len(todo[r]) : todo[r][k] = made[r][Taken(r) + Len(chan[r]) + k]
      BY <1>0 DEF Pipe
    <3>2. Taken(r) + Len(chan[r]) = Taken(r)' + Len(chan'[r])
      BY <1>0, <2>2, <2>3, <2>4, <2>5
    <3>3. \A k \in 1..Len(chan'[r]) : chan'[r][k] = made'[r][Taken(r)' + k]
      <4> SUFFICES ASSUME NEW k \in 1..(Len(c) - 1) PROVE c[k + 1] = made[r][Taken(r) + 1 + k]
        BY <1>1, <2>2, <2>4, <2>5
      <4>1. k + 1 \in 1..Len(c) /\ Taken(r) + 1 + k = Taken(r) + (k + 1)
        BY <1>0, <2>4
      <4> QED
        BY <2>3, <4>1
    <3>4. hand'[r] = made'[r][Taken(r)']
      BY <1>1, <2>2, <2>3, <2>4, <2>5
    <3>5. Taken(r)' > 0
      BY <1>0, <2>5, <3>1
    <3>6. \A k \in 1..Len(todo'[r]) : todo'[r][k] = made'[r][Taken(r)' + Len(chan'[r]) + k]
      <4>1. made'[r] = made[r] /\ todo'[r] = todo[r]
        BY <1>1
      <4> QED
        BY ONLY <3>1, <3>2, <4>1
    <3>7. Taken(r)' >= 0
      BY <1>0, <2>5, <3>1
    <3> QED
      BY ONLY <3>3, <3>4, <3>5, <3>6, <3>7 DEF Pipe
  <2>8. Places(r)' /\ Stream(r)'
    BY <1>0, <1>1, <2>1, <2>2, <2>6 DEF Places, Stream
  <2>9. StreamTypes' /\ \A q \in Runs \ {r} : RunVars(q)' = RunVars(q)
    BY <1>0, <1>1, <2>1, <2>4 DEF StreamTypes, Labels, RunVars
  <2> QED
    BY <1>1, <2>7, <2>8, <2>9, OneRun
<1>7. CASE HObserve(r)
  <2> DEFINE frame == Frame(hand[r].kind, hand[r].aborted)
  <2>1. /\ h[r] = "observe" /\ h' = [h EXCEPT ![r] = h'[r]] /\ h'[r] \in {"recv", "hub"}
        /\ frames' = IF writable THEN [frames EXCEPT ![r] = Append(@, frame)] ELSE frames
        /\ UNCHANGED <<rt, chan, hand, failed>>
    BY <1>0, <1>7 DEF HObserve, HGoto, runtimeVars, StreamTypes
  <2>2. frame \in Frames /\ frame.kind # "error" /\ hand[r] = made[r][Taken(r)] /\ Taken(r) > 0
    BY <1>0, <2>1 DEF StreamTypes, Events, Frame, Frames, Pipe
  <2>3. Taken(r)' = Taken(r) /\ Told(r)' = Told(r) + 1 /\ Told(r) + 1 = Taken(r)
    <3>1. Taken(r)' = Taken(r)
      BY <1>1, <2>1 DEF Taken
    <3>2. Told(r)' = Taken(r)' /\ Told(r) = Taken(r) - 1
      BY <2>1 DEF Told
    <3> QED
      BY <1>0, <3>1, <3>2
  <2>4. frame = Frame(made[r][Taken(r)].kind, made[r][Taken(r)].aborted)
    BY <2>2
  <2> HIDE DEF frame
  <2>5. Pipe(r)' /\ Places(r)'
    BY <1>0, <1>1, <2>1, <2>3 DEF Pipe, Places
  <2>6. StreamTypes' /\ \A q \in Runs \ {r} : RunVars(q)' = RunVars(q)
    <3>1. frames \in [Runs -> Seq(Frames)] /\ Append(frames[r], frame) \in Seq(Frames)
      BY <1>0, <2>2 DEF StreamTypes
    <3>2. frames' \in [Runs -> Seq(Frames)] /\ \A q \in Runs \ {r} : frames'[q] = frames[q]
      BY <2>1, <3>1
    <3>3. h' \in [Runs -> Labels] /\ \A q \in Runs \ {r} : h'[q] = h[q]
      BY <1>0, <2>1 DEF StreamTypes, Labels
    <3> QED
      BY <1>0, <1>1, <2>1, <3>2, <3>3 DEF StreamTypes, RunVars
  <2>7. Stream(r)'
    <3> DEFINE n == Len(frames[r])
    <3>0. r \notin failed /\ frames[r] # <<>> /\ n > 0 /\ frames[r] \in Seq(Frames)
      BY <1>0, <2>1 DEF Places, Stream, StreamTypes
    <3>1. CASE ~writable
      <4>1. /\ frames'[r] = frames[r] /\ made'[r] = made[r] /\ failed' = failed /\ ~writable'
            /\ h'[r] \notin {"off", "done"} /\ Told(r) <= Told(r)'
        BY <1>0, <1>1, <2>1, <2>3, <3>1
      <4>2. \A i \in 1..n : frames[r][i].kind # "error"
        BY <1>0, <2>1 DEF Stream
      <4>3. frames[r][1].kind = "accepted"
        BY <1>0, <2>1 DEF Stream
      <4>4. \A i \in 2..n : i - 1 <= Told(r)'
                            /\ frames[r][i] = Frame(made[r][i - 1].kind, made[r][i - 1].aborted)
        <5> SUFFICES ASSUME NEW i \in 2..n
                     PROVE  i - 1 <= Told(r) + 1
                            /\ frames[r][i] = Frame(made[r][i - 1].kind, made[r][i - 1].aborted)
          BY <2>3
        <5>1. frames[r][i].kind # "error"
          BY <1>0, <4>2
        <5> QED
          BY <1>0, <5>1 DEF Stream
      <4> QED
        BY <3>0, <4>1, <4>2, <4>3, <4>4 DEF Stream
    <3>2. CASE writable
      <4>1. /\ frames'[r] = Append(frames[r], frame) /\ Len(frames'[r]) = n + 1
            /\ \A i \in 1..n : frames'[r][i] = frames[r][i]
            /\ frames'[r][n + 1] = frame
        BY <1>0, <2>1, <2>2, <3>0, <3>2 DEF StreamTypes
      <4>2. n = Told(r) + 1 /\ frames[r][1].kind = "accepted" /\ h'[r] \notin {"off", "done"}
        BY <1>0, <2>1, <3>2 DEF Stream
      <4>3. \A i \in 1..n : frames[r][i].kind # "error"
        BY <1>0, <2>1 DEF Stream
      <4>4. \A i \in 2..n : i - 1 <= Told(r)
                            /\ frames[r][i] = Frame(made[r][i - 1].kind, made[r][i - 1].aborted)
        BY <4>3 , <1>0 DEF Stream
      <4> HIDE DEF n
      <4>5. n \in Nat
        BY <1>0 DEF n
      <4>6. \A i \in 1..(n + 1) : frames'[r][i].kind # "error"
        BY <2>2, <4>1, <4>3, <4>5
      <4>7. \A i \in 2..(n + 1) :
              i - 1 <= Told(r)' /\ frames'[r][i] = Frame(made[r][i - 1].kind, made[r][i - 1].aborted)
        <5> SUFFICES ASSUME NEW i \in 2..(n + 1)
                     PROVE  i - 1 <= Told(r) + 1
                            /\ frames'[r][i] = Frame(made[r][i - 1].kind, made[r][i - 1].aborted)
          BY <2>3
        <5>1. CASE i = n + 1
          BY <1>0, <2>3, <2>4, <4>1, <4>2, <4>5, <5>1
        <5>2. CASE i # n + 1
          BY <1>0, <4>1, <4>4, <4>5, <5>2
        <5> QED
          BY <5>1, <5>2
      <4>8. frames'[r] # <<>> /\ frames'[r][1].kind = "accepted"
        BY <3>0, <4>1, <4>2, <4>5 DEF n
      <4> QED
        BY <1>1, <2>3, <4>1, <4>2, <4>6, <4>7, <4>8, <4>5, <1>0 DEF Stream
    <3> QED
      BY <3>1, <3>2
  <2> QED
    BY <1>1, <2>5, <2>6, <2>7, OneRun
<1>8. CASE HReport(r)
  <2> DEFINE frame == Frame("error", Done(r))
  <2>1. /\ h[r] = "report" /\ h' = [h EXCEPT ![r] = "done"]
        /\ frames' = IF writable THEN [frames EXCEPT ![r] = Append(@, frame)] ELSE frames
        /\ UNCHANGED <<rt, chan, hand, failed>>
    BY <1>8 DEF HReport, HGoto, runtimeVars
  <2>2. frame \in Frames /\ frame.kind = "error" /\ h'[r] = "done" /\ r \in failed
    BY <1>0, <2>1 DEF StreamTypes, Frame, Frames, Done, Places
  <2>3. Taken(r)' = Taken(r) /\ Told(r)' = Told(r)
    BY <1>1, <2>1, <2>2 DEF Taken, Told
  <2> HIDE DEF frame
  <2>5. Pipe(r)' /\ Places(r)'
    BY <1>0, <1>1, <2>1, <2>2, <2>3 DEF Pipe, Places
  <2>6. StreamTypes' /\ \A q \in Runs \ {r} : RunVars(q)' = RunVars(q)
    BY <1>0, <1>1, <2>1, <2>2 DEF StreamTypes, Labels, RunVars
  <2>7. Stream(r)'
    <3> DEFINE n == Len(frames[r])
    <3>0. frames[r] # <<>> /\ n > 0 /\ n \in Nat /\ frames[r] \in Seq(Frames)
          /\ frames[r][1].kind = "accepted"
      BY <1>0, <2>1 DEF Stream, StreamTypes
    <3>a. \A i \in 1..n : frames[r][i].kind # "error"
      BY <1>0, <2>1 DEF Stream
    <3>b. \A i \in 2..n : i - 1 <= Told(r)
                          /\ frames[r][i] = Frame(made[r][i - 1].kind, made[r][i - 1].aborted)
      BY <3>a, <1>0 DEF Stream
    <3>1. CASE ~writable
      BY <1>0, <1>1, <2>1, <2>2, <2>3, <3>1 DEF Stream
    <3>2. CASE writable
      <4>1. /\ frames'[r] = Append(frames[r], frame) /\ Len(frames'[r]) = n + 1
            /\ \A i \in 1..n : frames'[r][i] = frames[r][i]
            /\ frames'[r][n + 1] = frame
        BY <1>0, <2>1, <2>2, <3>0, <3>2 DEF StreamTypes
      <4> HIDE DEF n
      <4>2. \A i \in 1..(n + 1) : frames'[r][i].kind = "error" => i = n + 1
        BY <2>2, <3>0, <3>a, <4>1
      <4>3. \A i \in 2..(n + 1) : frames'[r][i].kind # "error" =>
              i - 1 <= Told(r) /\ frames'[r][i] = Frame(made[r][i - 1].kind, made[r][i - 1].aborted)
        <5> SUFFICES ASSUME NEW i \in 2..(n + 1), frames'[r][i].kind # "error"
                     PROVE  i - 1 <= Told(r)
                            /\ frames'[r][i] = Frame(made[r][i - 1].kind, made[r][i - 1].aborted)
          OBVIOUS
        <5>1. i \in 2..n
          BY <2>2, <3>0, <4>1
        <5> QED
          BY <3>b, <4>1, <5>1
      <4>4. LastFrame(r)'.kind = "error"
        BY <2>2, <4>1 DEF LastFrame
      <4>5. frames'[r] # <<>> /\ frames'[r][1].kind = "accepted"
        BY <3>0, <4>1 DEF n
      <4> QED
        BY <1>1, <2>1, <2>2, <2>3, <4>1, <4>2, <4>3, <4>4, <4>5 DEF Stream
    <3> QED
      BY <3>1, <3>2
  <2> QED
    BY <1>1, <2>5, <2>6, <2>7, OneRun
<1> QED
  BY <1>2, <1>3, <1>4, <1>5, <1>6, <1>7, <1>8 DEF Handler

LEMMA LoopStream ==
  ASSUME IInv, StreamInv, Loop \/ PeerGone \/ Tick \/ TickWrite
  PROVE  StreamInv'
<1>1. /\ UNCHANGED <<rt, made, todo, chan, hand, failed>>
      /\ writable' => writable
  <2>1. CASE Loop
    <3>1. ASSUME NEW r \in Runs, NEW k \in Kinds, ChatSend(r, k)
          PROVE  UNCHANGED <<rt, made, todo, chan, hand, failed, writable>>
      BY <3>1 DEF ChatSend, connVars, runtimeVars
    <3>2. ASSUME NEW r \in Runs, Accept(r) \/ AcceptFails(r) \/ AbortFind(r) \/ AbortCancel(r)
          PROVE  UNCHANGED <<rt, made, todo, chan, hand, failed, writable>>
      BY <3>2 DEF Accept, AcceptFails, AbortFind, AbortCancel, connVars, runtimeVars
    <3>3. ASSUME Connect \/ Unauthenticated \/ ReadFails
          PROVE  UNCHANGED <<rt, made, todo, chan, hand, failed, writable>>
      BY <3>3 DEF Connect, Unauthenticated, ReadFails, connVars, runtimeVars
    <3> QED
      BY <2>1, <3>1, <3>2, <3>3 DEF Loop
  <2>2. CASE PeerGone \/ Tick \/ TickWrite
    BY <2>2 DEF PeerGone, Tick, TickWrite, connVars, runtimeVars
  <2> QED
    BY <2>1, <2>2
<1>2. CASE UNCHANGED <<h, frames>>
  BY <1>1, <1>2, IdleStream
<1>3. ASSUME NEW r \in Runs, Accept(r) PROVE StreamInv'
  <2> DEFINE frame == Frame("accepted", FALSE)
  <2>0. StreamTypes /\ Pipe(r) /\ Places(r) /\ Stream(r)
    BY DEF StreamInv
  <2>1. /\ h[r] = "off" /\ writable /\ h' = [h EXCEPT ![r] = "prepare"]
        /\ frames' = [frames EXCEPT ![r] = Append(@, frame)] /\ UNCHANGED writable
    BY <1>3 DEF IInv, Acknowledging, Accept, connVars
  <2>2. frame \in Frames /\ frame.kind = "accepted"
    BY DEF Frame, Frames
  <2> HIDE DEF frame
  <2>3. frames[r] = <<>> /\ rt[r] = "off" /\ made[r] = <<>> /\ r \notin failed
    BY <2>0, <2>1 DEF Stream, Places
  <2>4. h'[r] = "prepare" /\ frames'[r] = <<frame>>
    BY <2>0, <2>1, <2>3 DEF StreamTypes
  <2>5. Taken(r) = 0 /\ Taken(r)' = Taken(r) /\ Told(r)' = 0
    <3>1. Len(made[r]) = 0 /\ Taken(r) >= 0 /\ Len(todo[r]) \in Nat /\ Len(chan[r]) \in Nat
      BY <2>0, <2>3 DEF StreamTypes, Pipe
    <3>2. Taken(r) = 0
      BY <3>1 DEF Taken
    <3>3. Taken(r)' = Taken(r)
      BY <1>1 DEF Taken
    <3> QED
      BY <2>4, <3>2, <3>3 DEF Told
  <2>6. Pipe(r)'
    BY <1>1, <2>0, <2>4, <2>5 DEF Pipe
  <2>7. Places(r)'
    BY <1>1, <2>0, <2>3, <2>4, <2>5 DEF Places
  <2>8. Stream(r)'
    <3>1. Len(frames'[r]) = 1 /\ frames'[r][1] = frame /\ frames'[r] # <<>>
      BY <2>4
    <3> QED
      BY <2>2, <2>4, <2>5, <3>1 DEF Stream
  <2>9. StreamTypes' /\ \A q \in Runs \ {r} : RunVars(q)' = RunVars(q)
    <3>1. frames \in [Runs -> Seq(Frames)] /\ Append(frames[r], frame) \in Seq(Frames)
      BY <2>0, <2>2 DEF StreamTypes
    <3>2. frames' \in [Runs -> Seq(Frames)] /\ \A q \in Runs \ {r} : frames'[q] = frames[q]
      BY <2>1, <3>1
    <3>3. h' \in [Runs -> Labels] /\ \A q \in Runs \ {r} : h'[q] = h[q]
      BY <2>0, <2>1 DEF StreamTypes, Labels
    <3> QED
      BY <1>1, <2>0, <3>2, <3>3 DEF StreamTypes, RunVars
  <2> QED
    BY <1>1, <2>6, <2>7, <2>8, <2>9, OneRun
<1> QED
  BY <1>2, <1>3 DEF Loop, ChatSend, AcceptFails, AbortFind, AbortCancel, Connect, Unauthenticated,
     ReadFails, PeerGone, Tick, TickWrite

LEMMA InitStream == Init => StreamInv
<1> SUFFICES ASSUME Init PROVE StreamInv
  OBVIOUS
<1>1. StreamTypes
  BY DEF Init, StreamTypes, Labels, Events, NoEvent, Event
<1>2. ASSUME NEW r \in Runs PROVE Pipe(r) /\ Places(r) /\ Stream(r)
  <2>1. /\ h[r] = "off" /\ rt[r] = "off" /\ made[r] = <<>> /\ todo[r] = <<>> /\ chan[r] = <<>>
        /\ frames[r] = <<>> /\ r \notin failed
    BY DEF Init
  <2>2. Taken(r) = 0
    <3>1. Len(made[r]) = 0 /\ Len(todo[r]) = 0 /\ Len(chan[r]) = 0
      BY <2>1
    <3> QED
      BY <3>1 DEF Taken
  <2> QED
    BY <2>1, <2>2 DEF Pipe, Places, Stream
<1> QED
  BY <1>1, <1>2 DEF StreamInv

LEMMA StreamInvariance == Spec => []StreamInv
<1>1. IInv /\ StreamInv /\ [Next]_vars => StreamInv'
  <2> SUFFICES ASSUME IInv, StreamInv, [Next]_vars PROVE StreamInv'
    OBVIOUS
  <2>1. CASE UNCHANGED vars
    BY <2>1, IdleStream DEF vars
  <2>2. CASE Next
    BY <2>2, LoopStream, RuntimeStream, HandlerStream DEF Next
  <2> QED
    BY <2>1, <2>2
<1> QED
  BY InitStream, Invariance, <1>1, PTL DEF Spec

\* A sequence that names, one place later, what another one holds.
LEMMA PrefixFacts ==
  ASSUME NEW S, NEW s \in Seq(S), NEW t \in Seq(S), NEW last \in Int,
         \A i \in 2..last : i \in 1..Len(s) /\ i - 1 \in 1..Len(t) /\ s[i] = t[i - 1]
  PROVE  IsPrefixOf(SubSeq(s, 2, last), t)
<1> DEFINE u == SubSeq(s, 2, last)
           k == IF 2 <= last THEN last - 1 ELSE 0
           v == SubSeq(t, 1, k)
<1>1. \A i \in 2..last : s[i] \in S
  OBVIOUS
<1>2. u \in Seq(S) /\ Len(u) = k /\ \A i \in 1..(last - 2 + 1) : u[i] = s[2 + i - 1]
  BY <1>1, SubSeqProperties
<1>3. k <= Len(t) /\ k \in Nat
  OBVIOUS
<1>4. \A i \in 1..k : t[i] \in S
  BY <1>3
<1>5. v \in Seq(S) /\ Len(v) = k /\ \A i \in 1..k : v[i] = t[i]
  <2> HIDE DEF k
  <2>1. /\ v \in Seq(S) /\ Len(v) = IF 1 <= k THEN k - 1 + 1 ELSE 0
        /\ \A i \in 1..(k - 1 + 1) : v[i] = t[1 + i - 1]
    BY <1>3, <1>4, SubSeqProperties
  <2> QED
    BY <1>3, <2>1
<1>6. \A i \in 1..k : u[i] = v[i]
  <2> SUFFICES ASSUME NEW i \in 1..k PROVE u[i] = v[i]
    OBVIOUS
  <2>1. i \in 1..(last - 2 + 1) /\ 2 + i - 1 \in 2..last /\ 2 + i - 1 - 1 = i
    BY <1>3
  <2>2. u[i] = s[2 + i - 1] /\ s[2 + i - 1] = t[2 + i - 1 - 1] /\ v[i] = t[i]
    BY <1>2, <1>5, <2>1
  <2> QED
    BY <2>1, <2>2
<1>7. u = v
  <2> HIDE DEF u, v, k
  <2> QED
    BY <1>2, <1>3, <1>5, <1>6, SeqEqual
<1> HIDE DEF u, k
<1>8. Len(u) <= Len(t) /\ u = SubSeq(t, 1, Len(u))
  BY <1>2, <1>3, <1>7
<1>9. IsPrefixOf(u, t)
  BY <1>8 DEF IsPrefixOf
<1> QED
  BY <1>9 DEF u

(***************************************************************************)
(* The client sees the acknowledgement, then the runtime's events in their *)
(* order and without a gap, then at most one error event, however the      *)
(* goroutines of its runs interleave and whenever the connection breaks.   *)
(***************************************************************************)
THEOREM ClientSeesThePrefix == Spec => []StreamIsFaithful
<1>1. StreamInv => StreamIsFaithful
  <2> SUFFICES ASSUME StreamInv, NEW r \in Runs
               PROVE  LET n == Len(frames[r])
                          errs == {i \in 1..n : frames[r][i].kind = "error"}
                      IN /\ n > 0 => frames[r][1].kind = "accepted"
                         /\ errs \subseteq {n} /\ (errs # {} => r \in failed /\ h[r] = "done")
                         /\ IsPrefixOf(SubSeq(frames[r], 2, IF errs = {} THEN n ELSE n - 1), Seen(r))
    BY DEF StreamIsFaithful
  <2> DEFINE f == frames[r]
             n == Len(f)
             errs == {i \in 1..n : f[i].kind = "error"}
             last == IF errs = {} THEN n ELSE n - 1
  <2>1. /\ Stream(r) /\ Pipe(r) /\ f \in Seq(Frames) /\ n \in Nat /\ Len(made[r]) \in Nat
        /\ Len(todo[r]) \in Nat /\ Len(chan[r]) \in Nat /\ Taken(r) \in Int
    BY LengthFacts DEF StreamInv, StreamTypes
  <2>2. n > 0 => f[1].kind = "accepted"
    BY <2>1 DEF Stream
  <2>3. errs \subseteq {n} /\ (errs # {} => r \in failed /\ h[r] = "done")
    BY <2>1 DEF Stream
  <2>4. Told(r) <= Len(made[r])
    <3>1. \A a, b, c \in Nat : a - b - c <= a /\ a - b - c - 1 <= a
      OBVIOUS
    <3>2. Taken(r) <= Len(made[r]) /\ Taken(r) - 1 <= Len(made[r])
      BY ONLY <2>1, <3>1 DEF Taken
    <3> QED
      BY <3>2 DEF Told
  <2>5. \A i \in 2..last : i \in 2..n /\ f[i].kind # "error"
    BY <2>1, <2>3
  <2>6. \A i \in 2..last : /\ i - 1 \in 1..Len(made[r])
                           /\ f[i] = Seen(r)[i - 1]
    <3> SUFFICES ASSUME NEW i \in 2..last
                 PROVE  i - 1 \in 1..Len(made[r]) /\ f[i] = Seen(r)[i - 1]
      OBVIOUS
    <3>1. i - 1 <= Told(r) /\ f[i] = Frame(made[r][i - 1].kind, made[r][i - 1].aborted)
      BY <2>1, <2>5 DEF Stream
    <3>2. i \in Nat /\ i >= 2 /\ Told(r) \in Int
      BY <2>1 DEF Told
    <3>3. i - 1 \in 1..Len(made[r])
      BY <2>1, <2>4, <3>1, <3>2
    <3> QED
      BY <3>1, <3>3 DEF Seen
  <2>7. last \in Int /\ last <= n /\ (n > 0 => last > 0)
    <3>1. n > 0 /\ errs # {} => n > 1
      BY <2>1, <2>2, <2>3
    <3> QED
      BY <2>1, <3>1
  <2> HIDE DEF last, errs
  <2>8. IsPrefixOf(SubSeq(f, 2, last), Seen(r))
    <3>1. Seen(r) \in Seq(Frames) /\ Len(Seen(r)) = Len(made[r])
      <4>1. made[r] \in Seq(Events)
        BY DEF StreamInv, StreamTypes
      <4>2. \A e \in Events : Frame(e.kind, e.aborted) \in Frames
        BY DEF Events, Frame, Frames
      <4> QED
        BY <2>1, <4>1, <4>2 DEF Seen
    <3>2. \A i \in 2..last : i \in 1..Len(f) /\ i - 1 \in 1..Len(Seen(r)) /\ f[i] = Seen(r)[i - 1]
      BY <2>1, <2>5, <2>6, <3>1
    <3> HIDE DEF f
    <3> QED
      BY <2>1, <2>7, <3>1, <3>2, PrefixFacts
  <2> QED
    BY <2>2, <2>3, <2>8 DEF last, errs
<1> QED
  BY <1>1, StreamInvariance, PTL

(***************************************************************************)
(* A run that is over has told a client that is still there so: the last   *)
(* frame is the runtime's final event, every other one came before it, or  *)
(* the error event of a failed delivery.                                   *)
(***************************************************************************)
THEOREM ClientHearsTheEnd == Spec => []EveryRunReports
<1>1. StreamInv => EveryRunReports
  <2> SUFFICES ASSUME StreamInv, NEW r \in Runs, h[r] = "done", writable
               PROVE  /\ LastFrame(r).kind = IF r \in failed THEN "error" ELSE "final"
                      /\ r \notin failed => Len(frames[r]) = Len(made[r]) + 1
    BY DEF EveryRunReports
  <2>1. /\ Stream(r) /\ Places(r) /\ frames[r] \in Seq(Frames) /\ made[r] \in Seq(Events)
        /\ Len(made[r]) \in Nat /\ Len(frames[r]) \in Nat
    BY LengthFacts DEF StreamInv, StreamTypes
  <2>2. r \in failed => LastFrame(r).kind = "error"
    BY <2>1 DEF Stream
  <2>3. ASSUME r \notin failed
        PROVE  LastFrame(r).kind = "final" /\ Len(frames[r]) = Len(made[r]) + 1
    <3> DEFINE n == Len(frames[r])
    <3>1. Taken(r) = Len(made[r]) /\ made[r] # <<>> /\ made[r][Len(made[r])].kind = "final"
      BY <2>1, <2>3 DEF Places
    <3>2. n = Len(made[r]) + 1 /\ n >= 2
      BY <2>1, <2>3, <3>1 DEF Stream, Told
    <3>3. frames[r][n].kind # "error" /\ n \in 2..n /\ n - 1 = Len(made[r])
      BY <2>1, <2>3, <3>2 DEF Stream
    <3>4. frames[r][n] = Frame(made[r][n - 1].kind, made[r][n - 1].aborted)
      BY <2>1, <3>3 DEF Stream
    <3>5. LastFrame(r).kind = "final"
      BY <3>1, <3>3, <3>4 DEF LastFrame, Frame
    <3> QED
      BY <3>2, <3>5
  <2> QED
    BY <2>2, <2>3
<1> QED
  BY <1>1, StreamInvariance, PTL

-----------------------------------------------------------------------------
(* What the channel and the transcript get of a run. *)

LEMMA SpokenType ==
  ASSUME NEW events, NEW n \in Nat
  PROVE  /\ IsFiniteSet({i \in 1..n : ~events[i].blank})
         /\ SpokenUpTo(events, n) \in Nat
<1>1. IsFiniteSet(1..n)
  BY FS_Interval
<1>2. {i \in 1..n : ~events[i].blank} \in SUBSET (1..n)
  OBVIOUS
<1>3. IsFiniteSet({i \in 1..n : ~events[i].blank})
  BY <1>1, <1>2, FS_Subset
<1> QED
  BY <1>3, FS_CardinalityType DEF SpokenUpTo

\* The count moves with every event that says something, and with nothing else.
LEMMA SpokenNext ==
  ASSUME NEW events, NEW n \in Nat
  PROVE  /\ SpokenUpTo(events, 0) = 0
         /\ SpokenUpTo(events, n + 1) = IF events[n + 1].blank THEN SpokenUpTo(events, n)
                                        ELSE SpokenUpTo(events, n) + 1
<1> DEFINE Up(m) == {i \in 1..m : ~events[i].blank}
<1>1. Up(0) = {}
  OBVIOUS
<1>2. IsFiniteSet(Up(n)) /\ n + 1 \notin Up(n)
  <2>1. n + 1 \notin Up(n)
    OBVIOUS
  <2> QED
    BY <2>1, SpokenType
<1>3. Up(n + 1) = IF events[n + 1].blank THEN Up(n) ELSE Up(n) \cup {n + 1}
  <2>1. 1..(n + 1) = (1..n) \cup {n + 1}
    OBVIOUS
  <2> QED
    BY <2>1
<1> HIDE DEF Up
<1>4. Cardinality(Up(n) \cup {n + 1}) = Cardinality(Up(n)) + 1
  BY <1>2, FS_AddElement
<1>5. Cardinality(Up(0)) = 0
  BY <1>1, FS_EmptySet
<1>6. \A m : SpokenUpTo(events, m) = Cardinality(Up(m))
  BY DEF SpokenUpTo, Up
<1> QED
  BY <1>3, <1>4, <1>5, <1>6

\* An event that says something is counted at its own place.
LEMMA SpokenRank ==
  ASSUME NEW events, NEW n \in Nat, NEW j \in 1..n, ~events[j].blank
  PROVE  SpokenUpTo(events, j) \in 1..SpokenUpTo(events, n)
<1> DEFINE Up(m) == {i \in 1..m : ~events[i].blank}
<1>1. /\ IsFiniteSet(Up(n)) /\ IsFiniteSet(Up(j)) /\ j \in Nat
      /\ Cardinality(Up(n)) \in Nat /\ Cardinality(Up(j)) \in Nat
  BY SpokenType DEF SpokenUpTo
<1>2. Up(j) \in SUBSET Up(n) /\ j \in Up(j)
  OBVIOUS
<1> HIDE DEF Up
<1>3. Cardinality(Up(j)) <= Cardinality(Up(n)) /\ Cardinality(Up(j)) # 0
  BY <1>1, <1>2, FS_Subset, FS_EmptySet
<1>4. \A m : SpokenUpTo(events, m) = Cardinality(Up(m))
  BY DEF SpokenUpTo, Up
<1> QED
  BY <1>1, <1>3, <1>4

\* The count never falls, and an event that says something is counted anew.
LEMMA SpokenGrows ==
  ASSUME NEW events, NEW n \in Nat, NEW m \in Nat, n <= m
  PROVE  /\ SpokenUpTo(events, n) <= SpokenUpTo(events, m)
         /\ n < m /\ ~events[m].blank => SpokenUpTo(events, n) < SpokenUpTo(events, m)
<1> DEFINE Up(k) == {i \in 1..k : ~events[i].blank}
<1>1. IsFiniteSet(Up(m)) /\ IsFiniteSet(Up(n)) /\ Cardinality(Up(n)) \in Nat
      /\ Cardinality(Up(m)) \in Nat
  BY SpokenType DEF SpokenUpTo
<1>2. Up(n) \in SUBSET Up(m)
  OBVIOUS
<1>3. n < m /\ ~events[m].blank => m \in Up(m) /\ m \notin Up(n)
  OBVIOUS
<1> HIDE DEF Up
<1>4. Cardinality(Up(n)) <= Cardinality(Up(m))
      /\ (Cardinality(Up(n)) = Cardinality(Up(m)) => Up(n) = Up(m))
  BY <1>1, <1>2, FS_Subset
<1>5. \A k : SpokenUpTo(events, k) = Cardinality(Up(k))
  BY DEF SpokenUpTo, Up
<1>6. n < m /\ ~events[m].blank => Cardinality(Up(n)) # Cardinality(Up(m))
  BY <1>3, <1>4
<1> QED
  BY <1>1, <1>4, <1>5, <1>6

\* The count depends on the events counted only.
LEMMA SpokenSame ==
  ASSUME NEW events, NEW more, NEW n \in Nat, \A i \in 1..n : more[i] = events[i]
  PROVE  \A i \in 0..n : SpokenUpTo(more, i) = SpokenUpTo(events, i)
<1> SUFFICES ASSUME NEW i \in 0..n PROVE SpokenUpTo(more, i) = SpokenUpTo(events, i)
  OBVIOUS
<1>1. {j \in 1..i : ~more[j].blank} = {j \in 1..i : ~events[j].blank}
  OBVIOUS
<1> QED
  BY <1>1 DEF SpokenUpTo

\* The first n events are the ones that were sent, but for the blank ones.
PassedOn(out, events, n) ==
  /\ Len(out) = SpokenUpTo(events, n)
  /\ \A i \in 1..n : ~events[i].blank => out[SpokenUpTo(events, i)] = events[i]

LEMMA PassedOnNext ==
  ASSUME NEW out \in Seq(Events), NEW events, NEW n \in Nat, NEW m \in Nat, m = n + 1,
         PassedOn(out, events, n), NEW e \in Events, e = events[m]
  PROVE  IF e.blank THEN PassedOn(out, events, m) ELSE PassedOn(Append(out, e), events, m)
<1>1. Len(out) = SpokenUpTo(events, n) /\ Len(out) \in Nat
  BY LenProperties DEF PassedOn
<1>2. \A i \in 1..m : i = m \/ i \in 1..n
  OBVIOUS
<1>3. SpokenUpTo(events, m) = IF e.blank THEN Len(out) ELSE Len(out) + 1
  BY <1>1, SpokenNext
<1>4. CASE e.blank
  BY <1>1, <1>2, <1>3, <1>4 DEF PassedOn
<1>5. CASE ~e.blank
  <2> DEFINE t == Append(out, e)
  <2>1. /\ Len(t) = Len(out) + 1 /\ t[Len(out) + 1] = e
        /\ \A i \in 1..Len(out) : t[i] = out[i]
    BY <1>1, AppendProperties
  <2> HIDE DEF t
  <2>2. ASSUME NEW i \in 1..n, ~events[i].blank
        PROVE  t[SpokenUpTo(events, i)] = events[i]
    <3>1. SpokenUpTo(events, i) \in 1..Len(out)
      BY <1>1, <2>2, SpokenRank
    <3> QED
      BY <2>1, <2>2, <3>1 DEF PassedOn
  <2>3. PassedOn(t, events, m)
    BY <1>2, <1>3, <1>5, <2>1, <2>2 DEF PassedOn
  <2> QED
    BY <1>5, <2>3 DEF t
<1> QED
  BY <1>4, <1>5

LEMMA PassedOnTells ==
  ASSUME NEW out \in Seq(Events), NEW events \in Seq(Events), NEW n \in 0..Len(events),
         PassedOn(out, events, n)
  PROVE  Tells(out, events)
<1>1. /\ Len(out) = SpokenUpTo(events, n) /\ Len(out) \in Nat /\ n \in Nat /\ Len(events) \in Nat
  BY LenProperties DEF PassedOn
<1>2. Len(out) <= SpokenUpTo(events, Len(events))
  BY <1>1, SpokenGrows
<1>3. ASSUME NEW i \in 1..Len(events), ~events[i].blank, SpokenUpTo(events, i) <= Len(out)
      PROVE  out[SpokenUpTo(events, i)] = events[i]
  <2>1. i \in Nat /\ SpokenUpTo(events, i) \in Nat
    <3>1. i \in Nat
      BY <1>1
    <3> QED
      BY <3>1, SpokenType
  <2>2. ~(n < i)
    <3> SUFFICES ASSUME n < i PROVE FALSE
      OBVIOUS
    <3>1. SpokenUpTo(events, n) < SpokenUpTo(events, i)
      BY <1>1, <1>3, <2>1, SpokenGrows
    <3> QED
      BY <1>1, <1>3, <2>1, <3>1
  <2>3. i \in 1..n
    BY <1>1, <2>1, <2>2
  <2> QED
    BY <1>3, <2>3 DEF PassedOn
<1> QED
  BY <1>2, <1>3 DEF Tells

OutTypes == sent \in [Runs -> Seq(Events)] /\ stored \in [Runs -> Seq(Events)]

\* The handler is done with the first n events of the run: all those it has taken,
\* or all but the one in its hand; a failure may leave that one behind for good.
PassedAt(r, n) ==
  /\ n \in 0..Taken(r)
  /\ PassedOn(sent[r], made[r], n)
  /\ h[r] \in {"observe", "hub"} => n = Taken(r) - 1
  /\ h[r] \in {"off", "prepare", "recv", "append"} => n = Taken(r)
  /\ h[r] = "done" /\ r \notin failed => n = Taken(r)

\* The transcript has what was sent, but for the event being appended.
Appended(r) ==
  /\ h[r] \in {"hub", "append"} =>
       Taken(r) > 0 /\ hand[r] = made[r][Taken(r)] /\ ~hand[r].blank
  /\ h[r] = "append" => sent[r] = Append(stored[r], hand[r])
  /\ r \in failed => stored[r] = sent[r] \/ \E e \in Events : sent[r] = Append(stored[r], e)
  /\ h[r] # "append" /\ r \notin failed => stored[r] = sent[r]

Out(r) == (\E n : PassedAt(r, n)) /\ Appended(r)

OutInv == OutTypes /\ \A r \in Runs : Out(r)

\* All that Out depends on.
OutVars(r) ==
  <<h[r], made[r], todo[r], chan[r], hand[r], sent[r], stored[r], r \in failed>>

LEMMA OneOut ==
  ASSUME OutInv, OutTypes', NEW r \in Runs,
         \A q \in Runs \ {r} : OutVars(q)' = OutVars(q), Out(r)'
  PROVE  OutInv'
<1>1. ASSUME NEW q \in Runs \ {r} PROVE Out(q)'
  <2>1. /\ h'[q] = h[q] /\ made'[q] = made[q] /\ todo'[q] = todo[q] /\ chan'[q] = chan[q]
        /\ hand'[q] = hand[q] /\ sent'[q] = sent[q] /\ stored'[q] = stored[q]
        /\ (q \in failed' <=> q \in failed)
    BY DEF OutVars
  <2>2. Taken(q)' = Taken(q)
    BY <2>1 DEF Taken
  <2>3. PICK n : PassedAt(q, n)
    BY DEF OutInv, Out
  <2>4. PassedAt(q, n)'
    BY <2>1, <2>2, <2>3 DEF PassedAt
  <2>5. Appended(q)'
    BY <2>1, <2>2 DEF OutInv, Out, Appended
  <2> QED
    BY <2>4, <2>5 DEF Out
<1> QED
  BY <1>1 DEF OutInv

\* A step of the runtime adds events, and takes none from the handler.
LEMMA RuntimeShape ==
  ASSUME StreamInv, StreamInv', NEW r \in Runs, Runtime(r)
  PROVE  /\ UNCHANGED <<h, hand, failed, sent, stored>> /\ Taken(r)' = Taken(r)
         /\ \A i \in 1..Len(made[r]) : made'[r][i] = made[r][i]
         /\ \A q \in Runs \ {r} : OutVars(q)' = OutVars(q)
<1>0. /\ StreamTypes /\ StreamTypes'
      /\ Len(made[r]) \in Nat /\ Len(chan[r]) \in Nat /\ Len(todo[r]) \in Nat
  BY LengthFacts DEF StreamInv
<1>1. UNCHANGED <<h, hand, failed, sent, stored>>
  BY DEF Runtime, RtPush, RtBegin, RtSlow, RtWork, outVars
<1>2. CASE RtPush(r)
  <2>1. /\ todo[r] # <<>> /\ chan' = [chan EXCEPT ![r] = Append(@, Head(todo[r]))]
        /\ todo' = [todo EXCEPT ![r] = Tail(@)] /\ UNCHANGED made
    BY <1>2 DEF RtPush
  <2> DEFINE t == todo[r]
             c == chan[r]
  <2>2. t \in Seq(Events) /\ t # <<>> /\ c \in Seq(Events)
    BY <1>0, <2>1 DEF StreamTypes
  <2>3. todo'[r] = Tail(t) /\ chan'[r] = Append(c, Head(t))
    BY <1>0, <2>1 DEF StreamTypes
  <2>4. t = todo[r] /\ c = chan[r]
    OBVIOUS
  <2> HIDE DEF t, c
  <2>5. Len(Tail(t)) = Len(t) - 1 /\ Len(Append(c, Head(t))) = Len(c) + 1
    BY <2>2, HeadToEnd
  <2>6. Len(todo'[r]) = Len(todo[r]) - 1 /\ Len(chan'[r]) = Len(chan[r]) + 1
    BY <2>3, <2>4, <2>5
  <2>7. Taken(r)' = Taken(r)
    <3>1. made' = made
      BY <2>1
    <3>2. \A x, y, z \in Nat : x - (y - 1) - (z + 1) = x - y - z
      OBVIOUS
    <3>3. Len(made[r]) - (Len(todo[r]) - 1) - (Len(chan[r]) + 1)
            = Len(made[r]) - Len(todo[r]) - Len(chan[r])
      BY ONLY <1>0, <3>2
    <3> QED
      BY <2>6, <3>1, <3>3 DEF Taken
  <2>8. \A q \in Runs \ {r} : OutVars(q)' = OutVars(q)
    BY <1>0, <1>1, <2>1 DEF OutVars, StreamTypes
  <2> QED
    BY <1>1, <2>1, <2>7, <2>8
<1>3. ASSUME NEW es, NEW label, Produce(r, es, label), todo[r] = <<>>, UNCHANGED chan
      PROVE  /\ Taken(r)' = Taken(r)
             /\ \A i \in 1..Len(made[r]) : made'[r][i] = made[r][i]
             /\ \A q \in Runs \ {r} : OutVars(q)' = OutVars(q)
  <2>1. todo' = [todo EXCEPT ![r] = es] /\ made' = [made EXCEPT ![r] = @ \o es]
    BY <1>3 DEF Produce
  <2>2. todo'[r] = es /\ made'[r] = made[r] \o es /\ es \in Seq(Events) /\ made[r] \in Seq(Events)
    BY <1>0, <2>1 DEF StreamTypes
  <2>3. /\ Len(made'[r]) = Len(made[r]) + Len(es) /\ Len(es) \in Nat
        /\ \A i \in 1..Len(made[r]) : made'[r][i] = made[r][i]
    BY <2>2
  <2>4. Len(todo[r]) = 0
    BY <1>3
  <2>5. Taken(r)' = Taken(r)
    BY <1>0, <1>3, <2>2, <2>3, <2>4 DEF Taken
  <2>6. \A q \in Runs \ {r} : OutVars(q)' = OutVars(q)
    BY <1>0, <1>1, <1>3, <2>1 DEF OutVars, StreamTypes
  <2> QED
    BY <2>3, <2>5, <2>6
<1>4. CASE RtBegin(r) \/ RtSlow(r) \/ RtWork(r)
  <2>1. todo[r] = <<>> /\ UNCHANGED chan /\ \E es, label : Produce(r, es, label)
    BY <1>4 DEF RtBegin, RtSlow, RtWork, RtIdle
  <2> QED
    BY <1>1, <1>3, <2>1
<1> QED
  BY <1>2, <1>4 DEF Runtime

LEMMA RuntimeOut ==
  ASSUME StreamInv, StreamInv', OutInv, NEW r \in Runs, Runtime(r)
  PROVE  OutInv'
<1>1. /\ UNCHANGED <<h, hand, failed, sent, stored>> /\ Taken(r)' = Taken(r)
      /\ \A i \in 1..Len(made[r]) : made'[r][i] = made[r][i]
      /\ \A q \in Runs \ {r} : OutVars(q)' = OutVars(q)
  BY RuntimeShape
<1>2. OutTypes' /\ Taken(r) \in Int /\ Taken(r) <= Len(made[r]) /\ Len(made[r]) \in Nat
  <2>1. Len(made[r]) \in Nat /\ Len(todo[r]) \in Nat /\ Len(chan[r]) \in Nat
    BY LengthFacts DEF StreamInv
  <2>2. \A x, y, z \in Nat : x - y - z \in Int /\ x - y - z <= x
    OBVIOUS
  <2>3. Taken(r) \in Int /\ Taken(r) <= Len(made[r])
    BY ONLY <2>1, <2>2 DEF Taken
  <2> QED
    BY <1>1, <2>1, <2>3 DEF OutInv, OutTypes
<1>3. PICK n : PassedAt(r, n)
  BY DEF OutInv, Out
<1>4. n \in 0..Taken(r) /\ n \in Nat /\ n <= Len(made[r])
  BY <1>2, <1>3 DEF PassedAt
<1>5. \A i \in 0..n : SpokenUpTo(made'[r], i) = SpokenUpTo(made[r], i)
  <2>1. \A i \in 1..n : made'[r][i] = made[r][i]
    BY <1>1, <1>2, <1>4
  <2> QED
    BY <1>4, <2>1, SpokenSame
<1>6. PassedOn(sent'[r], made'[r], n)
  <2>1. PassedOn(sent[r], made[r], n)
    BY <1>3 DEF PassedAt
  <2>2. \A i \in 1..n : i \in 0..n /\ made'[r][i] = made[r][i]
    BY <1>1, <1>2, <1>4
  <2> QED
    BY <1>1, <1>4, <1>5, <2>1, <2>2 DEF PassedOn
<1>7. PassedAt(r, n)'
  BY <1>1, <1>3, <1>6 DEF PassedAt
<1>8. Appended(r)'
  <2>1. Appended(r)
    BY DEF OutInv, Out
  <2>2. Taken(r) > 0 => made'[r][Taken(r)] = made[r][Taken(r)]
    BY <1>1, <1>2
  <2> QED
    BY <1>1, <2>1, <2>2 DEF Appended
<1> QED
  BY <1>1, <1>2, <1>7, <1>8, OneOut DEF Out

\* What a step of the handler does to the events: it takes one, or none.
LEMMA HandlerShape ==
  ASSUME StreamInv, OutTypes, NEW r \in Runs, Handler(r)
  PROVE  /\ UNCHANGED <<made, todo>>
         /\ \A q \in Runs \ {r} : OutVars(q)' = OutVars(q)
         /\ Taken(r)' = IF HRecv(r) THEN Taken(r) + 1 ELSE Taken(r)
<1>0. StreamTypes /\ OutTypes /\ Len(made[r]) \in Nat /\ Len(chan[r]) \in Nat /\ Len(todo[r]) \in Nat
  BY LengthFacts DEF StreamInv
<1>1. UNCHANGED <<made, todo>>
  BY DEF Handler, HPrepare, HPrepareFails, HRecv, HObserve, HSend, HSendFails, HAppend,
         HAppendFails, HEnd, HReport, runtimeVars
<1>2. CASE HRecv(r)
  <2>1. /\ chan[r] # <<>> /\ chan' = [chan EXCEPT ![r] = Tail(@)]
        /\ hand' = [hand EXCEPT ![r] = Head(chan[r])] /\ h' = [h EXCEPT ![r] = "observe"]
        /\ UNCHANGED <<failed, sent, stored>>
    BY <1>2 DEF HRecv, HGoto, outVars
  <2>2. Len(chan'[r]) = Len(chan[r]) - 1
    BY <1>0, <2>1, HeadToEnd DEF StreamTypes
  <2>3. Taken(r)' = Taken(r) + 1
    <3>1. \A x, y, z \in Nat : x - y - (z - 1) = x - y - z + 1
      OBVIOUS
    <3>2. Len(made[r]) - Len(todo[r]) - (Len(chan[r]) - 1)
            = Len(made[r]) - Len(todo[r]) - Len(chan[r]) + 1
      BY ONLY <1>0, <3>1
    <3> QED
      BY <1>1, <2>2, <3>2 DEF Taken
  <2>4. \A q \in Runs \ {r} : OutVars(q)' = OutVars(q)
    BY <1>0, <1>1, <2>1 DEF OutVars, StreamTypes
  <2> QED
    BY <1>1, <1>2, <2>3, <2>4
<1>3. CASE ~HRecv(r)
  <2>1. UNCHANGED <<chan, hand>>
    BY <1>3 DEF Handler, HPrepare, HPrepareFails, HObserve, HSend, HSendFails, HAppend,
                HAppendFails, HEnd, HReport
  <2>2. Taken(r)' = Taken(r)
    BY <1>1, <2>1 DEF Taken
  <2>3. /\ \E label : h' = [h EXCEPT ![r] = label]
        /\ failed' \in {failed, failed \cup {r}}
        /\ sent' \in {sent, [sent EXCEPT ![r] = Append(@, hand[r])]}
        /\ stored' \in {stored, [stored EXCEPT ![r] = Append(@, hand[r])]}
    BY <1>3 DEF Handler, HPrepare, HPrepareFails, HObserve, HSend, HSendFails, HAppend,
                HAppendFails, HEnd, HReport, HErr, HGoto, outVars
  <2>4. \A q \in Runs \ {r} : h'[q] = h[q] /\ (q \in failed' <=> q \in failed)
                              /\ sent'[q] = sent[q] /\ stored'[q] = stored[q]
    BY <1>0, <2>3 DEF OutTypes, StreamTypes
  <2> QED
    BY <1>1, <1>3, <2>1, <2>2, <2>4 DEF OutVars
<1> QED
  BY <1>2, <1>3

LEMMA HandlerOut ==
  ASSUME StreamInv, OutInv, NEW r \in Runs, Handler(r)
  PROVE  OutInv'
<1>0. /\ StreamTypes /\ OutTypes /\ Pipe(r) /\ Places(r) /\ Appended(r)
      /\ Taken(r) \in Int /\ Taken(r) >= 0
  BY LengthFacts DEF StreamInv, OutInv, Out, Pipe
<1>1. /\ UNCHANGED <<made, todo>> /\ \A q \in Runs \ {r} : OutVars(q)' = OutVars(q)
      /\ Taken(r)' = IF HRecv(r) THEN Taken(r) + 1 ELSE Taken(r)
  BY HandlerShape DEF OutInv
<1>2. PICK n : PassedAt(r, n)
  BY DEF OutInv, Out
<1>3. n \in 0..Taken(r) /\ n \in Nat /\ PassedOn(sent[r], made[r], n)
      /\ sent[r] \in Seq(Events) /\ stored[r] \in Seq(Events) /\ hand[r] \in Events
  BY <1>0, <1>2 DEF PassedAt, OutTypes, StreamTypes
<1>4. CASE HPrepare(r)
  <2>1. /\ h[r] = "prepare" /\ h' = [h EXCEPT ![r] = "recv"]
        /\ UNCHANGED <<chan, hand, failed, sent, stored>>
    BY <1>4 DEF HPrepare, HGoto, outVars
  <2>2. h'[r] = "recv" /\ Taken(r)' = Taken(r)
    BY <1>0, <1>1, <2>1 DEF StreamTypes, Taken
  <2>3. PassedAt(r, n)' /\ Appended(r)'
    BY <1>0, <1>1, <1>2, <2>1, <2>2 DEF PassedAt, Appended
  <2> QED
    BY <1>0, <1>1, <2>1, <2>3, OneOut DEF Out, OutTypes
<1>5. CASE HPrepareFails(r) \/ HSendFails(r) \/ HAppendFails(r)
  <2>1. /\ h[r] \in {"prepare", "hub", "append"} /\ h' = [h EXCEPT ![r] = "report"]
        /\ failed' = failed \cup {r}
        /\ UNCHANGED <<chan, hand, sent, stored>>
    BY <1>5 DEF HPrepareFails, HSendFails, HAppendFails, HErr, HGoto, outVars
  <2>2. h'[r] = "report" /\ Taken(r)' = Taken(r) /\ r \notin failed
    BY <1>0, <1>1, <2>1 DEF StreamTypes, Taken, Places
  <2>3. PassedAt(r, n)'
    BY <1>1, <1>2, <2>1, <2>2 DEF PassedAt
  <2>4. Appended(r)'
    BY <1>0, <1>1, <1>3, <2>1, <2>2 DEF Appended
  <2> QED
    BY <1>0, <1>1, <2>1, <2>3, <2>4, OneOut DEF Out, OutTypes
<1>6. CASE HRecv(r)
  <2>1. /\ h[r] = "recv" /\ h' = [h EXCEPT ![r] = "observe"]
        /\ UNCHANGED <<failed, sent, stored>>
    BY <1>6 DEF HRecv, HGoto, outVars
  <2>2. h'[r] = "observe" /\ Taken(r)' = Taken(r) + 1
    BY <1>0, <1>1, <1>6, <2>1 DEF StreamTypes
  <2>3. n = Taken(r)
    BY <1>2, <2>1 DEF PassedAt
  <2>4. PassedAt(r, n)'
    <3>1. n \in 0..Taken(r)' /\ n = Taken(r)' - 1
      BY <1>0, <2>2, <2>3
    <3> QED
      BY <1>1, <1>3, <2>1, <2>2, <3>1 DEF PassedAt
  <2>5. Appended(r)'
    BY <1>0, <2>1, <2>2 DEF Appended
  <2> QED
    BY <1>0, <1>1, <2>1, <2>4, <2>5, OneOut DEF Out, OutTypes
<1>7. CASE HObserve(r)
  <2>1. /\ h[r] = "observe" /\ h' = [h EXCEPT ![r] = IF hand[r].blank THEN "recv" ELSE "hub"]
        /\ UNCHANGED <<chan, hand, failed, sent, stored>>
    BY <1>7 DEF HObserve, HGoto, outVars
  <2>2. h'[r] = (IF hand[r].blank THEN "recv" ELSE "hub") /\ Taken(r)' = Taken(r)
    BY <1>0, <1>1, <2>1 DEF StreamTypes, Taken
  <2>3. Taken(r) > 0 /\ hand[r] = made[r][Taken(r)] /\ n = Taken(r) - 1
    BY <1>0, <1>2, <2>1 DEF Pipe, PassedAt
  <2>4. \E m : PassedAt(r, m)'
    <3>1. CASE hand[r].blank
      <4>0. PICK m : m = Taken(r)
        OBVIOUS
      <4>1. m \in Nat /\ m = n + 1 /\ hand[r] = made[r][m]
        BY <1>0, <2>3, <4>0
      <4>2. PassedOn(sent[r], made[r], m)
        BY <1>3, <3>1, <4>1, PassedOnNext
      <4>3. PassedAt(r, m)'
        BY <1>1, <2>1, <2>2, <3>1, <4>0, <4>1, <4>2 DEF PassedAt
      <4> QED
        BY <4>3
    <3>2. CASE ~hand[r].blank
      <4>1. PassedAt(r, n)'
        BY <1>1, <1>3, <2>1, <2>2, <2>3, <3>2 DEF PassedAt
      <4> QED
        BY <4>1
    <3> QED
      BY <3>1, <3>2
  <2>5. Appended(r)'
    BY <1>0, <1>1, <2>1, <2>2, <2>3 DEF Appended
  <2> QED
    BY <1>0, <1>1, <2>1, <2>4, <2>5, OneOut DEF Out, OutTypes
<1>8. CASE HSend(r)
  <2> DEFINE e == hand[r]
  <2>1. /\ h[r] = "hub" /\ h' = [h EXCEPT ![r] = "append"]
        /\ sent' = [sent EXCEPT ![r] = Append(@, e)]
        /\ UNCHANGED <<chan, hand, failed, stored>>
    BY <1>8 DEF HSend, HGoto, runtimeVars
  <2>2. h'[r] = "append" /\ sent'[r] = Append(sent[r], e) /\ Taken(r)' = Taken(r)
    BY <1>0, <1>1, <2>1 DEF StreamTypes, OutTypes, Taken
  <2>3. Taken(r) > 0 /\ e = made[r][Taken(r)] /\ ~e.blank /\ n = Taken(r) - 1
        /\ stored[r] = sent[r] /\ r \notin failed
    BY <1>0, <1>2, <2>1 DEF Appended, PassedAt, Places
  <2>0. PICK m : m = Taken(r)
    OBVIOUS
  <2>4. m \in Nat /\ m = n + 1 /\ e = made[r][m]
    BY <1>0, <2>0, <2>3
  <2>5. PassedOn(Append(sent[r], e), made[r], m)
    BY <1>3, <2>3, <2>4, PassedOnNext
  <2>6. PassedAt(r, m)'
    BY <1>1, <2>0, <2>1, <2>2, <2>4, <2>5 DEF PassedAt
  <2>7. Appended(r)'
    BY <1>1, <2>1, <2>2, <2>3 DEF Appended
  <2>8. OutTypes'
    <3>1. Append(sent[r], e) \in Seq(Events)
      BY <1>3
    <3> QED
      BY <1>0, <2>1, <3>1 DEF OutTypes
  <2> QED
    BY <1>1, <2>6, <2>7, <2>8, OneOut DEF Out
<1>9. CASE HAppend(r)
  <2> DEFINE e == hand[r]
  <2>1. /\ h[r] = "append" /\ h' = [h EXCEPT ![r] = "recv"]
        /\ stored' = [stored EXCEPT ![r] = Append(@, e)]
        /\ UNCHANGED <<chan, hand, failed, sent>>
    BY <1>9 DEF HAppend, HGoto, runtimeVars
  <2>2. h'[r] = "recv" /\ stored'[r] = Append(stored[r], e) /\ Taken(r)' = Taken(r)
    BY <1>0, <1>1, <2>1 DEF StreamTypes, OutTypes, Taken
  <2>3. stored'[r] = sent[r] /\ r \notin failed
    BY <1>0, <2>1, <2>2 DEF Appended, Places
  <2>4. PassedAt(r, n)' /\ Appended(r)'
    BY <1>1, <1>2, <2>1, <2>2, <2>3 DEF PassedAt, Appended
  <2>5. OutTypes'
    <3>1. Append(stored[r], e) \in Seq(Events)
      BY <1>3
    <3> QED
      BY <1>0, <2>1, <3>1 DEF OutTypes
  <2> QED
    BY <1>1, <2>4, <2>5, OneOut DEF Out
<1>10. CASE HEnd(r) \/ HReport(r)
  <2>1. /\ h[r] \in {"recv", "report"} /\ h' = [h EXCEPT ![r] = "done"]
        /\ UNCHANGED <<chan, hand, failed, sent, stored>>
    BY <1>10 DEF HEnd, HReport, HGoto, outVars
  <2>2. h'[r] = "done" /\ Taken(r)' = Taken(r) /\ (r \notin failed => h[r] = "recv")
    BY <1>0, <1>1, <2>1 DEF StreamTypes, Taken, Places
  <2>3. PassedAt(r, n)' /\ Appended(r)'
    BY <1>0, <1>1, <1>2, <2>1, <2>2 DEF PassedAt, Appended
  <2> QED
    BY <1>0, <1>1, <2>1, <2>3, OneOut DEF Out, OutTypes
<1> QED
  BY <1>4, <1>5, <1>6, <1>7, <1>8, <1>9, <1>10 DEF Handler

\* The loop only starts a handler.
LEMMA LoopOut ==
  ASSUME IInv, StreamInv, OutInv, Loop \/ PeerGone \/ Tick \/ TickWrite
  PROVE  OutInv'
<1>1. UNCHANGED <<made, todo, chan, hand, failed, sent, stored>>
      /\ \A r \in Runs : h'[r] = h[r] \/ (h[r] = "off" /\ h'[r] = "prepare")
  <2>1. CASE Loop
    <3>1. ASSUME NEW r \in Runs, NEW k \in Kinds, ChatSend(r, k)
          PROVE  UNCHANGED <<made, todo, chan, hand, failed, sent, stored, h>>
      BY <3>1 DEF ChatSend, runtimeVars, outVars
    <3>2. ASSUME NEW r \in Runs, AcceptFails(r) \/ AbortFind(r) \/ AbortCancel(r)
          PROVE  UNCHANGED <<made, todo, chan, hand, failed, sent, stored, h>>
      BY <3>2 DEF AcceptFails, AbortFind, AbortCancel, runtimeVars, outVars
    <3>3. ASSUME Connect \/ Unauthenticated \/ ReadFails
          PROVE  UNCHANGED <<made, todo, chan, hand, failed, sent, stored, h>>
      BY <3>3 DEF Connect, Unauthenticated, ReadFails, runtimeVars, outVars
    <3>4. ASSUME NEW r \in Runs, Accept(r)
          PROVE  UNCHANGED <<made, todo, chan, hand, failed, sent, stored>>
                 /\ h[r] = "off" /\ h' = [h EXCEPT ![r] = "prepare"]
      BY <3>4 DEF IInv, Acknowledging, Accept, runtimeVars, outVars
    <3>5. ASSUME NEW r \in Runs, h[r] = "off", h' = [h EXCEPT ![r] = "prepare"]
          PROVE  \A q \in Runs : h'[q] = h[q] \/ (h[q] = "off" /\ h'[q] = "prepare")
      BY <3>5 DEF StreamInv, StreamTypes
    <3> QED
      BY <2>1, <3>1, <3>2, <3>3, <3>4, <3>5 DEF Loop
  <2>2. CASE PeerGone \/ Tick \/ TickWrite
    BY <2>2 DEF PeerGone, Tick, TickWrite, runtimeVars, outVars
  <2> QED
    BY <2>1, <2>2
<1>2. ASSUME NEW r \in Runs PROVE Out(r)'
  <2>1. Taken(r)' = Taken(r)
    BY <1>1 DEF Taken
  <2>2. PICK n : PassedAt(r, n)
    BY DEF OutInv, Out
  <2>3. Appended(r) /\ Places(r)
    BY DEF OutInv, Out, StreamInv
  <2>4. PassedAt(r, n)'
    BY <1>1, <2>1, <2>2 DEF PassedAt
  <2>5. Appended(r)'
    BY <1>1, <2>1, <2>3 DEF Appended
  <2> QED
    BY <2>4, <2>5 DEF Out
<1> QED
  BY <1>1, <1>2 DEF OutInv, OutTypes

LEMMA InitOut == Init => OutInv
<1> SUFFICES ASSUME Init PROVE OutInv
  OBVIOUS
<1>1. OutTypes
  BY DEF Init, OutTypes
<1>2. ASSUME NEW r \in Runs PROVE Out(r)
  <2>1. /\ h[r] = "off" /\ made[r] = <<>> /\ todo[r] = <<>> /\ chan[r] = <<>>
        /\ sent[r] = <<>> /\ stored[r] = <<>> /\ r \notin failed
    BY <1>2 DEF Init
  <2>2. Taken(r) = 0
    <3>1. Len(made[r]) = 0 /\ Len(todo[r]) = 0 /\ Len(chan[r]) = 0
      BY <2>1
    <3> QED
      BY <3>1 DEF Taken
  <2>3. PassedOn(sent[r], made[r], 0)
    <3>1. SpokenUpTo(made[r], 0) = 0 /\ Len(sent[r]) = 0
      BY <2>1, SpokenNext
    <3> QED
      BY <3>1 DEF PassedOn
  <2>4. PassedAt(r, 0) /\ Appended(r)
    BY <2>1, <2>2, <2>3 DEF PassedAt, Appended
  <2> QED
    BY <2>4 DEF Out
<1> QED
  BY <1>1, <1>2 DEF OutInv

LEMMA OutInvariance == Spec => []OutInv
<1>1. IInv /\ StreamInv /\ StreamInv' /\ OutInv /\ [Next]_vars => OutInv'
  <2> SUFFICES ASSUME IInv, StreamInv, StreamInv', OutInv, [Next]_vars PROVE OutInv'
    OBVIOUS
  <2>1. CASE UNCHANGED vars
    BY <2>1 DEF vars, OutInv, OutTypes, Out, PassedAt, Appended, Taken
  <2>2. CASE Next
    BY <2>2, LoopOut, RuntimeOut, HandlerOut DEF Next
  <2> QED
    BY <2>1, <2>2
<1> QED
  BY InitOut, Invariance, StreamInvariance, <1>1, PTL DEF Spec

\* A sequence is followed by itself and by any longer one.
LEMMA AppendedPrefix ==
  ASSUME NEW s \in Seq(Events), NEW e \in Events
  PROVE  /\ IsPrefixOf(s, s) /\ IsPrefixOf(s, Append(s, e))
         /\ Len(s) \in Nat /\ Len(Append(s, e)) - Len(s) = 1
<1>1. Len(s) \in Nat /\ Append(s, e) \in Seq(Events) /\ Len(Append(s, e)) = Len(s) + 1
      /\ \A i \in 1..Len(s) : Append(s, e)[i] = s[i]
  BY LenProperties, AppendProperties
<1>2. ASSUME NEW t \in Seq(Events), Len(s) <= Len(t), \A i \in 1..Len(s) : t[i] = s[i]
      PROVE  IsPrefixOf(s, t)
  <2> DEFINE v == SubSeq(t, 1, Len(s))
  <2>1. /\ v \in Seq(Events) /\ Len(v) = Len(s) /\ \A i \in 1..Len(s) : v[i] = t[i]
    BY <1>1, <1>2, LenProperties
  <2>2. v = s
    <3> HIDE DEF v
    <3> QED
      BY <1>1, <1>2, <2>1, SeqEqual
  <2> QED
    BY <1>2, <2>2 DEF IsPrefixOf
<1>3. IsPrefixOf(s, s)
  BY <1>1, <1>2
<1>4. IsPrefixOf(s, Append(s, e))
  <2> DEFINE t == Append(s, e)
  <2>1. t \in Seq(Events) /\ Len(s) <= Len(t) /\ \A i \in 1..Len(s) : t[i] = s[i]
    BY <1>1
  <2> HIDE DEF t
  <2>2. IsPrefixOf(s, t)
    BY <1>2, <2>1
  <2> QED
    BY <2>2 DEF t
<1>5. Len(Append(s, e)) - Len(s) = 1
  BY <1>1
<1> QED
  BY <1>1, <1>3, <1>4, <1>5

(***************************************************************************)
(* The transcript follows the channel and the channel the runtime, event   *)
(* by event, for any number of runs and whatever fails; a run that reports *)
(* no error has said and kept everything, if the client has left or not.   *)
(***************************************************************************)
THEOREM TranscriptKeepsWhatWasSaid == Spec => []TranscriptFollowsChannel
<1>1. StreamInv /\ OutInv => TranscriptFollowsChannel
  <2> SUFFICES ASSUME StreamInv, OutInv, NEW r \in Runs
               PROVE  /\ Tells(sent[r], made[r])
                      /\ IF h[r] = "append" \/ r \in failed
                         THEN /\ Len(sent[r]) - Len(stored[r]) \in {0, 1}
                              /\ IsPrefixOf(stored[r], sent[r])
                         ELSE stored[r] = sent[r]
                      /\ h[r] = "done" /\ r \notin failed =>
                           Len(sent[r]) = SpokenUpTo(made[r], Len(made[r]))
    BY DEF TranscriptFollowsChannel
  <2>1. /\ Places(r) /\ Appended(r) /\ made[r] \in Seq(Events) /\ hand[r] \in Events
        /\ sent[r] \in Seq(Events) /\ stored[r] \in Seq(Events)
    BY DEF StreamInv, StreamTypes, OutInv, OutTypes, Out
  <2>2. PICK n : PassedAt(r, n)
    BY DEF OutInv, Out
  <2>3. Taken(r) <= Len(made[r]) /\ Taken(r) \in Int
    <3>1. Len(made[r]) \in Nat /\ Len(todo[r]) \in Nat /\ Len(chan[r]) \in Nat
      BY LengthFacts DEF StreamInv
    <3>2. \A x, y, z \in Nat : x - y - z \in Int /\ x - y - z <= x
      OBVIOUS
    <3> QED
      BY ONLY <3>1, <3>2 DEF Taken
  <2>4. Tells(sent[r], made[r])
    <3>1. n \in 0..Len(made[r]) /\ PassedOn(sent[r], made[r], n)
      BY <2>1, <2>2, <2>3 DEF PassedAt
    <3> QED
      BY <2>1, <3>1, PassedOnTells
  <2>5. h[r] = "done" /\ r \notin failed => Len(sent[r]) = SpokenUpTo(made[r], Len(made[r]))
    BY <2>1, <2>2 DEF PassedAt, PassedOn, Places
  <2>6. h[r] = "append" \/ r \in failed =>
          \/ stored[r] = sent[r]
          \/ \E e \in Events : sent[r] = Append(stored[r], e)
    BY <2>1 DEF Appended
  <2>7. \/ stored[r] = sent[r]
        \/ \E e \in Events : sent[r] = Append(stored[r], e)
        => Len(sent[r]) - Len(stored[r]) \in {0, 1} /\ IsPrefixOf(stored[r], sent[r])
    <3>1. CASE stored[r] = sent[r]
      <4>1. Len(sent[r]) - Len(stored[r]) = 0
        BY <2>1, <3>1, LenProperties
      <4> QED
        BY <2>1, <3>1, <4>1, AppendedPrefix
    <3>2. ASSUME NEW e \in Events, sent[r] = Append(stored[r], e)
          PROVE  Len(sent[r]) - Len(stored[r]) \in {0, 1} /\ IsPrefixOf(stored[r], sent[r])
      BY <2>1, <3>2, AppendedPrefix
    <3> QED
      BY <3>1, <3>2
  <2> QED
    BY <2>1, <2>4, <2>5, <2>6, <2>7 DEF Appended
<1> QED
  BY <1>1, StreamInvariance, OutInvariance, PTL
=============================================================================
