----------------------------- MODULE DaemonProofs -----------------------------
(***************************************************************************)
(* Proofs about Daemon for any configuration, any capacity of the channels *)
(* and any number of notifications.  Stages orders main and Manager.Close, *)
(* Drained says that a closed channel has no forwarder left, Kept where    *)
(* each open client is accounted for, and Open which clients are open as   *)
(* long as nothing has closed any.  ToolInv, of the second half, counts    *)
(* the names each registered tool has.                                     *)
(***************************************************************************)
EXTENDS Daemon, FiniteSetTheorems, SequenceTheorems, WellFoundedInduction, TLAPS

Abrupt == {"transport", "fatal", "killed"}

Types ==
  /\ servers \in Configs /\ servers \in Seq(ServerType)
  /\ cur \in 1..(Len(servers) + 1)
  /\ clients \in Seq(Slots)
  /\ closing \in Nat \ {0}
  /\ client \in [Slots -> {"none", "open", "closed"}]
  /\ fwd \in [Slots -> {"off", "recv", "hold", "done"}]

\* Close runs after the load has failed or the server has stopped, from the first client on.
Stages ==
  /\ closer # "no" => main \in {"unwind", "shutdown", "exited"}
  /\ closer = "no" => closing = 1
  /\ main = "exited" => closer = "done" \/ exit \in Abrupt

Drained == shut => closer # "no" /\ \A i \in Slots : fwd[i] \in {"off", "done"}

\* Manager.clients holds it and Close has yet to reach it.
Listed(i) == closer \in {"no", "clients"} /\ \E k \in closing..Len(clients) : clients[k] = i

\* RegisterFromFile holds it in its variable client.
InHand(i) ==
  main = "load" /\ i = cur /\ cur \in DOMAIN servers /\ step \in {"initialize", "list", "register"}

Kept ==
  \A i \in Slots : client[i] = "open" =>
    Listed(i) \/ InHand(i) \/ (main = "exited" /\ exit \in Abrupt)

\* Those of the servers before cur, and the one in hand.
Open ==
  /\ main \in {"load", "wire", "serve"} =>
       \A i \in Slots : client[i] = "open" <=> i \in 1..(cur - 1) \/ InHand(i)
  /\ main = "exited" /\ exit \in {"transport", "fatal"} =>
       \A i \in Slots : client[i] = "open" <=> i \in 1..(cur - 1)

IInv == Types /\ Stages /\ Drained /\ ~panicked /\ Kept /\ Open

-----------------------------------------------------------------------------

LEMMA InitInv == Init => IInv
<1> SUFFICES ASSUME Init PROVE IInv
  OBVIOUS
<1>1. Types
  <2>1. servers \in Seq(ServerType) /\ Len(servers) \in Nat
    BY DaemonAssumption, LenProperties DEF Init
  <2> QED
    BY <2>1 DEF Init, Types
<1>2. Stages /\ Drained /\ ~panicked /\ Kept /\ Open
  BY DEF Init, Stages, Drained, Kept, Open, InHand
<1> QED
  BY <1>1, <1>2 DEF IInv

\* A server being loaded has a slot.
LEMMA CurrentSlot == servers \in Configs /\ cur \in DOMAIN servers => cur \in Slots
  BY DEF Slots

\* The steps of the load that leave clients, Close and the forwarders alone.
LEMMA QuietLoad ==
  ASSUME IInv, Resolve \/ Ask \/ Initialize \/ ListTools \/ RegisterTool \/ Loaded \/ StreamEnds,
         main # "exited"
  PROVE  IInv'
<1> USE DEF Resolve, Ask, Initialize, ListTools, RegisterTool, Loaded, StreamEnds
<1>1. UNCHANGED <<servers, cur, clients, client, closer, closing, shut, fwd, panicked>>
  BY DEF Exit, loadVars, closeVars, noteVars
<1>2. Types' /\ Drained' /\ ~panicked'
  BY <1>1 DEF IInv, Types, Drained
<1>3. closer = "no" /\ main = "load"
  BY DEF IInv, Stages, Loading, Answers, Requesting
<1>4. main' \in {"load", "wire"} \/ (main' = "exited" /\ exit' \in Abrupt)
  BY <1>3 DEF Exit, Abrupt
<1>5. Stages'
  BY <1>1, <1>3, <1>4 DEF IInv, Stages
<1>6. ASSUME NEW i \in Slots
      PROVE  InHand(i)' <=> InHand(i)
  BY DEF InHand, Loading, Answers, Requesting, Exit, loadVars
<1>7. Kept'
  BY <1>1, <1>3, <1>6 DEF IInv, Kept, Listed
<1>8. Open'
  <2>1. main' = "exited" => \A i \in Slots : ~InHand(i)
    BY <1>3 DEF Loading, InHand, Exit
  <2>2. \A i \in Slots : client[i] = "open" <=> i \in 1..(cur - 1) \/ InHand(i)
    BY <1>3 DEF IInv, Open
  <2> QED
    BY <1>1, <1>6, <2>1, <2>2 DEF Open
<1> QED
  BY <1>2, <1>5, <1>7, <1>8 DEF IInv

\* The steps that open a client, keep it, or close it because the load fails.
LEMMA ClientStep ==
  ASSUME IInv, Start \/ StartFails \/ RequestFails \/ KeepClient
  PROVE  IInv'
<1>1. main = "load" /\ closer = "no" /\ closing = 1 /\ cur \in DOMAIN servers /\ cur \in Slots
  BY CurrentSlot
     DEF IInv, Types, Stages, Start, StartFails, RequestFails, KeepClient, Loading, Requesting
<1> PICK n \in Nat, m \in Nat : n = cur /\ m = Len(servers) /\ 1 <= n /\ n <= m
  BY <1>1, LenProperties DEF IInv, Types
<1>o. \A i \in Slots : client[i] = "open" <=> i \in 1..(n - 1) \/ InHand(i)
  BY <1>1 DEF IInv, Open
<1>2. ~shut
  BY <1>1 DEF IInv, Drained
<1>3. CASE Start
  <2>1. Types' /\ Stages' /\ Drained' /\ ~panicked'
    BY <1>1, <1>2, <1>3 DEF IInv, Types, Stages, Drained, Start, closeVars, noteVars
  <2>2. Kept'
    BY <1>1, <1>3 DEF IInv, Types, Kept, Listed, InHand, Start, closeVars, noteVars
  <2>3. Open'
    <3>1. /\ main' = "load" /\ cur' = n /\ n \in DOMAIN servers' /\ step' = "initialize"
          /\ client' = [client EXCEPT ![n] = "open"] /\ client \in [Slots -> {"none", "open", "closed"}]
      BY <1>1, <1>3 DEF Start, IInv, Types
    <3>2. \A i \in Slots : InHand(i)' <=> i = n
      BY <3>1 DEF InHand
    <3>3. \A i \in Slots : i # n => ~InHand(i)
      BY DEF InHand
    <3>4. \A i \in Slots : client'[i] = "open" <=> i \in 1..(n - 1) \/ i = n
      BY <1>1, <1>o, <3>1, <3>3
    <3> QED
      BY <3>1, <3>2, <3>4 DEF Open
  <2> QED
    BY <2>1, <2>2, <2>3 DEF IInv
<1>4. CASE StartFails \/ RequestFails
  <2>1. /\ UNCHANGED <<servers, cur, clients, closing, shut, fwd, panicked>>
        /\ main' = "unwind" /\ closer' = "clients"
        /\ client' = [client EXCEPT ![cur] = client'[cur]]
        /\ client'[cur] \in {client[cur], "closed"}
    BY <1>1, <1>4 DEF IInv, Types, StartFails, RequestFails, Unwind, loadVars, noteVars
  <2>2. Types' /\ Stages' /\ Drained' /\ ~panicked'
    BY <1>1, <1>2, <2>1 DEF IInv, Types, Stages, Drained
  <2>3. ASSUME NEW i \in Slots, client'[i] = "open"
        PROVE  client[i] = "open" /\ ~InHand(i)
    BY <1>1, <1>4, <2>1, <2>3
       DEF IInv, Types, InHand, StartFails, RequestFails, Loading, Requesting
  <2>4. Kept' /\ Open'
    BY <1>1, <2>1, <2>3 DEF IInv, Kept, Listed, Open
  <2> QED
    BY <2>2, <2>4 DEF IInv
<1>5. CASE KeepClient
  <2>1. /\ UNCHANGED <<servers, main, client, closer, closing, shut, panicked>>
        /\ clients' = Append(clients, cur)
        /\ fwd' = [fwd EXCEPT ![cur] = "recv"]
        /\ cur' = n + 1 /\ step' = "resolve" /\ step = "register"
    BY <1>5 DEF KeepClient, Loading, closeVars
  <2>2. Types' /\ Stages' /\ Drained' /\ ~panicked'
    <3>1. n + 1 \in 1..(m + 1)
      OBVIOUS
    <3> QED
      BY <1>1, <1>2, <2>1, <3>1 DEF IInv, Types, Stages, Drained
  <2>3. Len(clients') = Len(clients) + 1 /\ clients'[Len(clients) + 1] = cur
        /\ \A k \in 1..Len(clients) : clients'[k] = clients[k]
    BY <1>1, <2>1 DEF IInv, Types
  <2>4. Len(clients) \in Nat
    BY DEF IInv, Types
  <2>5. ASSUME NEW i \in Slots, client[i] = "open"
        PROVE  Listed(i)'
    <3>1. \E k \in 1..Len(clients') : clients'[k] = i
      BY <1>1, <2>3, <2>4, <2>5 DEF IInv, Kept, Listed, InHand
    <3> QED
      BY <1>1, <2>1, <3>1 DEF Listed
  <2>6. Kept'
    BY <2>1, <2>5 DEF Kept
  <2>7. Open'
    <3>1. \A i \in Slots : InHand(i) <=> i = n
      BY <1>1, <2>1 DEF InHand
    <3>2. \A i \in Slots : ~InHand(i)'
      BY <2>1 DEF InHand
    <3>3. 1..((n + 1) - 1) = 1..(n - 1) \cup {n}
      OBVIOUS
    <3>4. \A i \in Slots : client[i] = "open" <=> i \in 1..((n + 1) - 1)
      BY <1>o, <3>1, <3>3
    <3> QED
      BY <1>1, <2>1, <3>2, <3>4 DEF Open
  <2> QED
    BY <2>2, <2>6, <2>7 DEF IInv
<1> QED
  BY <1>3, <1>4, <1>5

\* The moves of main after the load.
LEMMA MainStep ==
  ASSUME IInv, Serve \/ Killed \/ Fatal \/ Signal
  PROVE  IInv'
<1>1. /\ UNCHANGED <<servers, clients, client, closing, shut, fwd, panicked, cur, step>>
      /\ main # "exited"
  BY DEF Serve, Killed, Fatal, Signal, Exit, loadVars, closeVars, noteVars
<1>2. Types' /\ Drained' /\ ~panicked'
  BY <1>1 DEF IInv, Types, Drained, Serve, Killed, Fatal, Signal, closeVars
<1>3. Stages'
  BY <1>1 DEF IInv, Stages, Serve, Killed, Fatal, Signal, Exit, closeVars, Abrupt
<1>4. Kept'
  BY <1>1 DEF IInv, Stages, Kept, Listed, InHand, Serve, Killed, Fatal, Signal, Exit, closeVars, Abrupt
<1>5. Open'
  BY <1>1 DEF IInv, Open, InHand, Serve, Killed, Fatal, Signal, Exit
<1> QED
  BY <1>2, <1>3, <1>4, <1>5 DEF IInv

\* Manager.Close.
LEMMA CloseStep ==
  ASSUME IInv, main # "exited", Close
  PROVE  IInv'
<1>1. \A i \in Slots : ~InHand(i)
  BY DEF IInv, Stages, InHand, Close, CloseClient, CloseClientsEnd, CloseNotifications, Ends
<1>o. UNCHANGED <<servers, cur>> /\ Open'
  BY DEF IInv, Stages, Open, InHand, Close, CloseClient, CloseClientsEnd, CloseNotifications, Ends,
         Exit, loadVars
<1>2. CASE CloseClient
  <2>1. closing \in DOMAIN clients /\ clients[closing] \in Slots
    BY <1>2 DEF IInv, Types, CloseClient
  <2>2. Types' /\ Stages' /\ Drained' /\ ~panicked'
    BY <1>2, <2>1 DEF IInv, Types, Stages, Drained, CloseClient, loadVars, noteVars
  <2>3. ASSUME NEW i \in Slots, client'[i] = "open"
        PROVE  client[i] = "open" /\ i # clients[closing]
    BY <1>2, <2>1, <2>3 DEF IInv, Types, CloseClient
  <2>4. ASSUME NEW i \in Slots, client'[i] = "open"
        PROVE  Listed(i)'
    <3>1. PICK k \in closing..Len(clients) : clients[k] = i
      BY <1>1, <2>3, <2>4 DEF IInv, Kept, Listed
    <3>2. k \in (closing + 1)..Len(clients)
      BY <2>3, <2>4, <3>1 DEF IInv, Types
    <3> QED
      BY <1>2, <3>1, <3>2 DEF Listed, CloseClient, loadVars
  <2> QED
    BY <1>o, <2>2, <2>4 DEF IInv, Kept
<1>3. CASE CloseClientsEnd
  <2>1. Types' /\ Stages' /\ Drained' /\ ~panicked'
    BY <1>3 DEF IInv, Types, Stages, Drained, CloseClientsEnd, loadVars, noteVars
  <2>2. \A i \in Slots : client[i] # "open"
    BY <1>1, <1>3 DEF IInv, Types, Kept, Listed, CloseClientsEnd
  <2> QED
    BY <1>o, <1>3, <2>1, <2>2 DEF IInv, Kept, CloseClientsEnd
<1>4. CASE CloseNotifications \/ Ends
  <2>1. \A i \in Slots : client[i] # "open"
    BY <1>1, <1>4 DEF IInv, Kept, Listed, CloseNotifications, Ends
  <2>2. UNCHANGED <<servers, clients, client, closing, fwd, panicked>>
    BY <1>4 DEF CloseNotifications, Ends, loadVars, closeVars, noteVars
  <2>3. Types' /\ ~panicked' /\ Kept'
    BY <1>o, <2>1, <2>2 DEF IInv, Types, Kept
  <2>4. Stages' /\ Drained'
    BY <1>4, <2>2 DEF IInv, Stages, Drained, CloseNotifications, Ends, Exit, closeVars, noteVars
  <2> QED
    BY <1>o, <2>3, <2>4 DEF IInv
<1> QED
  BY <1>2, <1>3, <1>4 DEF Close

\* The servers, the forwarders and the log: what they disturb is fwd and panicked.
LEMMA NoteStep ==
  ASSUME IInv,
         LogNote \/ \E i \in Slots : ServerExits(i) \/ Emit(i) \/ Forward(i)
  PROVE  IInv'
<1>1. UNCHANGED <<servers, main, exit, cur, step, clients, client, closer, closing, shut>>
  BY DEF LogNote, ServerExits, Emit, Forward, ForwardTake, ForwardPush, ForwardStop,
         loadVars, closeVars, noteVars
<1>2. Stages' /\ Kept' /\ Open'
  BY <1>1 DEF IInv, Stages, Kept, Listed, InHand, Open
<1>3. CASE UNCHANGED <<fwd, panicked>>
  <2>1. Types' /\ Drained' /\ ~panicked'
    BY <1>1, <1>3 DEF IInv, Types, Drained
  <2> QED
    BY <1>2, <2>1 DEF IInv
<1>4. ASSUME NEW i \in Slots, Forward(i) PROVE IInv'
  <2>1. fwd[i] \in {"recv", "hold"}
    BY <1>4 DEF Forward, ForwardTake, ForwardPush, ForwardStop
  <2>2. ~shut
    BY <2>1 DEF IInv, Drained
  <2>3. panicked' = panicked \/ panicked' = (panicked \/ shut)
    BY <1>4 DEF Forward, ForwardTake, ForwardPush, ForwardStop
  <2>4. ~panicked'
    BY <2>2, <2>3, Zenon DEF IInv
  <2>5. \E v \in {"hold", "recv", "done"} : fwd' = [fwd EXCEPT ![i] = v]
    BY <1>4 DEF Forward, ForwardTake, ForwardPush, ForwardStop
  <2>6. Types' /\ Drained'
    BY <1>1, <2>2, <2>5 DEF IInv, Types, Drained
  <2> QED
    BY <1>2, <2>4, <2>6 DEF IInv
<1> QED
  BY <1>3, <1>4 DEF LogNote, ServerExits, Emit, noteVars

LEMMA Invariance == Spec => []IInv
<1>1. IInv /\ [Next]_vars => IInv'
  <2> SUFFICES ASSUME IInv, [Next]_vars PROVE IInv'
    OBVIOUS
  <2>1. CASE UNCHANGED vars
    BY <2>1 DEF IInv, Types, Stages, Drained, Kept, Listed, InHand, Open, vars
  <2>2. CASE Next
    BY <2>2, QuietLoad, ClientStep, MainStep, CloseStep, NoteStep DEF Next, Load
  <2> QED
    BY <2>1, <2>2
<1> QED
  BY InitInv, <1>1, PTL DEF Spec

(***************************************************************************)
(* Manager.Close closes the notification channel only when no forwarder is *)
(* left that could send on it, so no notification panics the daemon.       *)
(***************************************************************************)
THEOREM FanInIsSafe == Spec => []NoSendAfterClose
<1>1. IInv => NoSendAfterClose
  BY DEF IInv, NoSendAfterClose
<1> QED
  BY <1>1, Invariance, PTL

(***************************************************************************)
(* A load that fails at a server, and a shutdown, have closed every client *)
(* when the process ends.  One that fails at an unknown transport, and     *)
(* log.Fatal, leave exactly the clients of the servers loaded by then.     *)
(***************************************************************************)
THEOREM ExitsAreAccountedFor == Spec => []EachExitLeaves
<1>1. IInv => EachExitLeaves
  <2> SUFFICES ASSUME IInv, main = "exited" PROVE EachExitLeaves
    BY DEF EachExitLeaves
  <2>1. ASSUME exit \in {"unwind", "shutdown"}, NEW i \in Slots
        PROVE  client[i] # "open"
    BY <2>1 DEF IInv, Stages, Kept, Listed, InHand, Abrupt
  <2>2. ASSUME exit \in {"transport", "fatal"}
        PROVE  {i \in Slots : client[i] = "open"} = 1..(cur - 1)
    <3>1. \A i \in Slots : client[i] = "open" <=> i \in 1..(cur - 1)
      BY <2>2 DEF IInv, Open
    <3>2. 1..(cur - 1) \subseteq DOMAIN servers /\ DOMAIN servers \subseteq Slots
      <4>1. PICK n \in Nat, m \in Nat : n = cur /\ m = Len(servers) /\ n <= m + 1
        <5>1. Len(servers) \in Nat /\ cur \in 1..(Len(servers) + 1)
          BY LenProperties DEF IInv, Types
        <5>2. cur \in Nat /\ cur <= Len(servers) + 1
          BY <5>1
        <5> QED
          BY <5>1, <5>2, Zenon
      <4>2. 1..(n - 1) \subseteq 1..m
        BY <4>1
      <4>3. DOMAIN servers = 1..m /\ DOMAIN servers \subseteq Slots
        BY <4>1, LenProperties DEF IInv, Types, Slots
      <4> QED
        BY <4>1, <4>2, <4>3
    <3> QED
      BY <3>1, <3>2
  <2> QED
    BY <2>1, <2>2 DEF EachExitLeaves
<1> QED
  BY <1>1, Invariance, PTL

-----------------------------------------------------------------------------
(* The names of the tools. *)

\* Every nonempty set of natural numbers has a least one.
LEMMA LeastOf ==
  ASSUME NEW S, S # {}, S \subseteq Nat
  PROVE  Min(S) \in S
<1> DEFINE R == OpToRel(<, Nat)
<1>1. IsWellFoundedOn(R, Nat)
  BY NatLessThanWellFounded
<1>2. \A x, y : <<y, x>> \in R <=> y \in Nat /\ x \in Nat /\ y < x
  BY DEF OpToRel
<1> HIDE DEF R
<1>3. \E m \in S : \A k \in S : ~(<<k, m>> \in R)
  BY <1>1, WFMin
<1>4. PICK m \in S : \A k \in S : ~(k < m)
  BY <1>2, <1>3
<1>5. \A k \in S : m <= k
  BY <1>4
<1> QED
  BY <1>5 DEF Min

\* Whatever names are taken, one of the suffixes tried is free.
LEMMA UniqueNameIsNew ==
  ASSUME NEW existing, IsFiniteSet(existing), NEW base \in Name
  PROVE  uniqueToolName(existing, base) \notin existing
<1> DEFINE named(i) == Append(base, Number(i))
           tried == 2..(Cardinality(existing) + 2)
           free == {i \in tried : named(i) \notin existing}
<1>1. Cardinality(existing) \in Nat
  BY FS_CardinalityType
<1>2. \A i, j \in tried : named(i) = named(j) => i = j
  <2> SUFFICES ASSUME NEW i \in tried, NEW j \in tried, named(i) = named(j) PROVE i = j
    OBVIOUS
  <2>1. i \in Nat /\ j \in Nat
    BY <1>1
  <2>2. Number(i) \in Part /\ Number(j) \in Part
    BY <2>1 DEF Number, Part
  <2>3. base \in Seq(Part)
    BY DEF Name
  <2>4. /\ named(i)[Len(base) + 1] = Number(i)
        /\ named(j)[Len(base) + 1] = Number(j)
    <3> HIDE DEF tried
    <3> QED
      BY <2>2, <2>3, AppendProperties
  <2>5. Number(i).number = i /\ Number(j).number = j
    BY DEF Number
  <2>6. Number(i) = Number(j)
    BY <2>4
  <2> QED
    BY <2>5, <2>6
<1>3. free # {}
  <2> SUFFICES ASSUME free = {} PROVE FALSE
    OBVIOUS
  <2>1. \A i \in tried : named(i) \in existing
    OBVIOUS
  <2>2. IsFiniteSet(tried) /\ Cardinality(tried) = Cardinality(existing) + 1
    <3>1. 2 \in Int /\ Cardinality(existing) + 2 \in Int /\ ~(2 > Cardinality(existing) + 2)
      BY <1>1
    <3> QED
      BY <1>1, <3>1, FS_Interval
  <2> DEFINE f == [i \in tried |-> named(i)]
  <2>3. f \in [tried -> existing] /\ Cardinality(existing) < Cardinality(tried)
    BY <1>1, <2>1, <2>2
  <2>4. \E i, j \in tried : i # j /\ f[i] = f[j]
    <3> HIDE DEF f, tried
    <3> QED
      BY <2>2, <2>3, FS_PigeonHole
  <2> QED
    BY <1>2, <2>4
<1>4. Min(free) \in free
  <2>1. free \subseteq Nat
    BY <1>1
  <2> HIDE DEF free
  <2> QED
    BY <1>3, <2>1, LeastOf
<1>5. named(Min(free)) \notin existing
  BY <1>4
<1>6. uniqueToolName(existing, base) = IF base \notin existing THEN base ELSE named(Min(free))
  BY DEF uniqueToolName
<1> QED
  BY <1>5, <1>6

\* How many of a server's tools are registered.
Done(i) ==
  IF i < cur THEN Len(servers[i].tools)
  ELSE IF i = cur /\ step = "register" THEN Len(servers[i].tools) - Len(left)
  ELSE 0

NamesOf(i, t)  == {n \in Names(i) : registry[n].tool = t}
PlacesOf(i, t) == {k \in 1..Done(i) : servers[i].tools[k] = t}

\* What is left of the current server's tools are the last ones.
Leftover ==
  step = "register" /\ cur \in DOMAIN servers =>
    /\ left \in Seq(Name) /\ Len(left) <= Len(servers[cur].tools)
    /\ \A k \in 1..Len(left) : left[k] = servers[cur].tools[Done(cur) + k]

ToolInv ==
  /\ servers \in Seq(ServerType) /\ cur \in Nat \ {0}
  /\ IsFiniteSet(DOMAIN registry) /\ Builtins \subseteq DOMAIN registry
  /\ \A n \in Builtins : registry[n] = Builtin
  /\ tools = {[name |-> n, of |-> registry[n]] : n \in DOMAIN registry \ Builtins}
  /\ Leftover
  /\ \A i \in 1..Len(servers) : \A t : Cardinality(NamesOf(i, t)) = Cardinality(PlacesOf(i, t))

LEMMA InitTools == Init => ToolInv
<1> SUFFICES ASSUME Init PROVE ToolInv
  OBVIOUS
<1>1. /\ servers \in Seq(ServerType) /\ cur = 1 /\ step = "resolve" /\ tools = {}
      /\ registry = [n \in Builtins |-> Builtin] /\ DOMAIN registry = Builtins
      /\ IsFiniteSet(Builtins)
  BY DaemonAssumption DEF Init
<1>2. ASSUME NEW i \in 1..Len(servers), NEW t
      PROVE  Cardinality(NamesOf(i, t)) = Cardinality(PlacesOf(i, t))
  <2>1. NamesOf(i, t) = {}
    BY <1>1 DEF NamesOf, Names, Builtin
  <2>2. PlacesOf(i, t) = {}
    <3>1. Done(i) = 0
      BY <1>1 DEF Done
    <3> QED
      BY <3>1 DEF PlacesOf
  <2> QED
    BY <2>1, <2>2
<1> QED
  BY <1>1, <1>2 DEF ToolInv, Leftover

LEMMA ListType ==
  ASSUME servers \in Seq(ServerType), NEW i \in 1..Len(servers)
  PROVE  /\ servers[i].tools \in Seq(Name) /\ Len(servers[i].tools) \in Nat
         /\ servers[i].name \in Name
<1>1. servers[i] \in ServerType
  BY ElementOfSeq
<1>2. servers[i].tools \in Seq(Name) /\ servers[i].name \in Name
  BY <1>1 DEF ServerType
<1> QED
  BY <1>2, LenProperties

\* Steps that register nothing: what is done stays as it was.
LEMMA NothingRegistered ==
  ASSUME ToolInv, UNCHANGED <<servers, registry, tools>>, cur' \in Nat \ {0}, Leftover',
         \A i \in 1..Len(servers) : Done(i)' = Done(i)
  PROVE  ToolInv'
<1>1. ASSUME NEW i \in 1..Len(servers), NEW t
      PROVE  NamesOf(i, t)' = NamesOf(i, t) /\ PlacesOf(i, t)' = PlacesOf(i, t)
  <2>1. NamesOf(i, t)' = NamesOf(i, t)
    BY DEF NamesOf, Names
  <2>2. Done(i)' = Done(i)
    OBVIOUS
  <2> QED
    BY <2>1, <2>2 DEF PlacesOf
<1>2. \A i \in 1..Len(servers') : \A t : Cardinality(NamesOf(i, t))' = Cardinality(PlacesOf(i, t))'
  BY <1>1 DEF ToolInv
<1> QED
  BY <1>2 DEF ToolInv

LEMMA QuietTools ==
  ASSUME ToolInv, UNCHANGED <<servers, registry, tools, cur, left>>,
         step' = step \/ (step # "register" /\ step' # "register")
  PROVE  ToolInv'
<1>1. \A i \in 1..Len(servers) : Done(i)' = Done(i)
  BY DEF Done
<1>2. Leftover'
  <2>1. CASE step' = step
    <3>1. Done(cur)' = Done(cur)
      BY <2>1 DEF Done
    <3> QED
      BY <2>1, <3>1 DEF ToolInv, Leftover
  <2>2. CASE step' # "register"
    BY <2>2 DEF Leftover
  <2> QED
    BY <2>1, <2>2
<1> QED
  BY <1>1, <1>2, NothingRegistered DEF ToolInv

LEMMA ListTools_ToolInv == ToolInv /\ ListTools => ToolInv'
<1> SUFFICES ASSUME ToolInv, ListTools PROVE ToolInv'
  OBVIOUS
<1>1. /\ UNCHANGED <<servers, registry, tools, cur>> /\ cur \in DOMAIN servers
      /\ step = "list" /\ step' = "register" /\ left' = servers[cur].tools
  BY DEF ListTools, Answers, Loading
<1>2. DOMAIN servers = 1..Len(servers) /\ servers \in Seq(ServerType) /\ cur \in Nat
  BY LenProperties DEF ToolInv
<1>3. servers[cur].tools \in Seq(Name) /\ Len(servers[cur].tools) \in Nat
  BY <1>1, <1>2, ListType
<1>4. \A i \in 1..Len(servers) : Done(i)' = Done(i)
  <2>1. Len(servers[cur].tools) - Len(left') = 0
    BY <1>1, <1>3
  <2> QED
    BY <1>1, <2>1 DEF Done
<1>5. Leftover'
  <2>1. /\ left' \in Seq(Name) /\ Len(left') <= Len(servers[cur].tools)
        /\ \A k \in 1..Len(left') : left'[k] = servers[cur].tools[0 + k]
    BY <1>1, <1>3
  <2>2. Len(servers[cur].tools) - Len(left') = 0
    BY <1>1, <1>3
  <2>3. Done(cur)' = 0
    BY <1>1, <1>2, <2>2 DEF Done
  <2> QED
    BY <1>1, <2>1, <2>3 DEF Leftover
<1> QED
  BY <1>1, <1>2, <1>4, <1>5, NothingRegistered DEF ToolInv

LEMMA KeepClient_ToolInv == ToolInv /\ KeepClient => ToolInv'
<1> SUFFICES ASSUME ToolInv, KeepClient PROVE ToolInv'
  OBVIOUS
<1>1. /\ UNCHANGED <<servers, registry, tools>> /\ cur \in DOMAIN servers
      /\ step = "register" /\ step' = "resolve" /\ left = <<>> /\ cur' = cur + 1
  BY DEF KeepClient, Loading
<1>2. DOMAIN servers = 1..Len(servers) /\ servers \in Seq(ServerType) /\ cur \in Nat \ {0}
  BY LenProperties DEF ToolInv
<1>3. \A i \in 1..Len(servers) : Done(i)' = Done(i)
  <2> SUFFICES ASSUME NEW i \in 1..Len(servers) PROVE Done(i)' = Done(i)
    OBVIOUS
  <2>1. Len(servers[i].tools) \in Nat /\ Len(left) = 0 /\ i \in Nat
    BY <1>1, <1>2, ListType
  <2>2. CASE i < cur
    BY <1>1, <1>2, <2>1, <2>2 DEF Done
  <2>3. CASE i = cur
    BY <1>1, <1>2, <2>1, <2>3 DEF Done
  <2>4. CASE i > cur
    BY <1>1, <1>2, <2>1, <2>4 DEF Done
  <2> QED
    BY <1>2, <2>1, <2>2, <2>3, <2>4
<1>4. Leftover' /\ cur' \in Nat \ {0}
  BY <1>1, <1>2 DEF Leftover
<1> QED
  BY <1>1, <1>3, <1>4, NothingRegistered

\* A tool gets a name that was free, and one more of its server's tools is done.
LEMMA RegisterTool_ToolInv == ToolInv /\ RegisterTool => ToolInv'
<1> SUFFICES ASSUME ToolInv, RegisterTool PROVE ToolInv'
  OBVIOUS
<1> PICK s : s = cur
  OBVIOUS
<1> PICK tool : tool = Head(left)
  OBVIOUS
<1> PICK name : name = uniqueToolName(DOMAIN registry, <<Word("mcp")>> \o servers[s].name \o tool)
  OBVIOUS
<1>1. /\ UNCHANGED <<servers, cur, step>> /\ s \in DOMAIN servers /\ step = "register"
      /\ left # <<>> /\ left' = Tail(left)
      /\ registry' = [n \in DOMAIN registry \cup {name} |->
                        IF n = name THEN [server |-> s, tool |-> tool] ELSE registry[n]]
      /\ tools' = tools \cup {[name |-> name, of |-> [server |-> s, tool |-> tool]]}
  BY DEF RegisterTool, Loading, Enter
<1>2. /\ DOMAIN servers = 1..Len(servers) /\ servers \in Seq(ServerType) /\ s \in Nat \ {0}
      /\ IsFiniteSet(DOMAIN registry)
  BY LenProperties DEF ToolInv
<1> PICK list : list = servers[s].tools
  OBVIOUS
<1> PICK done : done = Len(list) - Len(left)
  OBVIOUS
<1>3. /\ list \in Seq(Name) /\ Len(list) \in Nat /\ servers[s].name \in Name
  BY <1>1, <1>2, ListType
<1>4. /\ left \in Seq(Name) /\ Len(left) <= Len(list) /\ Len(left) \in Nat
      /\ Done(s) = done
  <2>1. left \in Seq(Name) /\ Len(left) <= Len(list)
    BY <1>1 DEF ToolInv, Leftover
  <2>2. Done(s) = done
    BY <1>1, <1>2 DEF Done
  <2> QED
    BY <2>1, <2>2, LenProperties
<1>5. /\ tool \in Name /\ tool = left[1] /\ Len(left) > 0 /\ left' \in Seq(Name)
      /\ Len(left') = Len(left) - 1
      /\ \A k \in 1..(Len(left) - 1) : left'[k] = left[k + 1]
  BY <1>1, <1>4, HeadTailProperties
<1>6. done \in Nat /\ done + 1 <= Len(list) /\ \A k \in 1..Len(left) : left[k] = list[done + k]
  <2>1. done \in Nat /\ done + 1 <= Len(list)
    BY <1>3, <1>4, <1>5
  <2>2. \A k \in 1..Len(left) : left[k] = list[Done(s) + k]
    BY <1>1 DEF ToolInv, Leftover
  <2> QED
    BY <1>4, <2>1, <2>2
<1>7. list[done + 1] = tool
  <2>1. 1 \in 1..Len(left)
    BY <1>4, <1>5
  <2> QED
    BY <1>5, <1>6, <2>1
<1>8. name \notin DOMAIN registry
  <2>1. <<Word("mcp")>> \in Seq(Part)
    BY DEF Word, Part
  <2>2. <<Word("mcp")>> \o servers[s].name \o tool \in Name
    BY <1>3, <1>5, <2>1, ConcatProperties DEF Name
  <2> QED
    BY <1>2, <2>2, UniqueNameIsNew
<1>9. Done(s)' = done + 1 /\ \A i \in 1..Len(servers) : i # s => Done(i)' = Done(i)
  <2>1. Len(list) - Len(left') = done + 1
    BY <1>3, <1>4, <1>5
  <2>2. cur' = s /\ servers'[s].tools = list
    BY <1>1
  <2> QED
    BY <1>1, <1>2, <2>1, <2>2 DEF Done
<1>10. Leftover'
  <2>1. Len(left') <= Len(list)
    BY <1>3, <1>4, <1>5
  <2>2. ASSUME NEW k \in 1..Len(left') PROVE left'[k] = list[(done + 1) + k]
    <3>1. k \in 1..(Len(left) - 1)
      BY <1>5
    <3>2. Len(left) \in Nat /\ done \in Nat
      BY <1>5, <1>6
    <3>3. k + 1 \in 1..Len(left) /\ done + (k + 1) = (done + 1) + k
      <4>1. PICK m \in Nat, d \in Nat : m = Len(left) /\ d = done
        BY <3>2
      <4>2. k \in 1..(m - 1)
        BY <3>1, <4>1
      <4>3. k + 1 \in 1..m /\ d + (k + 1) = (d + 1) + k
        BY <4>2
      <4> QED
        BY <4>1, <4>3
    <3>4. left'[k] = left[k + 1]
      BY <1>5, <3>1
    <3>5. left[k + 1] = list[done + (k + 1)]
      BY <1>6, <3>3
    <3> QED
      BY <3>3, <3>4, <3>5
  <2>3. cur' = s /\ servers'[s].tools = list /\ Done(cur)' = done + 1
    BY <1>1, <1>9 DEF Done
  <2> QED
    BY <1>5, <2>1, <2>2, <2>3 DEF Leftover
<1>11. /\ DOMAIN registry' = DOMAIN registry \cup {name} /\ IsFiniteSet(DOMAIN registry')
       /\ registry'[name] = [server |-> s, tool |-> tool]
       /\ \A n \in DOMAIN registry : registry'[n] = registry[n]
  <2>1. IsFiniteSet(DOMAIN registry \cup {name})
    BY <1>2, FS_AddElement
  <2> QED
    BY <1>1, <1>8, <2>1
<1>12. /\ Builtins \subseteq DOMAIN registry' /\ \A n \in Builtins : registry'[n] = Builtin
  BY <1>11 DEF ToolInv
<1>13. tools' = {[name |-> n, of |-> registry'[n]] : n \in DOMAIN registry' \ Builtins}
  <2>1. DOMAIN registry' \ Builtins = (DOMAIN registry \ Builtins) \cup {name}
    BY <1>8, <1>11 DEF ToolInv
  <2>2. tools = {[name |-> n, of |-> registry[n]] : n \in DOMAIN registry \ Builtins}
    BY DEF ToolInv
  <2>3. tools = {[name |-> n, of |-> registry'[n]] : n \in DOMAIN registry \ Builtins}
    BY <1>11, <2>2
  <2>4. tools' = tools \cup {[name |-> name, of |-> registry'[name]]}
    BY <1>1, <1>11
  <2> QED
    BY <2>1, <2>3, <2>4
<1>14. ASSUME NEW i \in 1..Len(servers), NEW t
       PROVE  Cardinality(NamesOf(i, t))' = Cardinality(PlacesOf(i, t))'
  <2>1. Cardinality(NamesOf(i, t)) = Cardinality(PlacesOf(i, t))
    BY DEF ToolInv
  <2>2. CASE i # s \/ t # tool
    <3>1. NamesOf(i, t)' = NamesOf(i, t)
      BY <1>8, <1>11, <2>2 DEF NamesOf, Names
    <3>2. PlacesOf(i, t)' = PlacesOf(i, t)
      <4>1. CASE i # s
        BY <1>1, <1>9, <4>1 DEF PlacesOf
      <4>2. CASE i = s /\ t # tool
        <5>1. \A k \in 1..(done + 1) : list[k] = t => k \in 1..done
          BY <1>6, <1>7, <4>2
        <5>2. 1..done \subseteq 1..(done + 1)
          BY <1>6
        <5>3. {k \in 1..(done + 1) : list[k] = t} = {k \in 1..done : list[k] = t}
          BY <5>1, <5>2
        <5> QED
          BY <1>1, <1>4, <1>9, <4>2, <5>3 DEF PlacesOf
      <4> QED
        BY <2>2, <4>1, <4>2
    <3> QED
      BY <2>1, <3>1, <3>2
  <2>3. CASE i = s /\ t = tool
    <3>1. NamesOf(s, tool)' = NamesOf(s, tool) \cup {name} /\ name \notin NamesOf(s, tool)
      BY <1>8, <1>11 DEF NamesOf, Names
    <3>2. IsFiniteSet(NamesOf(s, tool))
      <4>1. NamesOf(s, tool) \subseteq DOMAIN registry
        BY DEF NamesOf, Names
      <4> QED
        BY <1>2, <4>1, FS_Subset
    <3>3. PlacesOf(s, tool)' = PlacesOf(s, tool) \cup {done + 1} /\ done + 1 \notin PlacesOf(s, tool)
      <4>1. 1..(done + 1) = 1..done \cup {done + 1} /\ done + 1 \notin 1..done
        <5>1. done \in Nat
          BY <1>6
        <5> QED
          BY <5>1, SMTT(30)
      <4>2. {k \in 1..(done + 1) : list[k] = tool} = {k \in 1..done : list[k] = tool} \cup {done + 1}
        BY <1>7, <4>1
      <4> QED
        BY <1>1, <1>4, <1>9, <4>1, <4>2 DEF PlacesOf
    <3>4. IsFiniteSet(PlacesOf(s, tool))
      <4>1. PlacesOf(s, tool) \subseteq 1..done
        BY <1>4 DEF PlacesOf
      <4>2. IsFiniteSet(1..done)
        <5>1. 1 \in Int /\ done \in Int
          BY <1>6
        <5> QED
          BY <5>1, FS_Interval
      <4> QED
        BY <4>1, <4>2, FS_Subset
    <3>5. /\ Cardinality(NamesOf(s, tool) \cup {name}) = Cardinality(NamesOf(s, tool)) + 1
          /\ Cardinality(PlacesOf(s, tool) \cup {done + 1}) = Cardinality(PlacesOf(s, tool)) + 1
      BY <3>1, <3>2, <3>3, <3>4, FS_AddElement
    <3> QED
      BY <2>1, <2>3, <3>1, <3>3, <3>5
  <2> QED
    BY <2>2, <2>3
<1> QED
  BY <1>1, <1>2, <1>10, <1>11, <1>12, <1>13, <1>14 DEF ToolInv

LEMMA StepTools == ToolInv /\ [Next]_vars => ToolInv'
<1> SUFFICES ASSUME ToolInv, [Next]_vars PROVE ToolInv'
  OBVIOUS
<1>1. CASE RegisterTool
  BY <1>1, RegisterTool_ToolInv
<1>2. CASE KeepClient
  BY <1>2, KeepClient_ToolInv
<1>3. CASE ListTools
  BY <1>3, ListTools_ToolInv
<1>4. CASE Resolve \/ Start \/ Ask \/ Initialize \/ StreamEnds
  <2>1. /\ UNCHANGED <<servers, registry, tools, cur, left>>
        /\ step' = step \/ (step # "register" /\ step' # "register")
    BY <1>4 DEF Resolve, Start, Ask, Initialize, StreamEnds, Answers, Loading
  <2> QED
    BY <2>1, QuietTools
<1>5. CASE UNCHANGED <<servers, loadVars>>
  BY <1>5, QuietTools DEF loadVars
<1>6. CASE StartFails \/ RequestFails \/ Loaded
  BY <1>5, <1>6 DEF StartFails, RequestFails, Loaded, Unwind
<1>7. CASE Serve \/ Killed \/ Fatal \/ Signal \/ Close \/ LogNote
  BY <1>5, <1>7 DEF Serve, Killed, Fatal, Signal, Close, LogNote, CloseClient, CloseClientsEnd,
                    CloseNotifications, Ends
<1>8. ASSUME NEW i \in Slots, ServerExits(i) \/ Emit(i) \/ Forward(i)
      PROVE  ToolInv'
  <2>1. UNCHANGED <<servers, registry, tools, cur, left, step>>
    BY <1>8 DEF ServerExits, Emit, Forward, ForwardTake, ForwardPush, ForwardStop, loadVars
  <2> QED
    BY <2>1, QuietTools
<1>9. CASE UNCHANGED vars
  BY <1>5, <1>9 DEF vars, loadVars, askVars
<1> QED
  BY <1>1, <1>2, <1>3, <1>4, <1>6, <1>7, <1>8, <1>9 DEF Next, Load

(***************************************************************************)
(* However many servers offer tools of whatever names, uniqueToolName      *)
(* gives each tool a name that nothing had before: no tool is replaced, no *)
(* built-in one either, and the list of tools is what the registry holds.  *)
(***************************************************************************)
THEOREM ToolsHaveNamesOfTheirOwn == Spec => []EveryToolIsReachable
<1>1. ToolInv => EveryToolIsReachable
  <2> SUFFICES ASSUME ToolInv, NEW i \in DOMAIN servers, NEW t
               PROVE  Cardinality({n \in Names(i) : registry[n].tool = t})
                        = Cardinality({k \in 1..Done(i) : servers[i].tools[k] = t})
    BY DEF ToolInv, EveryToolIsReachable, Done
  <2>1. DOMAIN servers = 1..Len(servers)
    BY LenProperties DEF ToolInv
  <2>2. Cardinality(NamesOf(i, t)) = Cardinality(PlacesOf(i, t))
    BY <2>1 DEF ToolInv
  <2>3. {n \in Names(i) : registry[n].tool = t} = NamesOf(i, t)
    BY DEF NamesOf
  <2>4. {k \in 1..Done(i) : servers[i].tools[k] = t} = PlacesOf(i, t)
    BY DEF PlacesOf
  <2> QED
    BY <2>2, <2>3, <2>4
<1> QED
  BY <1>1, InitTools, StepTools, PTL DEF Spec
=============================================================================
