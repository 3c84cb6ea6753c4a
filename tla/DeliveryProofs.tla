--------------------------- MODULE DeliveryProofs ---------------------------
(***************************************************************************)
(* Proofs about Delivery for any messages and texts, any window, limit and *)
(* number of attempts, and any number of updates, repeats, losses and      *)
(* crashes.                                                                *)
(*   Window ties the list of ids to the set: an id that was handed over    *)
(* stays in the set until it is evicted.                                   *)
(*   PollInv says why the Bot API may forget: nothing below the offset is  *)
(* open, and nothing between two updates of a batch.                       *)
(*   ReplyInv, ChatInv and Covered say where Send stands in the reply and  *)
(* what of it the chat has; Handled, that what counts as handled has been  *)
(* answered.                                                               *)
(***************************************************************************)
EXTENDS Delivery, FiniteSetTheorems, SequenceTheorems, WellFoundedInduction, TLAPS

\* The list names each id of the set once.
Lists(order, set) ==
  /\ order \in Seq(set)
  /\ \A u \in set : \E i \in DOMAIN order : order[i] = u
  /\ \A i, j \in DOMAIN order : order[i] = order[j] => i = j
  /\ IsFiniteSet(set) /\ Cardinality(set) = Len(order)

Window ==
  /\ Lists(seenOrder, seenSet) /\ Len(seenOrder) <= DedupeWindow
  /\ turns \in [Ids -> Nat]
  /\ \A u \in Ids : turns[u] > 0 => u \in seenSet \cup evicted
  /\ \A u \in Ids : turns[u] > 1 => u \in evicted

-----------------------------------------------------------------------------
(* Lists that name a set. *)

LEMMA AppendLists ==
  ASSUME NEW order, NEW set, NEW u, Lists(order, set), u \notin set
  PROVE  Lists(Append(order, u), set \cup {u})
<1> DEFINE new == Append(order, u)
           all == set \cup {u}
<1>1. order \in Seq(all) /\ u \in all
  BY DEF Lists
<1>2. /\ new \in Seq(all) /\ Len(new) = Len(order) + 1 /\ new[Len(order) + 1] = u
      /\ \A i \in 1..Len(order) : new[i] = order[i] /\ order[i] \in set
      /\ Len(order) \in Nat
  BY <1>1 DEF Lists
<1>3. \A v \in all : \E i \in DOMAIN new : new[i] = v
  <2> SUFFICES ASSUME NEW v \in all PROVE \E i \in DOMAIN new : new[i] = v
    OBVIOUS
  <2>1. CASE v = u
    <3> WITNESS Len(order) + 1 \in DOMAIN new
    <3> QED
      BY <1>2, <2>1
  <2>2. CASE v \in set
    <3>1. PICK i \in 1..Len(order) : order[i] = v
      BY <2>2 DEF Lists
    <3> WITNESS i \in DOMAIN new
    <3> QED
      BY <1>2, <3>1
  <2> QED
    BY <2>1, <2>2
<1>4. \A i, j \in DOMAIN new : new[i] = new[j] => i = j
  <2> HIDE DEF new
  <2> QED
    BY <1>2 DEF Lists
<1>5. IsFiniteSet(all) /\ Cardinality(all) = Cardinality(set) + 1
  BY FS_AddElement DEF Lists
<1> QED
  BY <1>2, <1>3, <1>4, <1>5 DEF Lists

LEMMA TailLists ==
  ASSUME NEW order, NEW set, Lists(order, set), order # <<>>
  PROVE  Head(order) \in set /\ Lists(Tail(order), set \ {Head(order)})
<1> DEFINE first == Head(order)
           rest  == Tail(order)
<1>1. /\ Len(order) \in Nat /\ Len(order) > 0 /\ first = order[1] /\ first \in set
      /\ rest \in Seq(set) /\ Len(rest) = Len(order) - 1
      /\ \A i \in 1..Len(rest) : rest[i] = order[i + 1]
      /\ DOMAIN rest = 1..Len(rest)
  BY DEF Lists
<1> HIDE DEF first, rest
<1>0. \A i, j \in 1..Len(order) : order[i] \in set /\ (order[i] = order[j] => i = j)
  BY DEF Lists
<1>2. \A i \in 1..Len(rest) : rest[i] \in set \ {first}
  <2> SUFFICES ASSUME NEW i \in 1..Len(rest) PROVE order[i + 1] \in set \ {order[1]}
    BY <1>1
  <2>1. 1 \in 1..Len(order) /\ i + 1 \in 1..Len(order) /\ i + 1 # 1
    BY <1>1
  <2> QED
    BY <1>0, <2>1
<1>3. rest \in Seq(set \ {first})
  <2>1. rest \in [1..Len(rest) -> set \ {first}]
    BY <1>1, <1>2
  <2> QED
    BY <1>1, <2>1, SeqDef
<1>4. \A v \in set \ {first} : \E i \in DOMAIN rest : rest[i] = v
  <2> SUFFICES ASSUME NEW v \in set, v # first PROVE \E i \in DOMAIN rest : rest[i] = v
    OBVIOUS
  <2>1. PICK i \in 1..Len(order) : order[i] = v
    BY DEF Lists
  <2>2. i - 1 \in 1..Len(rest) /\ rest[i - 1] = order[i]
    BY <1>1, <2>1
  <2> QED
    BY <1>1, <2>1, <2>2
<1>5. \A i, j \in DOMAIN rest : rest[i] = rest[j] => i = j
  <2> SUFFICES ASSUME NEW i \in 1..Len(rest), NEW j \in 1..Len(rest), order[i + 1] = order[j + 1]
               PROVE  i = j
    BY <1>1
  <2>1. i + 1 \in 1..Len(order) /\ j + 1 \in 1..Len(order)
    BY <1>1
  <2>2. i + 1 = j + 1
    BY <1>0, <2>1
  <2> QED
    BY <2>2
<1>6. IsFiniteSet(set \ {first}) /\ Cardinality(set \ {first}) = Cardinality(set) - 1
  BY <1>1, FS_RemoveElement DEF Lists
<1>7. Lists(rest, set \ {first})
  BY <1>1, <1>3, <1>4, <1>5, <1>6 DEF Lists
<1> QED
  BY <1>1, <1>7 DEF first, rest

-----------------------------------------------------------------------------
(* The window. *)

\* What isDuplicateUpdate leaves when it has taken a new id in.
LEMMA RememberKeeps ==
  ASSUME Window, NEW u, u \notin seenSet, Remember(u)
  PROVE  /\ Lists(seenOrder', seenSet') /\ Len(seenOrder') <= DedupeWindow
         /\ evicted \subseteq evicted'
         /\ seenSet \cup {u} \cup evicted \subseteq seenSet' \cup evicted'
<1> DEFINE order == Append(seenOrder, u)
           all   == seenSet \cup {u}
<1>1. Lists(order, all)
  BY AppendLists DEF Window
<1>2. Len(order) = Len(seenOrder) + 1 /\ Len(seenOrder) \in Nat /\ order # <<>>
  BY DEF Window, Lists
<1>3. DedupeWindow \in Nat \ {0}
  BY TelegramAssumption
<1> HIDE DEF order
<1>4. CASE Len(order) > DedupeWindow
  <2>1. /\ seenOrder' = Tail(order) /\ seenSet' = all \ {Head(order)}
        /\ evicted' = evicted \cup {Head(order)}
    BY <1>4 DEF Remember, order
  <2>2. Lists(Tail(order), all \ {Head(order)}) /\ Len(Tail(order)) = Len(order) - 1
    <3>1. order \in Seq(all) /\ Len(Tail(order)) = Len(order) - 1
      BY <1>1, <1>2 DEF Lists
    <3> QED
      BY <1>1, <1>2, <3>1, TailLists
  <2> QED
    BY <1>2, <1>3, <2>1, <2>2 DEF Window
<1>5. CASE ~(Len(order) > DedupeWindow)
  <2>1. seenOrder' = order /\ seenSet' = all /\ evicted' = evicted
    BY <1>5 DEF Remember, order
  <2> QED
    BY <1>1, <1>2, <1>3, <1>5, <2>1
<1> QED
  BY <1>4, <1>5

LEMMA EmptyWindow ==
  ASSUME seenOrder = <<>>, seenSet = {}, turns = [u \in Ids |-> 0], evicted = {}
  PROVE  Window
<1>1. IsFiniteSet({}) /\ Cardinality({}) = 0
  BY FS_EmptySet
<1>2. Lists(<<>>, {})
  BY <1>1 DEF Lists
<1> QED
  BY <1>2, TelegramAssumption DEF Window

\* An update is handed over only if its id was not in the window.
LEMMA TakeKeepsWindow ==
  ASSUME Window, NEW u, u \notin seenSet, Remember(u),
         turns' \in {turns, [turns EXCEPT ![u] = @ + 1]}
  PROVE  Window'
<1>1. /\ Lists(seenOrder', seenSet') /\ Len(seenOrder') <= DedupeWindow
      /\ evicted \subseteq evicted'
      /\ seenSet \cup {u} \cup evicted \subseteq seenSet' \cup evicted'
  BY RememberKeeps
<1>2. turns' \in [Ids -> Nat]
      /\ \A v \in Ids : turns'[v] = turns[v] \/ (v = u /\ turns'[v] = turns[v] + 1)
  BY DEF Window
<1>3. ASSUME NEW v \in Ids
      PROVE  /\ turns'[v] > 0 => v \in seenSet' \cup evicted'
             /\ turns'[v] > 1 => v \in evicted'
  BY <1>1, <1>2 DEF Window
<1> QED
  BY <1>1, <1>2, <1>3 DEF Window

LEMMA SameWindow == Window /\ UNCHANGED <<seenVars, turns>> => Window'
  BY DEF Window, Lists, seenVars

LEMMA StepWindow == Window /\ [DNext]_allVars => Window'
<1> SUFFICES ASSUME Window, [DNext]_allVars PROVE Window'
  OBVIOUS
<1>1. CASE TakeAndSkip
  BY <1>1, TakeKeepsWindow DEF TakeAndSkip
<1>2. CASE TakeAndHandle
  BY <1>2, TakeKeepsWindow DEF TakeAndHandle
<1>3. CASE Restart
  <2>1. seenOrder' = <<>> /\ seenSet' = {} /\ turns' = [u \in Ids |-> 0] /\ evicted' = {}
    BY <1>3 DEF Restart
  <2>2. Window'
    BY <2>1, FS_EmptySet, TelegramAssumption DEF Window, Lists
  <2> QED
    BY <2>2
<1>4. CASE UNCHANGED vars
  BY <1>4, SameWindow DEF vars, seenVars
<1>5. ASSUME Arrive \/ Poll \/ PollRepeat \/ PollLost \/ TakeDuplicate \/ HandleOk \/ HandleFails
             \/ \E user \in Users : IntervalEnds(user)
      PROVE  Window'
  <2>1. UNCHANGED <<seenVars, turns>>
    BY <1>5 DEF Arrive, Poll, PollRepeat, PollLost, TakeDuplicate, HandleOk, HandleFails,
                IntervalEnds
  <2> QED
    BY <2>1, SameWindow
<1>6. CASE UNCHANGED allVars
  BY <1>4, <1>6 DEF allVars
<1> QED
  BY <1>1, <1>2, <1>3, <1>4, <1>5, <1>6
     DEF DNext, World, RestartAll, Ask, TakeHelp, TakeOther, TakeMessage, SendText, Post, PostOk,
         PostAgain, PostFails, HelpFails, PostError, Finish, HelpEnds, HandleEnds, HandleBreaks

(***************************************************************************)
(* Between two restarts no update is handed over twice, however often the  *)
(* Bot API repeats it, unless its id had left the window, and the window   *)
(* never outgrows its size.                                                *)
(***************************************************************************)
THEOREM HandledOnce == DSpec => []DuplicatesAreIgnored
<1>1. DInit => Window
  BY EmptyWindow DEF DInit, Init
<1>2. Window => DuplicatesAreIgnored
  BY DEF Window, Lists, DuplicatesAreIgnored
<1> QED
  BY <1>1, <1>2, StepWindow, PTL DEF DSpec

-----------------------------------------------------------------------------
(* Cutting a text. *)

\* Every nonempty set of numbers below a bound has a greatest one.
LEMMA GreatestOf ==
  ASSUME NEW S, S # {}, NEW bound \in Nat, S \subseteq 0..bound
  PROVE  Max(S) \in S
<1> DEFINE R == OpToRel(<, Nat)
           T == {bound - x : x \in S}
<1>1. IsWellFoundedOn(R, Nat)
  BY NatLessThanWellFounded
<1>2. \A x, y : <<y, x>> \in R <=> y \in Nat /\ x \in Nat /\ y < x
  BY DEF OpToRel
<1>3. T \subseteq Nat /\ T # {}
  OBVIOUS
<1> HIDE DEF R
<1>4. \E m \in T : \A k \in T : ~(<<k, m>> \in R)
  <2> HIDE DEF T
  <2> QED
    BY <1>1, <1>3, WFMin
<1>5. PICK m \in T : \A k \in T : ~(k < m)
  BY <1>2, <1>3, <1>4
<1>6. PICK x \in S : m = bound - x
  OBVIOUS
<1>7. \A y \in S : x >= y
  <2> SUFFICES ASSUME NEW y \in S PROVE x >= y
    OBVIOUS
  <2>1. bound - y \in T /\ x \in 0..bound /\ y \in 0..bound
    OBVIOUS
  <2>2. ~(bound - y < bound - x)
    BY <1>5, <1>6, <2>1
  <2> QED
    BY <2>1, <2>2
<1> QED
  BY <1>7 DEF Max

\* A chunk has a character at least and as many as the limit at most.
LEMMA ChunkIsCut ==
  ASSUME NEW t \in Seq(Chars), NEW start \in Nat, start < Len(t)
  PROVE  /\ EndOfChunk(t, start) \in Nat /\ EndOfChunk(t, start) <= Len(t)
         /\ start < EndOfChunk(t, start) /\ EndOfChunk(t, start) - start \in 1..Limit
<1>1. Limit \in Nat \ {0} /\ Len(t) \in Nat
  BY DeliveryAssumption, LenProperties
<1>2. CASE Len(t) <= Limit
  BY <1>1, <1>2 DEF EndOfChunk
<1>3. CASE ~(Len(t) <= Limit)
  <2> DEFINE end == IF start + Limit < Len(t) THEN start + Limit ELSE Len(t)
             At(c) == {i \in (start + 1)..(end - 1) : t[i + 1] = c}
  <2>1. end \in Nat /\ end <= Len(t) /\ start < end /\ end - start <= Limit
    BY <1>1
  <2> HIDE DEF end
  <2>2. ASSUME NEW c, At(c) # {}
        PROVE  Max(At(c)) \in (start + 1)..(end - 1)
    <3> DEFINE S == At(c)
    <3>1. S # {} /\ S \subseteq 0..end /\ S \subseteq (start + 1)..(end - 1)
      BY <2>1, <2>2
    <3> HIDE DEF S
    <3>2. Max(S) \in S
      BY <2>1, <3>1, GreatestOf
    <3>3. Max(S) \in (start + 1)..(end - 1)
      BY <3>1, <3>2
    <3> QED
      BY <3>3 DEF S
  <2>3. EndOfChunk(t, start) =
          IF At("nl") # {} THEN Max(At("nl")) ELSE IF At("sp") # {} THEN Max(At("sp")) ELSE end
    BY <1>3 DEF EndOfChunk, Split, end
  <2> HIDE DEF At
  <2>4. EndOfChunk(t, start) \in (start + 1)..end
    <3>1. end \in (start + 1)..end /\ \A x \in (start + 1)..(end - 1) : x \in (start + 1)..end
      BY <2>1
    <3> QED
      BY <2>2, <2>3, <3>1
  <2> HIDE DEF end
  <2> QED
    BY <1>1, <2>1, <2>4
<1> QED
  BY <1>2, <1>3

-----------------------------------------------------------------------------
(* What the Bot API may forget. *)

\* What became of an update is known, or will be before the next getUpdates.
Settled(u) == outcome[u] \in Final \/ poller = "dead" \/ (poller = "handle" /\ hand = u)

PollTypes ==
  /\ sent \in Seq(Messages) /\ Len(sent) <= MaxId
  /\ queue \subseteq 1..Len(sent) /\ seenSet \subseteq 1..Len(sent)
  /\ offset \in Nat /\ offset <= Len(sent) + 1
  /\ batch \in Seq(1..Len(sent))
  /\ poller \in {"poll", "handle", "dead"}
  /\ poller = "handle" => hand \in 1..Len(sent)
  /\ outcome \in [Ids -> Final \cup {"none", "failed"}]

\* The queue is what comes from some update on; the loop has left nothing open
\* below the offset, and nothing below a part of the batch but the parts before it.
PollInv ==
  /\ PollTypes
  /\ \A u \in 1..Len(sent) : u \notin queue => outcome[u] \in Final
  /\ \A u \in queue, v \in 1..Len(sent) : u < v => v \in queue
  /\ \A u \in 1..Len(sent) : u < offset => Settled(u)
  /\ \A u \in seenSet : Settled(u)
  /\ \A i \in 1..Len(batch), v \in 1..Len(sent) :
       v < batch[i] => Settled(v) \/ \E j \in 1..(i - 1) : batch[j] = v

LEMMA NoteKeeps ==
  ASSUME PollTypes, NEW u \in Ids, NEW what \in Final \cup {"failed"}, Note(u, what)
  PROVE  /\ outcome' \in [Ids -> Final \cup {"none", "failed"}]
         /\ \A v \in Ids : outcome[v] \in Final => outcome'[v] = outcome[v]
         /\ what \in Final => outcome'[u] \in Final
         /\ \A v \in Ids : outcome'[v] = outcome[v] \/ (v = u /\ outcome'[v] = what)
BY DEF PollTypes, Note, Final

\* The parts of the invariant that the queue and the outcomes make up.
LEMMA LaterOutcome ==
  ASSUME PollInv, UNCHANGED <<sent, queue>>,
         \A v \in 1..Len(sent) : outcome[v] \in Final => outcome'[v] \in Final
  PROVE  /\ \A u \in 1..Len(sent') : u \notin queue' => outcome'[u] \in Final
         /\ \A u \in queue', v \in 1..Len(sent') : u < v => v \in queue'
BY DEF PollInv

LEMMA SentIds == PollTypes => Len(sent) \in Nat /\ 1..Len(sent) \subseteq Ids
BY TelegramAssumption, LenProperties DEF PollTypes, Ids

\* The loop is done with the head of the batch, or about to be.
LEMMA TakeKeepsPoll ==
  ASSUME PollInv, TakeHead, UNCHANGED <<sent, queue>>,
         outcome' \in [Ids -> Final \cup {"none", "failed"}],
         \A v \in Ids : outcome[v] \in Final => outcome'[v] \in Final,
         poller' \in {"poll", "handle"}, poller' = "handle" => hand' = Head(batch),
         seenSet' \subseteq seenSet \cup {Head(batch)},
         outcome'[Head(batch)] \in Final \/ poller' = "handle"
  PROVE  PollInv'
<1> PICK u : u = Head(batch)
  OBVIOUS
<1>0. /\ Len(sent) \in Nat /\ 1..Len(sent) \subseteq Ids /\ PollTypes
  BY SentIds DEF PollInv
<1>1. /\ poller = "poll" /\ batch # <<>> /\ batch' = Tail(batch)
      /\ offset' = IF u >= offset THEN u + 1 ELSE offset
  BY DEF TakeHead, Advance
<1>2. /\ batch \in Seq(1..Len(sent)) /\ u \in 1..Len(sent) /\ u = batch[1]
      /\ Len(batch) \in Nat /\ Len(batch) > 0 /\ batch' \in Seq(1..Len(sent))
      /\ Len(batch') = Len(batch) - 1
      /\ \A i \in 1..(Len(batch) - 1) : batch'[i] = batch[i + 1]
  <2>1. batch \in Seq(1..Len(sent))
    BY <1>0 DEF PollTypes
  <2>2. /\ Head(batch) = batch[1] /\ Len(batch) \in Nat /\ Len(batch) > 0
        /\ Tail(batch) \in Seq(1..Len(sent)) /\ Len(Tail(batch)) = Len(batch) - 1
        /\ \A i \in 1..(Len(batch) - 1) : Tail(batch)[i] = batch[i + 1]
    BY <1>1, <2>1, HeadTailProperties, LenProperties, EmptySeq
  <2>3. batch[1] \in 1..Len(sent)
    BY <2>1, <2>2, ElementOfSeq
  <2> QED
    BY <1>1, <2>1, <2>2, <2>3
<1>4. /\ Settled(u)' /\ \A v \in 1..Len(sent) : Settled(v) => Settled(v)'
  <2>1. \A v \in 1..Len(sent) : Settled(v) => outcome'[v] \in Final
    BY <1>0, <1>1 DEF Settled
  <2> QED
    BY <2>1 DEF Settled
<1>5. offset \in Nat /\ offset <= Len(sent) + 1 /\ offset' \in Nat /\ offset' <= Len(sent) + 1
  BY <1>0, <1>1, <1>2 DEF PollTypes
<1>6. PollTypes'
  <2>1. sent' = sent /\ queue' = queue /\ queue \subseteq 1..Len(sent) /\ sent \in Seq(Messages)
        /\ Len(sent) <= MaxId /\ seenSet' \subseteq 1..Len(sent)
    BY <1>0, <1>2 DEF PollTypes
  <2> QED
    BY <1>2, <1>5, <2>1 DEF PollTypes
<1>7. \A v \in 1..Len(sent) : v < batch[1] => Settled(v)
  <2>1. PICK k \in 1..Len(batch) : k = 1
    BY <1>2
  <2>2. \A v \in 1..Len(sent) : v < batch[k] => Settled(v) \/ \E j \in 1..(k - 1) : batch[j] = v
    BY DEF PollInv
  <2> QED
    BY <2>1, <2>2
<1>8. \A v \in 1..Len(sent) : v < offset' => Settled(v)'
  <2> SUFFICES ASSUME NEW v \in 1..Len(sent), v < offset' PROVE Settled(v)'
    OBVIOUS
  <2>1. v < offset \/ v < u \/ v = u
    BY <1>1, <1>2, <1>5
  <2>2. v < offset => Settled(v)
    BY DEF PollInv
  <2> QED
    BY <1>2, <1>4, <1>7, <2>1, <2>2
<1>9. \A v \in seenSet' : Settled(v)'
  BY <1>0, <1>4 DEF PollInv, PollTypes
<1>10. ASSUME NEW i \in 1..Len(batch'), NEW v \in 1..Len(sent), v < batch'[i]
       PROVE  Settled(v)' \/ \E j \in 1..(i - 1) : batch'[j] = v
  <2>1. i + 1 \in 1..Len(batch) /\ v < batch[i + 1]
    BY <1>2, <1>10
  <2>2. Settled(v) \/ \E j \in 1..((i + 1) - 1) : batch[j] = v
    BY <2>1 DEF PollInv
  <2>3. CASE Settled(v)
    BY <1>4, <2>3
  <2>4. ASSUME NEW j \in 1..((i + 1) - 1), batch[j] = v
        PROVE  Settled(v)' \/ \E k \in 1..(i - 1) : batch'[k] = v
    <3>1. CASE j = 1
      BY <1>2, <1>4, <2>4, <3>1
    <3>2. CASE j # 1
      <4>1. j - 1 \in 1..(i - 1) /\ j - 1 \in 1..(Len(batch) - 1) /\ (j - 1) + 1 = j
        BY <1>2, <2>1, <3>2
      <4>2. batch'[j - 1] = batch[j]
        <5>1. batch'[j - 1] = batch[(j - 1) + 1]
          BY <1>2, <4>1
        <5> QED
          BY <4>1, <5>1
      <4> QED
        BY <2>4, <4>1, <4>2
    <3> QED
      BY <3>1, <3>2
  <2> QED
    BY <2>2, <2>3, <2>4
<1>11. /\ \A v \in 1..Len(sent') : v \notin queue' => outcome'[v] \in Final
       /\ \A w \in queue', v \in 1..Len(sent') : w < v => v \in queue'
  BY <1>0, LaterOutcome
<1> QED
  BY <1>6, <1>8, <1>9, <1>10, <1>11 DEF PollInv

\* Asking confirms what the loop is done with, and a new batch starts.
LEMMA AskKeepsPoll ==
  ASSUME PollInv, poller = "poll", batch = <<>>, Confirm,
         UNCHANGED <<sent, offset, poller, hand, seenSet, outcome>>,
         batch' \in Seq(1..Len(sent)),
         \A i \in 1..Len(batch'), v \in queue' :
           v < batch'[i] => \E j \in 1..(i - 1) : batch'[j] = v
  PROVE  PollInv'
<1>1. \A v : Settled(v) => outcome[v] \in Final
  BY DEF Settled
<1>2. queue' \subseteq queue /\ \A v \in queue : v >= offset => v \in queue'
  BY DEF Confirm
<1>3. queue \subseteq 1..Len(sent) /\ offset \in Nat /\ Len(sent) \in Nat
  BY SentIds DEF PollInv, PollTypes
<1>4. \A v \in 1..Len(sent) : v \notin queue' => outcome[v] \in Final
  <2> SUFFICES ASSUME NEW v \in 1..Len(sent), v \notin queue' PROVE outcome[v] \in Final
    OBVIOUS
  <2>1. v \notin queue \/ v < offset
    BY <1>2, <1>3
  <2> QED
    BY <1>1, <2>1 DEF PollInv
<1>5. \A w \in queue', v \in 1..Len(sent) : w < v => v \in queue'
  <2> SUFFICES ASSUME NEW w \in queue', NEW v \in 1..Len(sent), w < v PROVE v \in queue'
    OBVIOUS
  <2>1. w >= offset /\ w \in queue /\ w \in 1..Len(sent)
    BY <1>3 DEF Confirm
  <2>2. v \in queue /\ v >= offset
    BY <1>3, <2>1 DEF PollInv
  <2> QED
    BY <1>2, <2>2
<1>6. PollTypes'
  BY <1>2 DEF PollInv, PollTypes
<1>7. \A v : Settled(v) <=> Settled(v)'
  BY DEF Settled
<1>8. ASSUME NEW i \in 1..Len(batch'), NEW v \in 1..Len(sent), v < batch'[i]
      PROVE  Settled(v)' \/ \E j \in 1..(i - 1) : batch'[j] = v
  <2>1. v \notin queue' => Settled(v)'
    BY <1>4 DEF Settled
  <2> QED
    BY <1>8, <2>1
<1>9. /\ \A v \in 1..Len(sent) : v < offset => Settled(v)
      /\ \A v \in seenSet : Settled(v)
  BY DEF PollInv
<1> QED
  BY <1>4, <1>5, <1>6, <1>7, <1>8, <1>9 DEF PollInv

\* Steps that leave the loop where it is, or end a call of onInbound.
LEMMA RestKeepsPoll ==
  ASSUME PollInv, UNCHANGED <<sent, queue, offset, batch, seenSet>>,
         poller' \in {"poll", "handle", "dead"}, poller' = "handle" => hand' \in 1..Len(sent),
         outcome' \in [Ids -> Final \cup {"none", "failed"}],
         \A v \in Ids : outcome[v] \in Final => outcome'[v] \in Final,
         \A v \in 1..Len(sent) : Settled(v) => Settled(v)'
  PROVE  PollInv'
<1>0. /\ Len(sent) \in Nat /\ 1..Len(sent) \subseteq Ids /\ PollTypes
  BY SentIds DEF PollInv
<1>1. /\ \A v \in 1..Len(sent') : v \notin queue' => outcome'[v] \in Final
      /\ \A w \in queue', v \in 1..Len(sent') : w < v => v \in queue'
  BY <1>0, LaterOutcome
<1>2. PollTypes'
  BY <1>0 DEF PollTypes
<1>3. /\ \A v \in 1..Len(sent) : v < offset => Settled(v)'
      /\ \A v \in seenSet : Settled(v)'
  BY <1>0 DEF PollInv, PollTypes
<1>4. \A i \in 1..Len(batch), v \in 1..Len(sent) :
        v < batch[i] => Settled(v)' \/ \E j \in 1..(i - 1) : batch[j] = v
  BY DEF PollInv
<1> QED
  BY <1>1, <1>2, <1>3, <1>4 DEF PollInv

LEMMA ArriveKeepsPoll == PollInv /\ Arrive => PollInv'
<1> SUFFICES ASSUME PollInv, Arrive PROVE PollInv'
  OBVIOUS
<1> PICK n : n = Len(sent)
  OBVIOUS
<1>1. /\ n \in Nat /\ n < MaxId /\ MaxId \in Nat /\ PollTypes
      /\ UNCHANGED <<offset, batch, poller, hand, seenSet, outcome>>
  BY SentIds, TelegramAssumption DEF PollInv, Arrive, seenVars
<1>2. sent' \in Seq(Messages) /\ Len(sent') = n + 1 /\ queue' = queue \cup {n + 1}
  <2>1. PICK m \in Messages : sent' = Append(sent, m)
    BY DEF Arrive
  <2>2. sent' \in Seq(Messages) /\ Len(sent') = n + 1
    BY <1>1, <2>1, AppendProperties DEF PollTypes
  <2> QED
    BY <2>2 DEF Arrive
<1>3. queue \subseteq 1..n /\ seenSet \subseteq 1..n /\ offset \in Nat /\ offset <= n + 1
      /\ batch \in Seq(1..n)
  BY <1>1 DEF PollTypes
<1>4. batch \in Seq(1..(n + 1)) /\ \A i \in 1..Len(batch) : batch[i] \in 1..n
  <2>1. 1..n \subseteq 1..(n + 1)
    BY <1>1
  <2> QED
    BY <1>3, <2>1, ElementOfSeq
<1>5. PollTypes'
  <2>1. /\ queue' \subseteq 1..(n + 1) /\ seenSet' \subseteq 1..(n + 1) /\ n + 1 <= MaxId
        /\ offset' \in Nat /\ offset' <= (n + 1) + 1
    <3>1. /\ queue' \subseteq 1..(n + 1) /\ seenSet' = seenSet /\ seenSet \subseteq 1..(n + 1)
      <4>1. 1..n \subseteq 1..(n + 1) /\ n + 1 \in 1..(n + 1)
        BY <1>1
      <4> QED
        BY <1>1, <1>2, <1>3, <4>1
    <3>2. offset' = offset /\ n + 1 <= MaxId
      BY <1>1
    <3> QED
      BY <1>1, <1>3, <3>1, <3>2
  <2>2. poller' = "handle" => hand' \in 1..(n + 1)
    <3>1. poller = "handle" => hand \in 1..n
      BY <1>1 DEF PollTypes
    <3> QED
      BY <1>1, <3>1
  <2> QED
    BY <1>1, <1>2, <1>4, <2>1, <2>2 DEF PollTypes
<1>6. \A v \in 1..(n + 1) : v \in 1..n \/ v = n + 1
  BY <1>1
<1>7. \A v : Settled(v) <=> Settled(v)'
  BY <1>1 DEF Settled
<1>8. /\ \A v \in 1..(n + 1) : v \notin queue' => outcome'[v] \in Final
      /\ \A w \in queue', v \in 1..(n + 1) : w < v => v \in queue'
      /\ \A v \in 1..(n + 1) : v < offset' => Settled(v)'
      /\ \A v \in seenSet' : Settled(v)'
  <2>1. \A v \in 1..n : v \notin queue => outcome[v] \in Final
    BY DEF PollInv
  <2>2. \A w \in queue, v \in 1..n : w < v => v \in queue
    BY DEF PollInv
  <2>3. \A v \in 1..n : v < offset => Settled(v)
    BY DEF PollInv
  <2>4. \A v \in seenSet : Settled(v)
    BY DEF PollInv
  <2>5. \A v \in 1..(n + 1) : v \notin queue' => outcome'[v] \in Final
    BY <1>1, <1>2, <1>6, <2>1
  <2>6. \A w \in queue', v \in 1..(n + 1) : w < v => v \in queue'
    <3> SUFFICES ASSUME NEW w \in queue', NEW v \in 1..(n + 1), w < v PROVE v \in queue'
      OBVIOUS
    <3>1. v = n + 1 \/ (v \in 1..n /\ w \in queue)
      <4>1. v \in 1..n => w # n + 1
        BY <1>1
      <4> QED
        BY <1>2, <1>6, <4>1
    <3> QED
      BY <1>2, <2>2, <3>1
  <2>7. \A v \in 1..(n + 1) : v < offset' => Settled(v)'
    <3> SUFFICES ASSUME NEW v \in 1..(n + 1), v < offset' PROVE Settled(v)'
      OBVIOUS
    <3>1. v \in 1..n /\ v < offset
      BY <1>1, <1>3
    <3> QED
      BY <1>7, <2>3, <3>1
  <2> QED
    BY <1>1, <1>7, <2>4, <2>5, <2>6, <2>7
<1>9. ASSUME NEW i \in 1..Len(batch'), NEW v \in 1..(n + 1), v < batch'[i]
      PROVE  Settled(v)' \/ \E j \in 1..(i - 1) : batch'[j] = v
  <2>1. i \in 1..Len(batch) /\ batch'[i] = batch[i] /\ batch' = batch
    BY <1>1
  <2>2. batch[i] \in 1..n
    BY <1>4, <2>1
  <2>3. v \in 1..n /\ v < batch[i]
    BY <1>1, <1>9, <2>1, <2>2
  <2>4. Settled(v) \/ \E j \in 1..(i - 1) : batch[j] = v
    BY <2>1, <2>3 DEF PollInv
  <2> QED
    BY <1>7, <2>1, <2>4
<1> QED
  BY <1>2, <1>5, <1>8, <1>9 DEF PollInv

LEMMA PollKeepsPoll == PollInv /\ Poll => PollInv'
<1> SUFFICES ASSUME PollInv, Poll PROVE PollInv'
  OBVIOUS
<1>1. /\ poller = "poll" /\ batch = <<>> /\ Confirm
      /\ UNCHANGED <<sent, offset, poller, hand, seenSet, outcome>>
  BY DEF Poll, seenVars
<1>2. PICK n \in 1..Cardinality(queue') : batch' \in [1..n -> queue'] /\ IsHeadOf(batch', queue')
  BY DEF Poll
<1>3. queue' \subseteq 1..Len(sent) /\ Cardinality(queue') \in Nat
  <2>1. queue' \subseteq 1..Len(sent) /\ Len(sent) \in Nat
    BY <1>1, SentIds DEF PollInv, PollTypes, Confirm
  <2>2. IsFiniteSet(queue')
    <3>1. IsFiniteSet(1..Len(sent))
      BY <2>1, FS_Interval
    <3> QED
      BY <2>1, <3>1, FS_Subset
  <2> QED
    BY <2>1, <2>2, FS_CardinalityType
<1>4. n \in Nat /\ batch' \in Seq(1..Len(sent)) /\ Len(batch') = n /\ DOMAIN batch' = 1..n
  <2>1. n \in Nat
    BY <1>3
  <2>2. batch' \in [1..n -> 1..Len(sent)]
    BY <1>2, <1>3
  <2>3. batch' \in Seq(1..Len(sent))
    BY <2>1, <2>2, IsASeq
  <2> QED
    BY <2>1, <2>2, <2>3, LenProperties
<1>5. \A i \in 1..Len(batch'), v \in queue' : v < batch'[i] => \E j \in 1..(i - 1) : batch'[j] = v
  BY <1>2, <1>4 DEF IsHeadOf
<1> QED
  BY <1>1, <1>4, <1>5, AskKeepsPoll

LEMMA PollRepeatKeepsPoll == PollInv /\ PollRepeat => PollInv'
<1> SUFFICES ASSUME PollInv, PollRepeat PROVE PollInv'
  OBVIOUS
<1>1. /\ poller = "poll" /\ batch = <<>> /\ Confirm
      /\ UNCHANGED <<sent, offset, poller, hand, seenSet, outcome>>
  BY DEF PollRepeat, seenVars
<1>2. PICK u \in DOMAIN sent \ queue' : batch' = <<u>>
  BY DEF PollRepeat
<1>3. /\ u \in 1..Len(sent) /\ batch' \in Seq(1..Len(sent)) /\ Len(batch') = 1 /\ batch'[1] = u
      /\ Len(sent) \in Nat
  BY <1>2, SentIds DEF PollInv, PollTypes
<1>4. \A v \in queue' : ~(v < u)
  <2> SUFFICES ASSUME NEW v \in queue', v < u PROVE FALSE
    OBVIOUS
  <2>1. v \in queue /\ v >= offset /\ v \in Nat /\ offset \in Nat
    BY <1>1, <1>3 DEF Confirm, PollInv, PollTypes
  <2>2. u \in queue /\ u >= offset
    BY <1>3, <2>1 DEF PollInv
  <2> QED
    BY <1>1, <1>2, <2>2 DEF Confirm
<1>5. \A i \in 1..Len(batch'), v \in queue' : v < batch'[i] => \E j \in 1..(i - 1) : batch'[j] = v
  BY <1>3, <1>4
<1> QED
  BY <1>1, <1>3, <1>5, AskKeepsPoll

LEMMA PollLostKeepsPoll == PollInv /\ PollLost => PollInv'
<1> SUFFICES ASSUME PollInv, PollLost PROVE PollInv'
  OBVIOUS
<1>1. /\ poller = "poll" /\ batch = <<>> /\ Confirm /\ batch' = batch
      /\ UNCHANGED <<sent, offset, poller, hand, seenSet, outcome>>
  BY DEF PollLost, seenVars
<1>2. batch' \in Seq(1..Len(sent)) /\ Len(batch') = 0
  BY <1>1
<1>3. 1..Len(batch') = {}
  BY <1>2
<1> QED
  BY <1>1, <1>2, <1>3, AskKeepsPoll

LEMMA HandledKeepsPoll == PollInv /\ (HandleOk \/ HandleFails) => PollInv'
<1> SUFFICES ASSUME PollInv, HandleOk \/ HandleFails PROVE PollInv'
  OBVIOUS
<1>1. /\ UNCHANGED <<sent, queue, offset, batch, seenSet>> /\ poller = "handle"
      /\ \/ poller' = "poll" /\ Note(hand, "handled")
         \/ poller' = "dead" /\ Note(hand, "failed")
  BY DEF HandleOk, HandleFails, seenVars
<1>2. PollTypes /\ hand \in Ids
  BY <1>1, SentIds DEF PollInv, PollTypes
<1>3. /\ outcome' \in [Ids -> Final \cup {"none", "failed"}]
      /\ \A v \in Ids : outcome[v] \in Final => outcome'[v] \in Final
      /\ poller' = "poll" => outcome'[hand] \in Final
  <2>1. CASE Note(hand, "handled")
    BY <1>2, <2>1, NoteKeeps DEF Final
  <2>2. CASE Note(hand, "failed") /\ poller' = "dead"
    BY <1>2, <2>2, NoteKeeps
  <2> QED
    BY <1>1, <2>1, <2>2
<1>4. \A v \in 1..Len(sent) : Settled(v) => Settled(v)'
  <2>1. 1..Len(sent) \subseteq Ids
    BY <1>2, SentIds
  <2> QED
    BY <1>1, <1>3, <2>1 DEF Settled
<1> QED
  BY <1>1, <1>3, <1>4, RestKeepsPoll

LEMMA TakesKeepPoll ==
  PollInv /\ (TakeDuplicate \/ TakeAndSkip \/ TakeAndHandle) => PollInv'
<1> SUFFICES ASSUME PollInv, TakeDuplicate \/ TakeAndSkip \/ TakeAndHandle PROVE PollInv'
  OBVIOUS
<1> PICK u : u = Head(batch)
  OBVIOUS
<1>1. /\ TakeHead /\ UNCHANGED <<sent, queue>> /\ poller = "poll"
  BY DEF TakeDuplicate, TakeAndSkip, TakeAndHandle, TakeHead
<1>2. PollTypes /\ 1..Len(sent) \subseteq Ids /\ u \in 1..Len(sent)
  <2>1. batch \in Seq(1..Len(sent)) /\ batch # <<>>
    BY <1>1 DEF PollInv, PollTypes, TakeHead
  <2>2. Head(batch) \in 1..Len(sent)
    BY <2>1, HeadTailProperties
  <2> QED
    BY <2>2, SentIds DEF PollInv
<1>3. u \in Ids /\ outcome \in [Ids -> Final \cup {"none", "failed"}]
  BY <1>2 DEF PollTypes
<1>4. CASE TakeDuplicate
  <2>1. /\ u \in seenSet /\ UNCHANGED <<poller, hand, seenSet, outcome>>
    BY <1>4 DEF TakeDuplicate, seenVars
  <2>2. outcome[u] \in Final
    BY <1>1, <2>1 DEF PollInv, Settled
  <2> QED
    BY <1>1, <1>3, <2>1, <2>2, TakeKeepsPoll
<1>5. ASSUME Remember(u) PROVE seenSet' \subseteq seenSet \cup {u}
  BY <1>5 DEF Remember
<1>6. CASE TakeAndSkip
  <2>1. Remember(u) /\ poller' = poller /\ (Note(u, "filtered") \/ Note(u, "throttled"))
    BY <1>6 DEF TakeAndSkip
  <2>2. /\ outcome' \in [Ids -> Final \cup {"none", "failed"}]
        /\ \A v \in Ids : outcome[v] \in Final => outcome'[v] \in Final
        /\ outcome'[u] \in Final
    <3>1. CASE Note(u, "filtered")
      BY <1>2, <1>3, <3>1, NoteKeeps DEF Final
    <3>2. CASE Note(u, "throttled")
      BY <1>2, <1>3, <3>2, NoteKeeps DEF Final
    <3> QED
      BY <2>1, <3>1, <3>2
  <2> QED
    BY <1>1, <1>5, <2>1, <2>2, TakeKeepsPoll
<1>7. CASE TakeAndHandle
  <2>1. Remember(u) /\ poller' = "handle" /\ hand' = u /\ outcome' = outcome
    BY <1>7 DEF TakeAndHandle
  <2> QED
    BY <1>1, <1>3, <1>5, <2>1, TakeKeepsPoll
<1> QED
  BY <1>4, <1>6, <1>7

LEMMA RestartKeepsPoll == PollInv /\ Restart => PollInv'
<1> SUFFICES ASSUME PollInv, Restart PROVE PollInv'
  OBVIOUS
<1>1. /\ UNCHANGED <<sent, queue, outcome>>
      /\ offset' = 0 /\ batch' = <<>> /\ poller' = "poll" /\ seenSet' = {}
  BY DEF Restart
<1>2. Len(sent) \in Nat /\ PollTypes
  BY SentIds DEF PollInv
<1>3. PollTypes'
  BY <1>1, <1>2 DEF PollTypes
<1>4. /\ \A v \in 1..Len(sent') : v \notin queue' => outcome'[v] \in Final
      /\ \A w \in queue', v \in 1..Len(sent') : w < v => v \in queue'
  BY <1>1, LaterOutcome
<1>5. /\ \A v \in 1..Len(sent) : ~(v < offset')
      /\ 1..Len(batch') = {}
  BY <1>1, <1>2
<1> QED
  BY <1>1, <1>3, <1>4, <1>5 DEF PollInv

LEMMA SamePoll ==
  PollInv /\ UNCHANGED <<sent, queue, offset, batch, poller, hand, seenSet, outcome>> => PollInv'
BY DEF PollInv, PollTypes, Settled

LEMMA StepPoll == PollInv /\ [DNext]_allVars => PollInv'
<1> SUFFICES ASSUME PollInv, [DNext]_allVars PROVE PollInv'
  OBVIOUS
<1>1. CASE Arrive
  BY <1>1, ArriveKeepsPoll
<1>2. CASE Poll \/ PollRepeat \/ PollLost
  BY <1>2, PollKeepsPoll, PollRepeatKeepsPoll, PollLostKeepsPoll
<1>3. CASE TakeDuplicate \/ TakeAndSkip \/ TakeAndHandle
  BY <1>3, TakesKeepPoll
<1>4. CASE HandleOk \/ HandleFails
  BY <1>4, HandledKeepsPoll
<1>5. CASE Restart
  BY <1>5, RestartKeepsPoll
<1>6. CASE UNCHANGED vars \/ \E user \in Users : IntervalEnds(user)
  <2>1. UNCHANGED <<sent, queue, offset, batch, poller, hand, seenSet, outcome>>
    BY <1>6 DEF vars, IntervalEnds, seenVars
  <2> QED
    BY <2>1, SamePoll
<1>7. CASE UNCHANGED allVars
  BY <1>6, <1>7 DEF allVars
<1> QED
  BY <1>1, <1>2, <1>3, <1>4, <1>5, <1>6, <1>7
     DEF DNext, World, RestartAll, Ask, TakeHelp, TakeOther, TakeMessage, SendText, Post, PostOk,
         PostAgain, PostFails, HelpFails, PostError, Finish, HelpEnds, HandleEnds, HandleBreaks

LEMMA InitPoll == DInit => PollInv
<1> SUFFICES ASSUME DInit PROVE PollInv
  OBVIOUS
<1>1. /\ sent = <<>> /\ queue = {} /\ offset = 0 /\ batch = <<>> /\ poller = "poll"
      /\ seenSet = {} /\ outcome = [u \in Ids |-> "none"] /\ Len(sent) = 0
  BY DEF DInit, Init
<1>2. PollTypes
  BY <1>1, TelegramAssumption DEF PollTypes
<1>3. 1..Len(sent) = {} /\ 1..Len(batch) = {}
  BY <1>1
<1> QED
  BY <1>1, <1>2, <1>3 DEF PollInv

-----------------------------------------------------------------------------
(* The reply. *)

TextType == Seq(Chars) \ {<<>>}

Replies ==
  [to : Nat, texts : Seq(TextType), said : Nat, start : Nat, part : Nat, attempt : 1..MaxAttempts]

\* While the poller is in onInbound there is a reply to its update, and a chunk of
\* a reply has been posted when Send is past the first character of the first text.
ReplyInv ==
  /\ reply \in Replies /\ replies \in Nat
  /\ poller = "handle" => ~Quiet /\ hand = reply.to
  /\ reply.part = 0 <=> reply.said = 0 \/ (reply.said = 1 /\ reply.start = 0)
  /\ reply.said = 0 => reply.start = 0
  /\ reply.said > 0 => ~Quiet /\ reply.start <= Len(Text)
  /\ reply.said <= Len(reply.texts)
  /\ ~Quiet => reply.to \in 1..Len(sent) /\ reply.texts = TextsFor(sent[reply.to])

LEMMA NoReplyIsReply ==
  NoReply \in Replies /\ NoReply.to = 0 /\ NoReply.said = 0 /\ NoReply.start = 0 /\ NoReply.part = 0
  /\ NoReply.texts = <<>>
BY DeliveryAssumption DEF NoReply, Replies, Nothing

LEMMA TextsAreTexts ==
  ASSUME NEW m \in Messages
  PROVE  TextsFor(m) \in Seq(TextType)
<1>1. Answer(m) \in Seq(TextType)
  BY DeliveryAssumption DEF TextType
<1>2. <<HelpText>> \in Seq(TextType)
  BY DEF HelpText, TextType, Chars
<1> QED
  BY <1>1, <1>2 DEF TextsFor

SentGrows == sent' = sent \/ \E m \in Messages : sent' = Append(sent, m)

LEMMA SentKeeps ==
  ASSUME sent \in Seq(Messages), SentGrows
  PROVE  /\ Len(sent) \in Nat /\ Len(sent') \in Nat /\ Len(sent') >= Len(sent)
         /\ \A u \in 1..Len(sent) : u \in 1..Len(sent') /\ sent'[u] = sent[u]
<1>1. CASE sent' = sent
  BY <1>1, LenProperties
<1>2. ASSUME NEW m \in Messages, sent' = Append(sent, m)
      PROVE  /\ Len(sent) \in Nat /\ Len(sent') = Len(sent) + 1
             /\ \A u \in 1..Len(sent) : sent'[u] = sent[u]
  BY <1>2, AppendProperties, LenProperties
<1>3. CASE sent' # sent
  <2>1. /\ Len(sent) \in Nat /\ Len(sent') = Len(sent) + 1
        /\ \A u \in 1..Len(sent) : sent'[u] = sent[u]
    BY <1>2, <1>3 DEF SentGrows
  <2> QED
    BY <2>1
<1> QED
  BY <1>1, <1>3

\* What is known of a chunk that is to be posted.
LEMMA PostingFacts ==
  ASSUME ReplyInv, Posting
  PROVE  /\ ~Quiet /\ reply.said \in 1..Len(reply.texts) /\ Text \in Seq(Chars)
         /\ reply.start \in Nat /\ reply.start < Len(Text)
         /\ Chunk.to \in Nat /\ Chunk.to <= Len(Text) /\ reply.start < Chunk.to
         /\ Chunk.to - Chunk.from \in 1..Limit
         /\ Chunk.update = reply.to /\ Chunk.reply = replies /\ Chunk.part = reply.part + 1
         /\ Chunk.text = reply.said /\ Chunk.from = reply.start
         /\ Chunk \in [update : Nat, reply : Nat, part : Nat, text : Nat, from : Nat, to : Nat]
<1>1. /\ reply.said \in Nat /\ reply.start \in Nat /\ reply.part \in Nat /\ reply.to \in Nat
      /\ reply.texts \in Seq(TextType) /\ replies \in Nat
  BY DEF ReplyInv, Replies
<1>2. reply.said > 0 /\ reply.start < Len(Text)
  BY DEF Posting
<1>3. ~Quiet /\ reply.said \in 1..Len(reply.texts)
  BY <1>1, <1>2 DEF ReplyInv
<1>4. Text \in Seq(Chars)
  BY <1>1, <1>3, ElementOfSeq DEF Text, TextType
<1>5. /\ EndOfChunk(Text, reply.start) \in Nat /\ EndOfChunk(Text, reply.start) <= Len(Text)
      /\ reply.start < EndOfChunk(Text, reply.start)
      /\ EndOfChunk(Text, reply.start) - reply.start \in 1..Limit
  BY <1>1, <1>2, <1>4, ChunkIsCut
<1>6. /\ Chunk.to = EndOfChunk(Text, reply.start)
      /\ Chunk.update = reply.to /\ Chunk.reply = replies /\ Chunk.part = reply.part + 1
      /\ Chunk.text = reply.said /\ Chunk.from = reply.start
  BY DEF Chunk
<1>7. Chunk \in [update : Nat, reply : Nat, part : Nat, text : Nat, from : Nat, to : Nat]
  <2> DEFINE end == EndOfChunk(Text, reply.start)
  <2>1. end \in Nat
    BY <1>5
  <2> HIDE DEF end
  <2>2. Chunk = [update |-> reply.to, reply |-> replies, part |-> reply.part + 1,
                 text |-> reply.said, from |-> reply.start, to |-> end]
    BY DEF Chunk, end
  <2> QED
    BY <1>1, <2>1, <2>2
<1> QED
  BY <1>1, <1>2, <1>3, <1>4, <1>5, <1>6, <1>7

LEMMA RestKeepsReply ==
  ASSUME PollTypes, ReplyInv, SentGrows, UNCHANGED deliveryVars,
         poller' = "handle" => poller = "handle" /\ hand' = hand
  PROVE  ReplyInv'
<1>1. \A u \in 1..Len(sent) : u \in 1..Len(sent') /\ sent'[u] = sent[u]
  BY SentKeeps DEF PollTypes
<1>2. reply' = reply /\ replies' = replies
  BY DEF deliveryVars
<1>3. (Quiet' <=> Quiet) /\ Text' = Text
  BY <1>2 DEF Quiet, Text
<1>4. ~Quiet => reply'.to \in 1..Len(sent') /\ reply'.texts = TextsFor(sent'[reply'.to])
  BY <1>1, <1>2 DEF ReplyInv
<1> QED
  BY <1>2, <1>3, <1>4 DEF ReplyInv

LEMMA BeginKeepsReply ==
  ASSUME PollTypes, ReplyInv, NEW u \in 1..Len(sent), NEW texts, BeginReply(u, texts),
         sent' = sent, texts = TextsFor(sent[u]), poller' = "handle" => hand' = u
  PROVE  ReplyInv'
<1>1. texts \in Seq(TextType) /\ Len(sent) \in Nat
  <2>1. sent[u] \in Messages
    BY ElementOfSeq DEF PollTypes
  <2> QED
    BY <2>1, TextsAreTexts, LenProperties DEF PollTypes
<1>2. reply' = [to |-> u, texts |-> texts, said |-> 0, start |-> 0, part |-> 0, attempt |-> 1]
  BY DEF BeginReply, NoReply
<1>3. reply' \in Replies /\ Len(reply'.texts) \in Nat
  BY <1>1, <1>2, DeliveryAssumption, LenProperties DEF Replies
<1>4. replies' \in Nat /\ ~Quiet'
  BY <1>1, <1>2 DEF BeginReply, ReplyInv, Quiet, Nothing
<1> QED
  BY <1>2, <1>3, <1>4 DEF ReplyInv

LEMMA EndKeepsReply ==
  ASSUME ReplyInv, reply' = NoReply, poller' # "handle", replies' = replies
  PROVE  ReplyInv'
<1>1. Quiet' /\ Len(NoReply.texts) = 0
  BY NoReplyIsReply DEF Quiet, Nothing
<1> QED
  BY <1>1, NoReplyIsReply DEF ReplyInv

LEMMA RepliesFields ==
  ASSUME NEW r \in Replies
  PROVE  /\ r.to \in Nat /\ r.said \in Nat /\ r.start \in Nat /\ r.part \in Nat
         /\ r.texts \in Seq(TextType) /\ r.attempt \in 1..MaxAttempts
<1> PICK Texts : Texts = Seq(TextType)
  OBVIOUS
<1>1. Replies = [to : Nat, texts : Texts, said : Nat, start : Nat, part : Nat,
                 attempt : 1..MaxAttempts]
  BY DEF Replies
<1> QED
  BY <1>1

LEMMA RepliesUpdated ==
  ASSUME NEW r \in Replies, NEW said \in Nat, NEW start \in Nat, NEW part \in Nat,
         NEW attempt \in 1..MaxAttempts, NEW s,
         s = [to |-> r.to, texts |-> r.texts, said |-> said, start |-> start, part |-> part,
              attempt |-> attempt]
  PROVE  s \in Replies
<1> PICK Texts : Texts = Seq(TextType)
  OBVIOUS
<1>1. Replies = [to : Nat, texts : Texts, said : Nat, start : Nat, part : Nat,
                 attempt : 1..MaxAttempts]
  BY DEF Replies
<1> QED
  BY <1>1

\* Each post and each text leave the reply in one of three ways.
LEMMA SendKeepsReply ==
  ASSUME PollTypes, ReplyInv, SendText
  PROVE  ReplyInv' /\ (reply.said > 0 => reply.start = Len(Text) /\ reply.start > 0)
<1>1. /\ reply \in Replies /\ reply.said < Len(reply.texts) /\ ~Quiet /\ ~Posting
      /\ reply' = [reply EXCEPT !.said = reply.said + 1, !.start = 0]
      /\ UNCHANGED <<sent, poller, hand, replies>>
  BY DEF SendText, vars, ReplyInv
<1>2. /\ reply' \in Replies /\ reply'.to = reply.to /\ reply'.texts = reply.texts
      /\ reply'.said = reply.said + 1 /\ reply'.start = 0 /\ reply'.part = reply.part
      /\ reply.said \in Nat /\ reply.start \in Nat /\ reply.part \in Nat
      /\ reply.texts \in Seq(TextType)
  <2>1. /\ reply.said \in Nat /\ reply.start \in Nat /\ reply.part \in Nat
        /\ reply.texts \in Seq(TextType)
    BY <1>1, RepliesFields
  <2>2. reply.said + 1 \in Nat /\ 0 \in Nat
    BY <2>1
  <2>3. reply' \in Replies
    <3>1. reply' = [to |-> reply.to, texts |-> reply.texts, said |-> reply.said + 1, start |-> 0,
                    part |-> reply.part, attempt |-> reply.attempt]
      BY <1>1 DEF Replies
    <3>2. reply.attempt \in 1..MaxAttempts
      BY <1>1, RepliesFields
    <3> QED
      BY <1>1, <2>1, <2>2, <3>1, <3>2, RepliesUpdated
  <2>4. /\ reply'.to = reply.to /\ reply'.texts = reply.texts
        /\ reply'.said = reply.said + 1 /\ reply'.start = 0 /\ reply'.part = reply.part
    BY <1>1 DEF Replies
  <2> QED
    BY <2>1, <2>3, <2>4
<1>3. Len(reply.texts) \in Nat
  BY <1>2, LenProperties
<1>4. reply.said > 0 => reply.start = Len(Text) /\ reply.start > 0
  <2> SUFFICES ASSUME reply.said > 0 PROVE reply.start = Len(Text) /\ reply.start > 0
    OBVIOUS
  <2>1. reply.said \in 1..Len(reply.texts)
    BY <1>1, <1>2, <1>3
  <2>2. Text \in Seq(Chars) /\ Text # <<>>
    BY <1>2, <2>1, ElementOfSeq DEF Text, TextType
  <2>3. Len(Text) \in Nat /\ Len(Text) # 0
    BY <2>2, EmptySeq, LenProperties
  <2> QED
    BY <1>1, <1>2, <2>3 DEF Posting, ReplyInv
<1>5. reply'.part = 0 <=> reply'.said = 0 \/ (reply'.said = 1 /\ reply'.start = 0)
  BY <1>2, <1>4 DEF ReplyInv
<1>6. reply'.said > 0 /\ reply'.said <= Len(reply'.texts) /\ reply'.said \in 1..Len(reply.texts)
  BY <1>1, <1>2, <1>3
<1>7. reply'.start <= Len(Text')
  <2>1. Text' = reply.texts[reply'.said]
    BY <1>2 DEF Text
  <2>2. Len(Text') \in Nat
    <3>1. reply.texts[reply'.said] \in Seq(Chars)
      BY <1>2, <1>6, ElementOfSeq DEF TextType
    <3> QED
      BY <2>1, <3>1, LenProperties
  <2> QED
    BY <1>2, <2>2
<1>8. ~Quiet' /\ reply'.to \in 1..Len(sent') /\ reply'.texts = TextsFor(sent'[reply'.to])
  BY <1>1, <1>2 DEF ReplyInv, Quiet
<1>9. /\ replies' \in Nat
      /\ poller' = "handle" => hand' = reply'.to
  BY <1>1, <1>2 DEF ReplyInv
<1>10. ReplyInv'
  BY <1>2, <1>5, <1>6, <1>7, <1>8, <1>9 DEF ReplyInv
<1> QED
  BY <1>4, <1>10

LEMMA NextKeepsReply ==
  ASSUME PollTypes, ReplyInv, Posting, reply' = NextChunk,
         UNCHANGED <<sent, poller, hand, replies>>
  PROVE  ReplyInv'
<1> PICK end : end = Chunk.to
  OBVIOUS
<1>1. /\ ~Quiet /\ reply.said \in 1..Len(reply.texts) /\ end \in Nat /\ end <= Len(Text)
      /\ reply.start < end /\ reply.start \in Nat
  BY PostingFacts
<1>2. /\ reply \in Replies
      /\ reply' = [reply EXCEPT !.start = end, !.part = reply.part + 1, !.attempt = 1]
  BY DEF NextChunk, ReplyInv
<1>3. /\ reply' \in Replies /\ reply'.to = reply.to /\ reply'.texts = reply.texts
      /\ reply'.said = reply.said /\ reply'.start = end /\ reply'.part = reply.part + 1
      /\ reply.part \in Nat /\ reply.said \in Nat /\ reply.texts \in Seq(TextType)
  <2>1. reply.said \in Nat /\ reply.part \in Nat /\ reply.texts \in Seq(TextType)
    BY <1>2, RepliesFields
  <2>2. reply.part + 1 \in Nat /\ 1 \in 1..MaxAttempts
    BY <2>1, DeliveryAssumption
  <2>3. reply' \in Replies
    <3>1. reply' = [to |-> reply.to, texts |-> reply.texts, said |-> reply.said, start |-> end,
                    part |-> reply.part + 1, attempt |-> 1]
      BY <1>2 DEF Replies
    <3> QED
      BY <1>1, <1>2, <2>1, <2>2, <3>1, RepliesUpdated
  <2>4. /\ reply'.to = reply.to /\ reply'.texts = reply.texts /\ reply'.said = reply.said
        /\ reply'.start = end /\ reply'.part = reply.part + 1
    BY <1>2 DEF Replies
  <2> QED
    BY <2>1, <2>3, <2>4
<1>4. Text' = Text /\ (Quiet' <=> Quiet) /\ Len(reply.texts) \in Nat
  BY <1>3, LenProperties DEF Text, Quiet
<1>5. /\ reply'.part # 0 /\ reply'.said # 0 /\ reply'.start # 0 /\ reply'.said <= Len(reply'.texts)
  BY <1>1, <1>3, <1>4
<1> QED
  BY <1>1, <1>3, <1>4, <1>5 DEF ReplyInv

LEMMA AgainKeepsReply ==
  ASSUME PollTypes, ReplyInv, Posting, reply.attempt < MaxAttempts,
         reply' = [reply EXCEPT !.attempt = reply.attempt + 1],
         UNCHANGED <<sent, poller, hand, replies>>
  PROVE  ReplyInv'
<1>1. reply \in Replies
  BY DEF ReplyInv
<1>2. /\ reply' \in Replies /\ reply'.to = reply.to /\ reply'.texts = reply.texts
      /\ reply'.said = reply.said /\ reply'.start = reply.start /\ reply'.part = reply.part
  BY <1>1, DeliveryAssumption DEF Replies
<1>3. Text' = Text /\ (Quiet' <=> Quiet)
  BY <1>2 DEF Text, Quiet
<1> QED
  BY <1>2, <1>3 DEF ReplyInv

LEMMA HeadIsSent == PollTypes /\ TakeHead => Head(batch) \in 1..Len(sent)
<1> SUFFICES ASSUME PollTypes, TakeHead PROVE Head(batch) \in 1..Len(sent)
  OBVIOUS
<1>1. batch \in Seq(1..Len(sent)) /\ batch # <<>>
  BY DEF PollTypes, TakeHead
<1> QED
  BY <1>1, HeadTailProperties

\* The steps that begin a reply.
LEMMA TakesBegin ==
  ASSUME PollTypes, TakeHelp \/ TakeMessage
  PROVE  \E u \in 1..Len(sent) :
           /\ BeginReply(u, TextsFor(sent[u])) /\ Quiet
           /\ sent' = sent /\ queue' = queue /\ (poller' = "handle" => hand' = u)
<1> PICK u : u = Head(batch)
  OBVIOUS
<1>1. CASE TakeHelp
  <2>1. /\ u \in 1..Len(sent) /\ TakeHead /\ sent' = sent /\ queue' = queue
        /\ poller = "poll" /\ poller' = poller
    BY <1>1, HeadIsSent DEF TakeHelp, TakeAndSkip, TakeHead
  <2>2. BeginReply(u, <<HelpText>>) /\ TextsFor(sent[u]) = <<HelpText>> /\ Quiet
    BY <1>1 DEF TakeHelp, WantsHelp, TextsFor
  <2> QED
    BY <2>1, <2>2
<1>2. CASE TakeMessage
  <2>1. u \in 1..Len(sent) /\ TakeHead /\ sent' = sent /\ queue' = queue /\ hand' = u
    BY <1>2, HeadIsSent DEF TakeMessage, TakeAndHandle
  <2>2. BeginReply(u, Answer(sent[u])) /\ Quiet /\ ~IsHelp(sent[u])
    BY <1>2, <2>1 DEF TakeMessage, TakeAndHandle, Passes
  <2> QED
    BY <2>1, <2>2 DEF TextsFor
<1> QED
  BY <1>1, <1>2

\* A post shows its chunk or does not, and the reply goes on or ends.
LEMMA Posts ==
  ASSUME Post
  PROVE  /\ Posting /\ (Show \/ chat' = chat) /\ replies' = replies /\ sent' = sent
         /\ \/ Show /\ reply' = NextChunk /\ UNCHANGED vars
            \/ /\ reply.attempt < MaxAttempts /\ UNCHANGED vars
               /\ reply' = [reply EXCEPT !.attempt = reply.attempt + 1]
            \/ reply' = NoReply /\ poller' # "handle"
               /\ (UNCHANGED vars \/ (poller = "handle" /\ Note(hand, "failed")))
<1>1. CASE PostOk
  BY <1>1 DEF PostOk, vars
<1>2. CASE PostAgain
  BY <1>2 DEF PostAgain, vars
<1>3. CASE PostFails
  BY <1>3 DEF PostFails, PostError, HandleFails
<1>4. CASE HelpFails
  BY <1>4 DEF HelpFails, PostError, vars
<1> QED
  BY <1>1, <1>2, <1>3, <1>4 DEF Post

\* The reply ends and the chat is as it was.
LEMMA Ends ==
  ASSUME RestartAll \/ Finish
  PROVE  /\ reply' = NoReply /\ UNCHANGED <<sent, chat, replies>> /\ poller' # "handle"
         /\ \/ outcome' = outcome
            \/ Note(hand, "failed")
            \/ /\ poller = "handle" /\ reply.said = Len(reply.texts) /\ ~Posting
               /\ Note(hand, "handled")
<1>1. CASE RestartAll
  BY <1>1 DEF RestartAll, Restart
<1>2. CASE HelpEnds
  BY <1>2 DEF HelpEnds, vars
<1>3. CASE HandleEnds
  BY <1>3 DEF HandleEnds, HandleOk
<1>4. CASE HandleBreaks
  BY <1>4 DEF HandleBreaks, HandleFails
<1> QED
  BY <1>1, <1>2, <1>3, <1>4 DEF Finish

\* Steps that are not about a reply.
LEMMA Rests ==
  ASSUME World \/ Ask \/ TakeOther \/ UNCHANGED allVars
  PROVE  /\ UNCHANGED deliveryVars /\ SentGrows
         /\ poller' = "handle" => poller = "handle" /\ hand' = hand
         /\ outcome' = outcome \/ \E u : Note(u, "filtered") \/ Note(u, "throttled")
<1>0. UNCHANGED deliveryVars
  BY DEF World, Ask, TakeOther, allVars
<1>1. CASE Arrive
  BY <1>0, <1>1 DEF Arrive, SentGrows
<1>2. CASE \/ \E user \in Users : IntervalEnds(user)
           \/ Poll \/ PollRepeat \/ PollLost \/ TakeDuplicate
  BY <1>0, <1>2 DEF IntervalEnds, Poll, PollRepeat, PollLost, TakeDuplicate, SentGrows
<1>3. CASE TakeAndSkip
  BY <1>0, <1>3 DEF TakeAndSkip, TakeHead, SentGrows
<1>4. CASE UNCHANGED allVars
  BY <1>4 DEF allVars, vars, deliveryVars, SentGrows
<1> QED
  BY <1>1, <1>2, <1>3, <1>4 DEF World, Ask, TakeOther

LEMMA StepReply == PollInv /\ ReplyInv /\ [DNext]_allVars => ReplyInv'
<1> SUFFICES ASSUME PollInv, ReplyInv, [DNext]_allVars PROVE ReplyInv'
  OBVIOUS
<1>0. PollTypes
  BY DEF PollInv
<1>1. CASE World \/ Ask \/ TakeOther \/ UNCHANGED allVars
  BY <1>0, <1>1, Rests, RestKeepsReply
<1>2. CASE TakeHelp \/ TakeMessage
  <2>1. PICK u \in 1..Len(sent) :
          /\ BeginReply(u, TextsFor(sent[u]))
          /\ sent' = sent /\ (poller' = "handle" => hand' = u)
    BY <1>0, <1>2, TakesBegin
  <2> QED
    BY <1>0, <2>1, BeginKeepsReply
<1>3. CASE SendText
  BY <1>0, <1>3, SendKeepsReply
<1>4. CASE Post
  <2>1. Posting /\ replies' = replies /\ sent' = sent
    BY <1>4, Posts
  <2>2. CASE reply' = NextChunk /\ UNCHANGED vars
    BY <1>0, <2>1, <2>2, NextKeepsReply DEF vars
  <2>3. CASE /\ reply.attempt < MaxAttempts /\ UNCHANGED vars
             /\ reply' = [reply EXCEPT !.attempt = reply.attempt + 1]
    BY <1>0, <2>1, <2>3, AgainKeepsReply DEF vars
  <2>4. CASE reply' = NoReply /\ poller' # "handle"
    BY <2>1, <2>4, EndKeepsReply
  <2> QED
    BY <1>4, <2>2, <2>3, <2>4, Posts
<1>5. CASE RestartAll \/ Finish
  BY <1>5, Ends, EndKeepsReply
<1> QED
  BY <1>1, <1>2, <1>3, <1>4, <1>5 DEF DNext

LEMMA InitReply == DInit => ReplyInv
<1> SUFFICES ASSUME DInit PROVE ReplyInv
  OBVIOUS
<1>1. reply = NoReply /\ replies = 0 /\ poller = "poll"
  BY DEF DInit, Init
<1>2. Quiet /\ Len(NoReply.texts) = 0
  BY <1>1, NoReplyIsReply DEF Quiet, Nothing
<1> QED
  BY <1>1, <1>2, NoReplyIsReply DEF ReplyInv

-----------------------------------------------------------------------------
(* The chat. *)

Entry == [update : Nat, reply : Nat, part : Nat, text : Nat, from : Nat, to : Nat]

\* The reply stands where chunk d ends.
StandsAfter(d) ==
  /\ d.update = reply.to /\ d.part = reply.part
  /\ \/ d.text = reply.said /\ d.to = reply.start
     \/ reply.said = d.text + 1 /\ reply.start = 0 /\ d.to = Len(reply.texts[d.text])

\* The last chunk of the reply is the one that is being posted or the one before it.
Latest ==
  LET n == Len(chat)
  IN ~Quiet =>
       /\ reply.part > 0 => chat # <<>> /\ chat[n].reply = replies
       /\ chat # <<>> /\ chat[n].reply = replies =>
            (Posting /\ chat[n] = Chunk) \/ StandsAfter(chat[n])
       /\ \A i \in 1..n : chat[i].reply = replies =>
            /\ chat[i].part <= reply.part + 1
            /\ chat[i].part = reply.part + 1 =>
                 Posting /\ chat[i] = Chunk /\ n - i + 1 < reply.attempt

Entries ==
  /\ chat \in Seq(Entry)
  /\ \A i \in 1..Len(chat) :
       /\ chat[i].update \in 1..Len(sent) /\ chat[i].reply <= replies /\ chat[i].part > 0

ChatInv == Entries /\ ChatIsInOrder /\ Latest

\* What is in the chat stays in order while messages arrive and replies begin.
LEMMA SameChat ==
  ASSUME PollTypes, ReplyInv, Entries, ChatIsInOrder, SentGrows, chat' = chat,
         replies' \in {replies, replies + 1}
  PROVE  Entries' /\ ChatIsInOrder'
<1>1. \A u \in 1..Len(sent) : u \in 1..Len(sent') /\ sent'[u] = sent[u]
  BY SentKeeps DEF PollTypes
<1>2. replies \in Nat /\ chat \in Seq(Entry) /\ Len(chat) \in Nat /\ DOMAIN chat = 1..Len(chat)
  BY LenProperties DEF ReplyInv, Entries
<1>3. \A i \in 1..Len(chat) : chat[i].reply \in Nat
  <2>1. \A i \in 1..Len(chat) : chat[i] \in Entry
    BY <1>2, ElementOfSeq
  <2> QED
    BY <2>1 DEF Entry
<1>4. Entries'
  <2> SUFFICES ASSUME NEW i \in 1..Len(chat)
               PROVE  /\ chat[i].update \in 1..Len(sent') /\ chat[i].reply <= replies'
                      /\ chat[i].part > 0
    BY <1>2 DEF Entries
  <2>1. chat[i].update \in 1..Len(sent) /\ chat[i].reply <= replies /\ chat[i].part > 0
    BY DEF Entries
  <2> QED
    BY <1>1, <1>2, <1>3, <2>1
<1>5. \A i \in 2..Len(chat) :
        Continues(chat[i], chat[i - 1]) => Continues(chat[i], chat[i - 1])'
  <2> SUFFICES ASSUME NEW i \in 2..Len(chat), Continues(chat[i], chat[i - 1])
               PROVE  Continues(chat[i], chat[i - 1])'
    OBVIOUS
  <2>1. i - 1 \in 1..Len(chat)
    BY <1>2
  <2>2. sent'[chat[i - 1].update] = sent[chat[i - 1].update]
    BY <1>1, <2>1 DEF Entries
  <2> QED
    BY <2>2 DEF Continues
<1>6. \A i \in 2..Len(chat) :
       LET e == chat[i]
           d == chat[i - 1]
       IN \/ e = d
          \/ e.reply = d.reply /\ e.part = d.part + 1 /\ Continues(e, d)'
          \/ e.reply > d.reply /\ Begins(e)
  BY <1>5 DEF ChatIsInOrder
<1>7. ChatIsInOrder'
  BY <1>6 DEF ChatIsInOrder, Begins, Continues
<1> QED
  BY <1>4, <1>7

\* The new chunk goes on where the chat was left.
LEMMA ShowKeepsChat ==
  ASSUME PollTypes, ReplyInv, ChatInv, Posting, Show, sent' = sent, replies' = replies
  PROVE  Entries' /\ ChatIsInOrder'
<1> PICK e : e = Chunk
  OBVIOUS
<1> PICK n : n = Len(chat)
  OBVIOUS
<1>1. /\ ~Quiet /\ reply.said \in 1..Len(reply.texts) /\ reply.start \in Nat
      /\ reply.start < Len(Text) /\ e.to - e.from \in 1..Limit
      /\ e.update = reply.to /\ e.reply = replies /\ e.part = reply.part + 1
      /\ e.text = reply.said /\ e.from = reply.start /\ e \in Entry
  BY PostingFacts DEF Entry
<1>2. /\ chat \in Seq(Entry) /\ n \in Nat /\ DOMAIN chat = 1..n /\ chat' \in Seq(Entry)
      /\ Len(chat') = n + 1 /\ DOMAIN chat' = 1..(n + 1) /\ chat'[n + 1] = e
      /\ \A i \in 1..n : chat'[i] = chat[i]
  <2>1. chat \in Seq(Entry) /\ chat' = Append(chat, e)
    BY DEF ChatInv, Entries, Show
  <2> QED
    BY <1>1, <2>1, AppendProperties, LenProperties
<1>3. \A i \in 1..(n + 1) : i \in 1..n \/ i = n + 1
  BY <1>2
<1>4. /\ reply.to \in 1..Len(sent) /\ reply.texts = TextsFor(sent[reply.to])
      /\ reply.part \in Nat /\ replies \in Nat /\ reply.said \in Nat
      /\ reply.attempt \in 1..MaxAttempts
  <2>1. reply \in Replies
    BY DEF ReplyInv
  <2> QED
    BY <1>1, <2>1, RepliesFields DEF ReplyInv
<1>5. \A i \in 1..n : /\ chat[i].update \in 1..Len(sent) /\ chat[i].reply <= replies
                      /\ chat[i].part > 0 /\ chat[i] \in Entry
  BY <1>2, ElementOfSeq DEF ChatInv, Entries
<1>6. Entries'
  <2>1. e.update \in 1..Len(sent) /\ e.reply <= replies /\ e.part > 0
    BY <1>1, <1>4
  <2> QED
    BY <1>2, <1>3, <1>5, <2>1 DEF Entries
<1>7. /\ reply.part > 0 => chat # <<>> /\ chat[n].reply = replies
      /\ chat # <<>> /\ chat[n].reply = replies => chat[n] = e \/ StandsAfter(chat[n])
      /\ \A i \in 1..n : chat[i].reply = replies =>
           /\ chat[i].part <= reply.part + 1
           /\ chat[i].part = reply.part + 1 => chat[i] = e /\ n - i + 1 < reply.attempt
  BY <1>1 DEF ChatInv, Latest
<1>8. \A i \in 1..(n + 1) : chat'[i].to - chat'[i].from \in 1..Limit
  BY <1>1, <1>2, <1>3 DEF ChatInv, ChatIsInOrder
<1>9. chat = <<>> => Begins(e)
  BY <1>1, <1>4, <1>7 DEF Begins, ReplyInv
<1>10. ASSUME chat # <<>>
       PROVE  \/ e = chat[n]
              \/ e.reply = chat[n].reply /\ e.part = chat[n].part + 1 /\ Continues(e, chat[n])
              \/ e.reply > chat[n].reply /\ Begins(e)
  <2> PICK d : d = chat[n]
    OBVIOUS
  <2>1. n \in 1..n
    BY <1>2, <1>10, EmptySeq
  <2>2. d \in Entry /\ d.reply <= replies /\ d.part > 0
    BY <1>5, <2>1
  <2>3. CASE d.reply = replies
    <3>1. CASE StandsAfter(d)
      <4>1. e.update = d.update /\ e.part = d.part + 1
        BY <1>1, <3>1 DEF StandsAfter
      <4>2. Continues(e, d)
        BY <1>1, <1>4, <3>1, <4>1 DEF StandsAfter, Continues
      <4> QED
        BY <1>1, <2>3, <4>1, <4>2
    <3> QED
      BY <1>7, <1>10, <2>3, <3>1
  <2>4. CASE d.reply # replies
    <3>1. d.reply \in Nat /\ d.reply < replies
      BY <1>4, <2>2, <2>4 DEF Entry
    <3>2. ~(reply.part > 0)
      BY <1>7, <2>4
    <3>3. reply.part = 0 /\ reply.said = 1 /\ reply.start = 0
      BY <1>1, <1>4, <3>2 DEF ReplyInv
    <3> QED
      BY <1>1, <3>1, <3>3 DEF Begins
  <2> QED
    BY <2>3, <2>4
<1>11. chat' # <<>> => Begins(chat'[1])
  <2>1. CASE chat = <<>>
    <3>1. n = 0
      BY <2>1
    <3> QED
      BY <1>2, <1>9, <2>1, <3>1
  <2>2. CASE chat # <<>>
    <3>1. 1 \in 1..n
      BY <1>2, <2>2, EmptySeq
    <3> QED
      BY <1>2, <2>2, <3>1 DEF ChatInv, ChatIsInOrder
  <2> QED
    BY <2>1, <2>2
<1>12. ASSUME NEW i \in 2..(n + 1)
       PROVE  \/ chat'[i] = chat'[i - 1]
              \/ /\ chat'[i].reply = chat'[i - 1].reply /\ chat'[i].part = chat'[i - 1].part + 1
                 /\ Continues(chat'[i], chat'[i - 1])
              \/ chat'[i].reply > chat'[i - 1].reply /\ Begins(chat'[i])
  <2>1. CASE i = n + 1
    <3>1. chat # <<>> /\ i - 1 = n /\ n \in 1..n /\ chat'[i] = e /\ chat'[i - 1] = chat[n]
      BY <1>2, <2>1
    <3> QED
      BY <1>10, <3>1
  <2>2. CASE i # n + 1
    <3>1. i \in 2..n /\ i \in 1..n /\ i - 1 \in 1..n
      BY <1>2, <2>2
    <3>2. chat'[i] = chat[i] /\ chat'[i - 1] = chat[i - 1]
      BY <1>2, <3>1
    <3> QED
      BY <1>2, <3>1, <3>2 DEF ChatInv, ChatIsInOrder
  <2> QED
    BY <2>1, <2>2
<1>13. ASSUME NEW i \in 1..(n + 1), NEW j \in 1..(n + 1),
              chat'[i].reply = chat'[j].reply, chat'[i].part = chat'[j].part
       PROVE  chat'[i] = chat'[j] /\ j - i < MaxAttempts
  <2>0. MaxAttempts \in Nat /\ MaxAttempts > 0
    BY DeliveryAssumption
  <2>1. \A k \in 1..n : e.reply = chat[k].reply /\ e.part = chat[k].part =>
          chat[k] = e /\ (n + 1) - k < MaxAttempts
    <3> SUFFICES ASSUME NEW k \in 1..n, e.reply = chat[k].reply, e.part = chat[k].part
                 PROVE  chat[k] = e /\ (n + 1) - k < MaxAttempts
      OBVIOUS
    <3>1. chat[k] = e /\ n - k + 1 < reply.attempt
      BY <1>1, <1>7
    <3> QED
      BY <1>2, <1>4, <2>0, <3>1
  <2>2. CASE i \in 1..n /\ j \in 1..n
    BY <1>2, <1>13, <2>2 DEF ChatInv, ChatIsInOrder
  <2>3. CASE i \in 1..n /\ j = n + 1
    BY <1>2, <1>13, <2>1, <2>3
  <2>4. CASE i = n + 1
    <3>1. j - i < MaxAttempts
      BY <1>2, <2>0, <2>4
    <3>2. chat'[i] = chat'[j]
      BY <1>2, <1>3, <1>13, <2>1, <2>4
    <3> QED
      BY <3>1, <3>2
  <2> QED
    BY <1>3, <2>2, <2>3, <2>4
<1>14. ChatIsInOrder'
  BY <1>2, <1>8, <1>11, <1>12, <1>13 DEF ChatIsInOrder, Continues, Begins
<1> QED
  BY <1>6, <1>14

LEMMA ChatFacts ==
  ASSUME ReplyInv, ChatInv
  PROVE  /\ chat \in Seq(Entry) /\ Len(chat) \in Nat /\ DOMAIN chat = 1..Len(chat)
         /\ chat # <<>> => Len(chat) \in 1..Len(chat)
         /\ \A i \in 1..Len(chat) : chat[i] \in Entry /\ chat[i].reply <= replies
         /\ replies \in Nat /\ reply.part \in Nat /\ reply.said \in Nat /\ reply.start \in Nat
         /\ reply.attempt \in 1..MaxAttempts
<1>1. chat \in Seq(Entry) /\ Len(chat) \in Nat /\ DOMAIN chat = 1..Len(chat)
  BY LenProperties DEF ChatInv, Entries
<1>2. chat # <<>> => Len(chat) \in 1..Len(chat)
  BY <1>1, EmptySeq
<1>3. \A i \in 1..Len(chat) : chat[i] \in Entry /\ chat[i].reply <= replies
  BY <1>1, ElementOfSeq DEF ChatInv, Entries
<1>4. reply \in Replies /\ replies \in Nat
  BY DEF ReplyInv
<1> QED
  BY <1>1, <1>2, <1>3, <1>4, RepliesFields

LEMMA BeginKeepsLatest ==
  ASSUME ReplyInv, ChatInv, NEW u, NEW texts, BeginReply(u, texts)
  PROVE  Latest'
<1>1. /\ reply' = [NoReply EXCEPT !.to = u, !.texts = texts]
      /\ replies' = replies + 1 /\ chat' = chat
  BY DEF BeginReply
<1>2. reply'.part = 0
  BY <1>1 DEF NoReply
<1>3. \A i \in 1..Len(chat') : chat'[i].reply # replies'
  <2> SUFFICES ASSUME NEW i \in 1..Len(chat) PROVE chat[i].reply # replies + 1
    BY <1>1
  <2>1. chat[i].reply <= replies /\ chat[i].reply \in Nat /\ replies \in Nat
    BY ChatFacts DEF Entry
  <2> QED
    BY <2>1
<1>4. chat' # <<>> => Len(chat') \in 1..Len(chat')
  BY <1>1, ChatFacts
<1> QED
  BY <1>2, <1>3, <1>4 DEF Latest

LEMMA SendKeepsLatest ==
  ASSUME PollTypes, ReplyInv, ChatInv, SendText
  PROVE  Latest'
<1>1. /\ reply \in Replies /\ ~Quiet /\ ~Posting
      /\ reply' = [reply EXCEPT !.said = reply.said + 1, !.start = 0]
      /\ chat' = chat /\ replies' = replies
  BY DEF SendText, ReplyInv
<1>2. /\ reply'.to = reply.to /\ reply'.texts = reply.texts
      /\ reply'.said = reply.said + 1 /\ reply'.start = 0 /\ reply'.part = reply.part
  BY <1>1 DEF Replies
<1>3. /\ reply.said \in Nat /\ reply.start \in Nat /\ reply.part \in Nat /\ Len(chat) \in Nat
      /\ chat # <<>> => Len(chat) \in 1..Len(chat)
      /\ \A i \in 1..Len(chat) : chat[i] \in Entry
  BY ChatFacts
<1>4. reply.said > 0 => reply.start = Len(Text) /\ reply.start > 0
  BY SendKeepsReply
<1>5. ASSUME NEW d \in Entry, d.part > 0, StandsAfter(d)
      PROVE  StandsAfter(d)'
  <2>1. d.text \in Nat /\ d.update = reply.to /\ d.part = reply.part
    BY <1>5 DEF Entry, StandsAfter
  <2>2. CASE d.text = reply.said /\ d.to = reply.start
    <3>1. reply.said > 0
      BY <1>3, <1>5, <2>1 DEF ReplyInv
    <3>2. d.to = Len(reply.texts[d.text])
      BY <1>4, <2>2, <3>1 DEF Text
    <3> QED
      BY <1>2, <2>1, <2>2, <3>2 DEF StandsAfter
  <2>3. CASE reply.said = d.text + 1 /\ reply.start = 0
    BY <1>4, <2>1, <2>3
  <2> QED
    BY <1>5, <2>2, <2>3 DEF StandsAfter
<1>6. \A i \in 1..Len(chat) : chat[i].part > 0
  BY DEF ChatInv, Entries
<1>7. /\ reply.part > 0 => chat # <<>> /\ chat[Len(chat)].reply = replies
      /\ chat # <<>> /\ chat[Len(chat)].reply = replies => StandsAfter(chat[Len(chat)])
      /\ \A i \in 1..Len(chat) : chat[i].reply = replies =>
           chat[i].part <= reply.part + 1 /\ chat[i].part # reply.part + 1
  BY <1>1 DEF ChatInv, Latest
<1>8. chat # <<>> /\ chat[Len(chat)].reply = replies => StandsAfter(chat[Len(chat)])'
  <2> SUFFICES ASSUME chat # <<>>, chat[Len(chat)].reply = replies
               PROVE  StandsAfter(chat[Len(chat)])'
    OBVIOUS
  <2> PICK d : d = chat[Len(chat)]
    OBVIOUS
  <2>1. d \in Entry /\ d.part > 0 /\ StandsAfter(d)
    BY <1>3, <1>6, <1>7
  <2>2. StandsAfter(d)'
    BY <1>5, <2>1
  <2>3. chat'[Len(chat')] = d
    BY <1>1
  <2> QED
    BY <2>2, <2>3 DEF StandsAfter
<1> QED
  BY <1>1, <1>2, <1>7, <1>8 DEF Latest

\* The chunk is in the chat, and the reply stands after it.
LEMMA NextKeepsLatest ==
  ASSUME PollTypes, ReplyInv, ChatInv, Posting, Show, reply' = NextChunk, replies' = replies
  PROVE  Latest'
<1> PICK e : e = Chunk
  OBVIOUS
<1> PICK n : n = Len(chat)
  OBVIOUS
<1>1. /\ ~Quiet /\ e.update = reply.to /\ e.reply = replies /\ e.part = reply.part + 1
      /\ e.text = reply.said /\ e \in Entry /\ e.to \in Nat
  BY PostingFacts DEF Entry
<1>2. /\ chat \in Seq(Entry) /\ n \in Nat /\ chat' = Append(chat, e) /\ reply.part \in Nat
      /\ reply \in Replies
  BY ChatFacts DEF Show, ReplyInv
<1>3. /\ Len(chat') = n + 1 /\ chat'[n + 1] = e /\ chat' # <<>>
      /\ \A i \in 1..n : chat'[i] = chat[i]
  <2>1. /\ Len(chat') = n + 1 /\ chat'[n + 1] = e
        /\ \A i \in 1..n : chat'[i] = chat[i]
    BY <1>1, <1>2, AppendProperties
  <2> QED
    BY <1>2, <2>1
<1>4. /\ reply'.to = reply.to /\ reply'.said = reply.said /\ reply'.start = e.to
      /\ reply'.part = reply.part + 1
  BY <1>2 DEF NextChunk, Replies
<1>5. StandsAfter(e)'
  BY <1>1, <1>4 DEF StandsAfter
<1>6. \A i \in 1..(n + 1) : chat'[i].reply = replies =>
        chat'[i].part <= reply.part + 1
  <2> SUFFICES ASSUME NEW i \in 1..(n + 1), chat'[i].reply = replies
               PROVE  chat'[i].part <= reply.part + 1
    OBVIOUS
  <2>1. CASE i = n + 1
    BY <1>1, <1>2, <1>3, <2>1
  <2>2. CASE i \in 1..n
    BY <1>1, <1>3, <2>2 DEF ChatInv, Latest
  <2> QED
    BY <1>2, <2>1, <2>2
<1>7. \A i \in 1..(n + 1) : chat'[i].reply = replies =>
        chat'[i].part <= reply'.part + 1 /\ chat'[i].part # reply'.part + 1
  <2> SUFFICES ASSUME NEW i \in 1..(n + 1), chat'[i].reply = replies
               PROVE  chat'[i].part <= reply'.part + 1 /\ chat'[i].part # reply'.part + 1
    OBVIOUS
  <2>1. chat'[i].part \in Nat
    <3>1. chat'[i] \in Entry
      BY <1>1, <1>2, <1>3, ChatFacts
    <3> QED
      BY <3>1 DEF Entry
  <2> QED
    BY <1>2, <1>4, <1>6, <2>1
<1>8. StandsAfter(chat[Len(chat)])'
  <2>1. chat'[Len(chat')] = e
    BY <1>3
  <2> QED
    BY <1>5, <2>1 DEF StandsAfter
<1> QED
  BY <1>1, <1>3, <1>7, <1>8 DEF Latest

\* The chunk is posted again, and the last attempt may have shown it.
LEMMA AgainKeepsLatest ==
  ASSUME PollTypes, ReplyInv, ChatInv, Posting, Show \/ chat' = chat, replies' = replies,
         reply' = [reply EXCEPT !.attempt = reply.attempt + 1]
  PROVE  Latest'
<1> PICK e : e = Chunk
  OBVIOUS
<1> PICK n : n = Len(chat)
  OBVIOUS
<1>1. /\ ~Quiet /\ e.update = reply.to /\ e.reply = replies /\ e.part = reply.part + 1
      /\ e \in Entry
  BY PostingFacts DEF Entry
<1>2. /\ chat \in Seq(Entry) /\ n \in Nat /\ reply.part \in Nat /\ reply \in Replies
      /\ reply.attempt \in 1..MaxAttempts /\ MaxAttempts \in Nat
      /\ chat # <<>> => n \in 1..n
  BY ChatFacts, DeliveryAssumption DEF ReplyInv
<1>3. /\ reply'.to = reply.to /\ reply'.said = reply.said /\ reply'.start = reply.start
      /\ reply'.part = reply.part /\ reply'.texts = reply.texts
      /\ reply'.attempt = reply.attempt + 1
  BY <1>2 DEF Replies
<1>4. Posting' /\ Chunk' = e
  BY <1>3 DEF Posting, Text, Chunk
<1>5. /\ reply.part > 0 => chat # <<>> /\ chat[n].reply = replies
      /\ chat # <<>> /\ chat[n].reply = replies => chat[n] = e \/ StandsAfter(chat[n])
      /\ \A i \in 1..n : chat[i].reply = replies =>
           /\ chat[i].part <= reply.part + 1
           /\ chat[i].part = reply.part + 1 => chat[i] = e /\ n - i + 1 < reply.attempt
  BY <1>1 DEF ChatInv, Latest
<1>6. CASE chat' = chat
  <2>1. \A i \in 1..n : chat[i].reply = replies =>
           /\ chat[i].part <= reply.part + 1
           /\ chat[i].part = reply.part + 1 => chat[i] = e /\ n - i + 1 < reply.attempt + 1
    BY <1>2, <1>5
  <2>2. chat # <<>> /\ chat[n].reply = replies => chat[n] = e \/ StandsAfter(chat[Len(chat)])'
    BY <1>3, <1>5, <1>6 DEF StandsAfter
  <2> QED
    BY <1>3, <1>4, <1>5, <1>6, <2>1, <2>2 DEF Latest
<1>7. CASE Show
  <2>1. /\ Len(chat') = n + 1 /\ chat'[n + 1] = e
        /\ \A i \in 1..n : chat'[i] = chat[i]
    BY <1>1, <1>2, <1>7, AppendProperties DEF Show
  <2>2. chat' # <<>> /\ chat'[Len(chat')] = e
    BY <1>2, <2>1
  <2>3. \A i \in 1..(n + 1) : chat'[i].reply = replies =>
           /\ chat'[i].part <= reply.part + 1
           /\ chat'[i].part = reply.part + 1 => chat'[i] = e /\ (n + 1) - i + 1 < reply.attempt + 1
    <3> SUFFICES ASSUME NEW i \in 1..(n + 1), chat'[i].reply = replies
                 PROVE  /\ chat'[i].part <= reply.part + 1
                        /\ chat'[i].part = reply.part + 1 =>
                             chat'[i] = e /\ (n + 1) - i + 1 < reply.attempt + 1
      OBVIOUS
    <3>1. CASE i = n + 1
      <4>1. (n + 1) - i + 1 = 1 /\ 1 < reply.attempt + 1
        BY <1>2, <3>1
      <4> QED
        BY <1>1, <1>2, <2>1, <3>1, <4>1
    <3>2. CASE i \in 1..n
      <4>1. chat'[i] = chat[i] /\ chat[i].reply = replies
        BY <2>1, <3>2
      <4>2. n - i + 1 < reply.attempt => (n + 1) - i + 1 < reply.attempt + 1
        BY <1>2
      <4> QED
        BY <1>5, <3>2, <4>1, <4>2
    <3> QED
      BY <1>2, <3>1, <3>2
  <2> QED
    BY <1>1, <1>3, <1>4, <2>1, <2>2, <2>3 DEF Latest
<1> QED
  BY <1>6, <1>7

LEMMA StepChat == PollInv /\ ReplyInv /\ ChatInv /\ [DNext]_allVars => ChatInv'
<1> SUFFICES ASSUME PollInv, ReplyInv, ChatInv, [DNext]_allVars PROVE ChatInv'
  OBVIOUS
<1>0. PollTypes /\ Entries /\ ChatIsInOrder /\ Latest
  BY DEF PollInv, ChatInv
<1>1. CASE World \/ Ask \/ TakeOther \/ UNCHANGED allVars
  <2>1. UNCHANGED deliveryVars /\ SentGrows
    BY <1>1, Rests
  <2>2. Entries' /\ ChatIsInOrder'
    BY <1>0, <2>1, SameChat DEF deliveryVars
  <2>3. Latest'
    BY <1>0, <2>1 DEF deliveryVars, Latest, Quiet, Posting, Text, Chunk, StandsAfter
  <2> QED
    BY <2>2, <2>3 DEF ChatInv
<1>2. CASE TakeHelp \/ TakeMessage
  <2>1. PICK u \in 1..Len(sent) : BeginReply(u, TextsFor(sent[u])) /\ sent' = sent
    BY <1>0, <1>2, TakesBegin
  <2>2. chat' = chat /\ replies' = replies + 1 /\ SentGrows
    BY <2>1 DEF BeginReply, SentGrows
  <2>3. Entries' /\ ChatIsInOrder'
    BY <1>0, <2>2, SameChat
  <2>4. Latest'
    BY <2>1, BeginKeepsLatest
  <2> QED
    BY <2>3, <2>4 DEF ChatInv
<1>3. CASE SendText
  <2>1. chat' = chat /\ replies' = replies /\ SentGrows
    BY <1>3 DEF SendText, vars, SentGrows
  <2>2. Entries' /\ ChatIsInOrder'
    BY <1>0, <2>1, SameChat
  <2>3. Latest'
    BY <1>0, <1>3, SendKeepsLatest
  <2> QED
    BY <2>2, <2>3 DEF ChatInv
<1>4. CASE Post
  <2>1. Posting /\ (Show \/ chat' = chat) /\ replies' = replies /\ sent' = sent
    BY <1>4, Posts
  <2>2. Entries' /\ ChatIsInOrder'
    <3>1. CASE Show
      BY <1>0, <2>1, <3>1, ShowKeepsChat
    <3>2. CASE chat' = chat
      BY <1>0, <2>1, <3>2, SameChat DEF SentGrows
    <3> QED
      BY <2>1, <3>1, <3>2
  <2>3. CASE Show /\ reply' = NextChunk
    BY <1>0, <2>1, <2>2, <2>3, NextKeepsLatest DEF ChatInv
  <2>4. CASE reply' = [reply EXCEPT !.attempt = reply.attempt + 1]
    BY <1>0, <2>1, <2>2, <2>4, AgainKeepsLatest DEF ChatInv
  <2>5. CASE reply' = NoReply
    <3>1. Quiet'
      BY <2>5, NoReplyIsReply DEF Quiet, Nothing
    <3> QED
      BY <2>2, <3>1 DEF ChatInv, Latest
  <2> QED
    BY <1>4, <2>3, <2>4, <2>5, Posts
<1>5. CASE RestartAll \/ Finish
  <2>1. reply' = NoReply /\ UNCHANGED <<sent, chat, replies>>
    BY <1>5, Ends
  <2>2. Entries' /\ ChatIsInOrder'
    BY <1>0, <2>1, SameChat DEF SentGrows
  <2>3. Quiet'
    BY <2>1, NoReplyIsReply DEF Quiet, Nothing
  <2> QED
    BY <2>2, <2>3 DEF ChatInv, Latest
<1> QED
  BY <1>1, <1>2, <1>3, <1>4, <1>5 DEF DNext

LEMMA InitChat == DInit => ChatInv
<1> SUFFICES ASSUME DInit PROVE ChatInv
  OBVIOUS
<1>1. chat = <<>> /\ reply = NoReply
  BY DEF DInit
<1>2. Quiet /\ Len(chat) = 0 /\ 1..Len(chat) = {} /\ 2..Len(chat) = {} /\ DOMAIN chat = {}
  BY <1>1, NoReplyIsReply DEF Quiet, Nothing
<1> QED
  BY <1>1, <1>2 DEF ChatInv, Entries, ChatIsInOrder, Latest

-----------------------------------------------------------------------------
(* What has been answered. *)

\* Reply n has shown character c of text k to u.
Has(n, u, k, c) == \E e \in Shown(n) : e.update = u /\ e.text = k /\ c \in (e.from + 1)..e.to

\* The chat has every character that Send is past.
Covered ==
  ~Quiet =>
    /\ replies > 0
    /\ \A k \in 1..reply.said : \A c \in 1..Len(reply.texts[k]) :
         k < reply.said \/ c <= reply.start => Has(replies, reply.to, k, c)

Handled == \A u \in Ids : outcome[u] = "handled" => u \in 1..Len(sent) /\ IsAnswered(u)

ChatGrows == Show \/ chat' = chat

LEMMA ShownStays ==
  ASSUME ReplyInv, Posting, chat \in Seq(Entry), Show, NEW e, e = Chunk, NEW r, r = replies
  PROVE  /\ \A n : Shown(n) \subseteq Shown(n)'
         /\ e \in Shown(r)'
<1> PICK n : n = Len(chat)
  OBVIOUS
<1>1. e \in Entry /\ e.reply = r
  BY PostingFacts DEF Entry
<1>2. /\ DOMAIN chat = 1..n /\ DOMAIN chat' = 1..(n + 1) /\ n \in Nat /\ chat'[n + 1] = e
      /\ \A i \in 1..n : chat'[i] = chat[i]
  BY <1>1, AppendProperties, LenProperties DEF Show
<1>3. ASSUME NEW m, NEW d \in Shown(m)
      PROVE  d \in Shown(m)'
  <2>1. PICK i \in 1..n : chat[i].reply = m /\ d = chat[i]
    BY <1>2 DEF Shown
  <2>2. i \in 1..(n + 1) /\ chat'[i] = d
    BY <1>2, <2>1
  <2> QED
    BY <1>2, <2>1, <2>2 DEF Shown
<1>4. e \in Shown(r)'
  <2>1. n + 1 \in DOMAIN chat' /\ chat'[n + 1].reply = r
    BY <1>1, <1>2
  <2> QED
    BY <1>2, <2>1 DEF Shown
<1> QED
  BY <1>3, <1>4

\* An answer stays in the chat.
LEMMA AnswerStays ==
  ASSUME PollTypes, NEW u \in 1..Len(sent), IsAnswered(u), SentGrows,
         \A n : Shown(n) \subseteq Shown(n)', replies \in Nat, replies' \in {replies, replies + 1}
  PROVE  IsAnswered(u)'
<1>1. sent'[u] = sent[u]
  BY SentKeeps DEF PollTypes
<1>2. PICK n \in 1..replies :
        \A k \in DOMAIN TextsFor(sent[u]) : \A c \in 1..Len(TextsFor(sent[u])[k]) :
          \E e \in Shown(n) : e.update = u /\ e.text = k /\ c \in (e.from + 1)..e.to
  BY DEF IsAnswered
<1>3. n \in 1..replies' /\ Shown(n) \subseteq Shown(n)'
  OBVIOUS
<1>4. \A k \in DOMAIN TextsFor(sent'[u]) : \A c \in 1..Len(TextsFor(sent'[u])[k]) :
        \E e \in Shown(n)' : e.update = u /\ e.text = k /\ c \in (e.from + 1)..e.to
  BY <1>1, <1>2, <1>3
<1> QED
  BY <1>3, <1>4 DEF IsAnswered

LEMMA SameShown == chat' = chat => \A n : Shown(n)' = Shown(n)
BY DEF Shown

LEMMA HasStays ==
  ASSUME NEW n, Shown(n) \subseteq Shown(n)', NEW u, NEW k, NEW c, Has(n, u, k, c)
  PROVE  Has(n, u, k, c)'
BY DEF Has

\* Send goes on to the next text when it is at the end of the last one.
LEMMA SendKeepsCovered ==
  ASSUME PollTypes, ReplyInv, Covered, SendText
  PROVE  Covered'
<1>1. /\ reply \in Replies /\ ~Quiet
      /\ reply' = [reply EXCEPT !.said = reply.said + 1, !.start = 0]
      /\ chat' = chat /\ replies' = replies
  BY DEF SendText, ReplyInv
<1>2. /\ reply'.to = reply.to /\ reply'.texts = reply.texts
      /\ reply'.said = reply.said + 1 /\ reply'.start = 0
  BY <1>1 DEF Replies
<1>3. reply.said \in Nat /\ (reply.said > 0 => reply.start = Len(reply.texts[reply.said]))
  BY <1>1, RepliesFields, SendKeepsReply DEF Text
<1>4. ASSUME NEW k \in 1..(reply.said + 1), NEW c \in 1..Len(reply.texts[k]),
             k < reply.said + 1 \/ c <= 0
      PROVE  Has(replies, reply.to, k, c)
  <2>1. k \in 1..reply.said /\ k <= reply.said
    BY <1>3, <1>4
  <2>2. CASE k < reply.said
    BY <1>1, <2>1, <2>2 DEF Covered
  <2>3. CASE k = reply.said
    <3>1. c <= reply.start
      BY <1>3, <2>1, <2>3
    <3> QED
      BY <1>1, <2>1, <3>1 DEF Covered
  <2> QED
    BY <1>3, <2>1, <2>2, <2>3
<1> PICK n : n = replies
  OBVIOUS
<1> PICK u : u = reply.to
  OBVIOUS
<1>5. \A k, c : Has(n, u, k, c) => Has(n, u, k, c)'
  BY <1>1, SameShown, HasStays
<1>6. \A k \in 1..(reply.said + 1) : \A c \in 1..Len(reply.texts[k]) :
        k < reply.said + 1 \/ c <= 0 => Has(n, u, k, c)'
  BY <1>4, <1>5
<1>7. replies > 0
  BY <1>1 DEF Covered
<1> QED
  BY <1>1, <1>2, <1>6, <1>7 DEF Covered, Has

\* The new chunk has the characters from where Send was to where it is now.
LEMMA NextKeepsCovered ==
  ASSUME PollTypes, ReplyInv, chat \in Seq(Entry), Covered, Posting, Show, reply' = NextChunk,
         replies' = replies
  PROVE  Covered'
<1> PICK e : e = Chunk
  OBVIOUS
<1> PICK n : n = replies
  OBVIOUS
<1> PICK u : u = reply.to
  OBVIOUS
<1>1. /\ ~Quiet /\ reply.start \in Nat /\ reply.start < e.to /\ e.to \in Nat
      /\ e.update = u /\ e.text = reply.said /\ e.from = reply.start
      /\ reply \in Replies /\ reply.said \in Nat
  BY PostingFacts, RepliesFields DEF ReplyInv
<1>2. /\ reply'.to = u /\ reply'.texts = reply.texts /\ reply'.said = reply.said
      /\ reply'.start = e.to
  BY <1>1 DEF NextChunk, Replies
<1>3. /\ \A k, c : Has(n, u, k, c) => Has(n, u, k, c)'
      /\ e \in Shown(n)'
  BY ShownStays, HasStays
<1>4. ASSUME NEW k \in 1..reply.said, NEW c \in 1..Len(reply.texts[k]), k < reply.said \/ c <= e.to
      PROVE  Has(n, u, k, c)'
  <2>1. CASE k < reply.said \/ c <= reply.start
    BY <1>1, <1>3, <2>1 DEF Covered
  <2>2. CASE ~(k < reply.said \/ c <= reply.start)
    <3>1. k = reply.said
      BY <1>1, <2>2
    <3>2. c \in Int
      OBVIOUS
    <3>3. c \in (e.from + 1)..e.to
      BY <1>1, <1>4, <2>2, <3>2
    <3> QED
      BY <1>1, <1>3, <3>1, <3>3 DEF Has
  <2> QED
    BY <2>1, <2>2
<1>5. replies > 0
  BY <1>1 DEF Covered
<1> QED
  BY <1>2, <1>4, <1>5 DEF Covered, Has

\* When the reply is at its end everything it says is in the chat.
LEMMA EndIsAnswer ==
  ASSUME ReplyInv, Covered, ~Quiet, ~Posting, reply.said = Len(reply.texts)
  PROVE  IsAnswered(reply.to)
<1>1. /\ reply \in Replies /\ replies \in Nat /\ replies > 0
      /\ reply.texts = TextsFor(sent[reply.to])
  BY DEF ReplyInv, Covered
<1>2. reply.said \in Nat /\ reply.texts \in Seq(TextType) /\ reply.start \in Nat
  BY <1>1, RepliesFields
<1>3. DOMAIN reply.texts = 1..reply.said
  BY <1>2, LenProperties
<1>4. ASSUME NEW k \in 1..reply.said, NEW c \in 1..Len(reply.texts[k])
      PROVE  Has(replies, reply.to, k, c)
  <2>1. CASE k < reply.said
    BY <2>1 DEF Covered
  <2>2. CASE k = reply.said
    <3>1. reply.start = Len(Text)
      <4>1. Text \in Seq(Chars)
        BY <1>2, <1>3, <2>2, ElementOfSeq DEF Text, TextType
      <4>2. Len(Text) \in Nat
        BY <4>1, LenProperties
      <4> QED
        BY <1>2, <2>2, <4>2 DEF ReplyInv, Posting
    <3>2. c <= reply.start
      <4>1. Text = reply.texts[k]
        BY <2>2 DEF Text
      <4> QED
        BY <1>2, <3>1, <4>1
    <3> QED
      BY <3>2 DEF Covered
  <2> QED
    BY <1>2, <2>1, <2>2
<1>5. replies \in 1..replies
  BY <1>1
<1>6. \A k \in DOMAIN TextsFor(sent[reply.to]) : \A c \in 1..Len(TextsFor(sent[reply.to])[k]) :
        Has(replies, reply.to, k, c)
  BY <1>1, <1>3, <1>4
<1> QED
  BY <1>5, <1>6 DEF IsAnswered, Has

LEMMA StepCovered ==
  PollInv /\ ReplyInv /\ ChatInv /\ Covered /\ [DNext]_allVars => Covered'
<1> SUFFICES ASSUME PollInv, ReplyInv, ChatInv, Covered, [DNext]_allVars PROVE Covered'
  OBVIOUS
<1>0. PollTypes /\ chat \in Seq(Entry)
  BY DEF PollInv, ChatInv, Entries
<1>1. CASE World \/ Ask \/ TakeOther \/ UNCHANGED allVars
  <2>1. UNCHANGED deliveryVars
    BY <1>1, Rests
  <2> QED
    BY <2>1 DEF deliveryVars, Covered, Quiet, Has, Shown
<1>2. CASE TakeHelp \/ TakeMessage
  <2>1. PICK u : BeginReply(u, TextsFor(sent[u]))
    BY <1>0, <1>2, TakesBegin
  <2>2. reply'.said = 0 /\ replies' = replies + 1 /\ replies \in Nat
    BY <2>1 DEF BeginReply, NoReply, ReplyInv
  <2>3. 1..reply'.said = {} /\ replies' > 0
    BY <2>2
  <2> QED
    BY <2>3 DEF Covered
<1>3. CASE SendText
  BY <1>0, <1>3, SendKeepsCovered
<1>4. CASE Post
  <2>1. Posting /\ (Show \/ chat' = chat) /\ replies' = replies
    BY <1>4, Posts
  <2>2. CASE Show /\ reply' = NextChunk
    BY <1>0, <2>1, <2>2, NextKeepsCovered
  <2>3. CASE reply' = [reply EXCEPT !.attempt = reply.attempt + 1]
    <3> PICK n : n = replies
      OBVIOUS
    <3> PICK u : u = reply.to
      OBVIOUS
    <3>1. /\ reply'.to = u /\ reply'.texts = reply.texts /\ reply'.said = reply.said
          /\ reply'.start = reply.start
      BY <2>3 DEF ReplyInv, Replies
    <3>2. Shown(n) \subseteq Shown(n)'
      <4>1. CASE Show
        BY <1>0, <2>1, <4>1, ShownStays
      <4>2. CASE chat' = chat
        BY <4>2, SameShown
      <4> QED
        BY <2>1, <4>1, <4>2
    <3>3. \A k, c : Has(n, u, k, c) => Has(n, u, k, c)'
      BY <3>2, HasStays
    <3>4. ~Quiet /\ replies > 0
      BY <2>1, PostingFacts DEF Covered
    <3>5. \A k \in 1..reply.said : \A c \in 1..Len(reply.texts[k]) :
            k < reply.said \/ c <= reply.start => Has(n, u, k, c)'
      BY <3>3, <3>4 DEF Covered
    <3> QED
      BY <2>1, <3>1, <3>4, <3>5 DEF Covered, Has
  <2>4. CASE reply' = NoReply
    BY <2>4, NoReplyIsReply DEF Quiet, Nothing, Covered
  <2> QED
    BY <1>4, <2>2, <2>3, <2>4, Posts
<1>5. CASE RestartAll \/ Finish
  BY <1>5, Ends, NoReplyIsReply DEF Quiet, Nothing, Covered
<1> QED
  BY <1>1, <1>2, <1>3, <1>4, <1>5 DEF DNext

LEMMA NotHandledBy ==
  ASSUME PollTypes, NEW u, NEW what, what # "handled", Note(u, what), NEW v \in Ids,
         outcome'[v] = "handled"
  PROVE  outcome[v] = "handled"
BY DEF PollTypes, Note

\* A step that handles nothing.
LEMMA SameHandled ==
  ASSUME PollTypes, Handled, SentGrows, \A n : Shown(n) \subseteq Shown(n)',
         replies \in Nat, replies' \in {replies, replies + 1},
         \A v \in Ids : outcome'[v] = "handled" => outcome[v] = "handled"
  PROVE  Handled'
<1> SUFFICES ASSUME NEW v \in Ids, outcome'[v] = "handled"
             PROVE  v \in 1..Len(sent') /\ IsAnswered(v)'
  BY DEF Handled
<1>1. v \in 1..Len(sent) /\ IsAnswered(v)
  BY DEF Handled
<1>2. v \in 1..Len(sent')
  BY <1>1, SentKeeps DEF PollTypes
<1> QED
  BY <1>1, <1>2, AnswerStays

LEMMA StepHandled ==
  PollInv /\ ReplyInv /\ ChatInv /\ Covered /\ Handled /\ [DNext]_allVars => Handled'
<1> SUFFICES ASSUME PollInv, ReplyInv, ChatInv, Covered, Handled, [DNext]_allVars PROVE Handled'
  OBVIOUS
<1>0. PollTypes /\ chat \in Seq(Entry) /\ replies \in Nat
  BY DEF PollInv, ReplyInv, ChatInv, Entries
<1>1. CASE World \/ Ask \/ TakeOther \/ UNCHANGED allVars
  <2>1. /\ UNCHANGED deliveryVars /\ SentGrows
        /\ outcome' = outcome \/ \E u : Note(u, "filtered") \/ Note(u, "throttled")
    BY <1>1, Rests
  <2>2. \A n : Shown(n) \subseteq Shown(n)'
    BY <2>1, SameShown DEF deliveryVars
  <2>3. \A v \in Ids : outcome'[v] = "handled" => outcome[v] = "handled"
    <3>1. CASE outcome' = outcome
      BY <3>1
    <3>2. ASSUME NEW u, Note(u, "filtered") \/ Note(u, "throttled")
          PROVE  \A v \in Ids : outcome'[v] = "handled" => outcome[v] = "handled"
      BY <1>0, <3>2, NotHandledBy
    <3> QED
      BY <2>1, <3>1, <3>2
  <2> QED
    BY <1>0, <2>1, <2>2, <2>3, SameHandled DEF deliveryVars
<1>2. CASE TakeHelp \/ TakeMessage
  <2>1. PICK u : BeginReply(u, TextsFor(sent[u])) /\ sent' = sent
    BY <1>0, <1>2, TakesBegin
  <2>2. replies' = replies + 1 /\ chat' = chat /\ SentGrows
    BY <2>1 DEF BeginReply, SentGrows
  <2>3. \A n : Shown(n) \subseteq Shown(n)'
    BY <2>2, SameShown
  <2>4. \A v \in Ids : outcome'[v] = "handled" => outcome[v] = "handled"
    <3> PICK h : h = Head(batch)
      OBVIOUS
    <3>1. outcome' = outcome \/ Note(h, "filtered") \/ Note(h, "throttled")
      BY <1>2 DEF TakeHelp, TakeMessage, TakeAndSkip, TakeAndHandle
    <3> QED
      BY <1>0, <3>1, NotHandledBy
  <2> QED
    BY <1>0, <2>2, <2>3, <2>4, SameHandled
<1>3. CASE SendText
  <2>1. chat' = chat /\ replies' = replies /\ sent' = sent /\ outcome' = outcome
    BY <1>3 DEF SendText, vars
  <2>2. \A n : Shown(n) \subseteq Shown(n)'
    BY <2>1, SameShown
  <2> QED
    BY <1>0, <2>1, <2>2, SameHandled DEF SentGrows
<1>4. CASE Post
  <2>1. Posting /\ (Show \/ chat' = chat) /\ replies' = replies /\ sent' = sent
    BY <1>4, Posts
  <2>2. \A n : Shown(n) \subseteq Shown(n)'
    <3>1. CASE Show
      BY <1>0, <2>1, <3>1, ShownStays
    <3>2. CASE chat' = chat
      BY <3>2, SameShown
    <3> QED
      BY <2>1, <3>1, <3>2
  <2>3. outcome' = outcome \/ Note(hand, "failed")
    BY <1>4, Posts DEF vars
  <2>4. \A v \in Ids : outcome'[v] = "handled" => outcome[v] = "handled"
    <3> PICK u : u = hand
      OBVIOUS
    <3> QED
      BY <1>0, <2>3, NotHandledBy
  <2> QED
    BY <1>0, <2>1, <2>2, <2>4, SameHandled DEF SentGrows
<1>5. CASE RestartAll \/ Finish
  <2>1. UNCHANGED <<sent, chat, replies>>
    BY <1>5, Ends
  <2>2. \A n : Shown(n) \subseteq Shown(n)'
    BY <2>1, SameShown
  <2> PICK h : h = hand
    OBVIOUS
  <2>3. CASE outcome' = outcome \/ Note(h, "failed")
    <3>1. \A v \in Ids : outcome'[v] = "handled" => outcome[v] = "handled"
      BY <1>0, <2>3, NotHandledBy
    <3> QED
      BY <1>0, <2>1, <2>2, <3>1, SameHandled DEF SentGrows
  <2>4. CASE /\ poller = "handle" /\ reply.said = Len(reply.texts) /\ ~Posting
             /\ Note(h, "handled")
    <3>1. ~Quiet /\ h = reply.to /\ h \in 1..Len(sent)
      BY <2>4 DEF ReplyInv
    <3>2. IsAnswered(h)
      BY <2>4, <3>1, EndIsAnswer
    <3>3. ASSUME NEW v \in Ids, outcome'[v] = "handled"
          PROVE  v \in 1..Len(sent') /\ IsAnswered(v)'
      <4>1. outcome[v] = "handled" \/ v = h
        BY <1>0, <2>4, <3>3 DEF PollTypes, Note
      <4>2. v \in 1..Len(sent) /\ IsAnswered(v)
        BY <3>1, <3>2, <4>1 DEF Handled
      <4> QED
        BY <1>0, <2>1, <2>2, <4>2, AnswerStays DEF SentGrows
    <3> QED
      BY <3>3 DEF Handled
  <2> QED
    BY <1>5, <2>3, <2>4, Ends
<1> QED
  BY <1>1, <1>2, <1>3, <1>4, <1>5 DEF DNext

-----------------------------------------------------------------------------

DeliveryInv == PollInv /\ ReplyInv /\ ChatInv /\ Covered /\ Handled

LEMMA DeliveryInvHolds == DSpec => []DeliveryInv
<1>1. DInit => DeliveryInv
  <2> SUFFICES ASSUME DInit PROVE Covered /\ Handled
    BY InitPoll, InitReply, InitChat DEF DeliveryInv
  <2>1. Quiet /\ outcome = [u \in Ids |-> "none"]
    BY NoReplyIsReply DEF DInit, Init, Quiet, Nothing
  <2> QED
    BY <2>1 DEF Covered, Handled
<1>2. DeliveryInv /\ [DNext]_allVars => DeliveryInv'
  BY StepPoll, StepReply, StepChat, StepCovered, StepHandled DEF DeliveryInv
<1> QED
  BY <1>1, <1>2, PTL DEF DSpec

(***************************************************************************)
(* Whatever is lost, sent again or cut short, an update the Bot API keeps  *)
(* no more was dropped by a filter or the throttle or has its whole answer *)
(* in the chat.                                                            *)
(***************************************************************************)
THEOREM NothingIsForgotten == DSpec => []ForgottenIsAnswered
<1>1. DeliveryInv => ForgottenIsAnswered
  <2> SUFFICES ASSUME DeliveryInv PROVE ForgottenIsAnswered
    OBVIOUS
  <2>1. DOMAIN sent = 1..Len(sent) /\ 1..Len(sent) \subseteq Ids
    BY SentIds DEF DeliveryInv, PollInv, PollTypes
  <2> QED
    BY <2>1 DEF DeliveryInv, PollInv, Handled, ForgottenIsAnswered
<1> QED
  BY <1>1, DeliveryInvHolds, PTL

(***************************************************************************)
(* For any texts, limit and number of attempts, losses and crashes the     *)
(* chats read in order: chunks follow one another without gap or overlap,  *)
(* none is longer than the limit, and what is repeated is repeated at once *)
(* and no more often than call tries.                                      *)
(***************************************************************************)
THEOREM ChatReadsInOrder == DSpec => []ChatIsInOrder
<1>1. DeliveryInv => ChatIsInOrder
  BY DEF DeliveryInv, ChatInv
<1> QED
  BY <1>1, DeliveryInvHolds, PTL

=============================================================================
