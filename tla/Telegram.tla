------------------------------- MODULE Telegram -------------------------------
(***************************************************************************)
(* The polling loop of a Telegram adapter (internal/channels/telegram.go,  *)
(* RunPolling) against the Bot API, which keeps an update until a later    *)
(* getUpdates asks for a higher offset.  The offset, the dedupe window and *)
(* the throttle live in memory: a restart forgets them.                    *)
(***************************************************************************)
EXTENDS Integers, Sequences, FiniteSets

CONSTANTS
  Messages,       \* what an update may carry: a subset of MessageType
  Users,          \* senders
  MaxId,          \* bound: updates have the ids 1..MaxId
  DedupeWindow,   \* ids remembered
  Throttle,       \* minUserInterval > 0
  RequireMention, \* requireMentionInGroups
  BotKnown,       \* the bot's user name is configured or was detected
  InboundFails,   \* whether onInbound may return an error
  MaxRepeats,     \* bound: old updates the API sends again
  MaxCrashes      \* bound: restarts of the process

Ids == 1..MaxId

\* slash: whether the text is a command, and whom it names with @.
\* mention: the text contains @botUsername.  bare: it contains nothing else.
MessageType ==
  [user : Users, blank : BOOLEAN, listed : BOOLEAN, group : BOOLEAN, help : BOOLEAN,
   slash : {"no", "nobody", "bot", "other"}, mention : BOOLEAN, bare : BOOLEAN]

ASSUME TelegramAssumption ==
  /\ Messages \subseteq MessageType
  /\ MaxId \in Nat /\ DedupeWindow \in Nat \ {0}
  /\ {Throttle, RequireMention, BotKnown, InboundFails} \subseteq BOOLEAN
  /\ MaxRepeats \in Nat /\ MaxCrashes \in Nat

VARIABLES
  sent,      \* the messages of the updates 1, 2, ... that have reached the API
  queue,     \* those it still keeps
  offset,
  batch,     \* the rest of the updates the last getUpdates returned
  poller,    \* "poll", "handle" (in onInbound), "dead"
  hand,      \* the update in onInbound
  seenOrder, \* seenUpdateOrder
  seenSet,   \* seenUpdateSet
  recent,    \* users whose last message is younger than minUserInterval
  repeats, crashes,
  outcome,   \* auxiliary: what became of each update, "none" if nothing yet
  turns,     \* auxiliary: how often each update was handed to onInbound since the start
  evicted    \* auxiliary: ids the window has dropped since the start

vars == <<sent, queue, offset, batch, poller, hand, seenOrder, seenSet, recent, repeats,
          crashes, outcome, turns, evicted>>

seenVars == <<seenOrder, seenSet, evicted>>

Nothing == 0

Init ==
  /\ sent = <<>> /\ queue = {}
  /\ offset = 0 /\ batch = <<>> /\ poller = "poll" /\ hand = Nothing
  /\ seenOrder = <<>> /\ seenSet = {} /\ recent = {}
  /\ repeats = 0 /\ crashes = 0
  /\ outcome = [u \in Ids |-> "none"]
  /\ turns = [u \in Ids |-> 0]
  /\ evicted = {}

-----------------------------------------------------------------------------
(* The Bot API. *)

Arrive ==
  /\ Len(sent) < MaxId
  /\ \E m \in Messages : sent' = Append(sent, m)
  /\ queue' = queue \cup {Len(sent')}
  /\ UNCHANGED <<offset, batch, poller, hand, seenVars, recent, repeats, crashes, outcome, turns>>

\* Asking for an offset confirms every update below it.
Confirm == queue' = {u \in queue : u >= offset}

\* The first updates of a queue, in their order.
IsHeadOf(us, updates) ==
  \A i \in DOMAIN us :
    /\ \A j \in 1..(i - 1) : us[j] < us[i]
    /\ \A u \in updates : u < us[i] => \E j \in 1..(i - 1) : us[j] = u

Poll ==
  /\ poller = "poll" /\ batch = <<>>
  /\ Confirm
  /\ \E n \in 1..Cardinality(queue') :
       batch' \in {us \in [1..n -> queue'] : IsHeadOf(us, queue')}
  /\ UNCHANGED <<sent, offset, poller, hand, seenVars, recent, repeats, crashes, outcome, turns>>

\* The API sends an update again that it had confirmed.
PollRepeat ==
  /\ poller = "poll" /\ batch = <<>>
  /\ repeats < MaxRepeats
  /\ repeats' = repeats + 1
  /\ Confirm
  /\ \E u \in DOMAIN sent \ queue' : batch' = <<u>>
  /\ UNCHANGED <<sent, offset, poller, hand, seenVars, recent, crashes, outcome, turns>>

\* A request counts and its answer is lost: call sends it again at once, up to
\* three times, and then the loop does, always for the same offset.
PollLost ==
  /\ poller = "poll" /\ batch = <<>>
  /\ Confirm
  /\ UNCHANGED <<sent, offset, batch, poller, hand, seenVars, recent, repeats, crashes,
                 outcome, turns>>

-----------------------------------------------------------------------------
(* The loop over one batch. *)

Advance(u) == offset' = IF u >= offset THEN u + 1 ELSE offset

\* Mutant: the id is looked up and never remembered.
RememberNothing(u) == UNCHANGED <<seenOrder, seenSet, evicted>>

\* isDuplicateUpdate, when the id is new: the oldest id makes room.
Remember(u) ==
  LET order == Append(seenOrder, u)
      full  == Len(order) > DedupeWindow
  IN /\ seenOrder' = IF full THEN Tail(order) ELSE order
     /\ seenSet' = IF full THEN (seenSet \cup {u}) \ {Head(order)} ELSE seenSet \cup {u}
     /\ evicted' = IF full THEN evicted \cup {Head(order)} ELSE evicted

Final == {"filtered", "throttled", "handled"}

Note(u, what) == outcome' = [outcome EXCEPT ![u] = IF @ \in Final THEN @ ELSE what]

\* isHelpOrStartCommand: /start or /help, not one for another bot.
IsHelp(m) == m.help /\ ~(m.slash = "other" /\ BotKnown)

\* acceptByMentionPolicy
Mentions(m) ==
  \/ ~RequireMention \/ ~m.group
  \/ m.slash = "nobody"
  \/ BotKnown /\ m.slash = "bot"
  \/ BotKnown /\ m.slash = "no" /\ m.mention

\* sanitizeText leaves nothing of a group message that is only a mention.
IsEmptied(m) == m.group /\ BotKnown /\ m.bare

Passes(m) == m.listed /\ ~IsHelp(m) /\ Mentions(m) /\ ~IsEmptied(m)

TakeHead ==
  /\ poller = "poll" /\ batch # <<>>
  /\ batch' = Tail(batch)
  /\ Advance(Head(batch))

TakeDuplicate ==
  /\ TakeHead
  /\ Head(batch) \in seenSet
  /\ UNCHANGED <<sent, queue, poller, hand, seenVars, recent, repeats, crashes, outcome, turns>>

Throttled(m) == Throttle /\ m.user \in recent

\* allowByRateLimit, when it lets the message through.
Admit(m) == recent' = IF Throttle THEN recent \cup {m.user} ELSE recent

\* Bots and blanks, then the throttle, then allowlist, help and mention policy.
TakeAndSkip ==
  LET u == Head(batch)
      m == sent[u]
  IN /\ TakeHead
     /\ u \notin seenSet
     /\ Remember(u)
     /\ \/ m.blank /\ Note(u, "filtered") /\ UNCHANGED recent
        \/ ~m.blank /\ Throttled(m) /\ Note(u, "throttled") /\ UNCHANGED recent
        \/ ~m.blank /\ ~Throttled(m) /\ ~Passes(m) /\ Note(u, "filtered") /\ Admit(m)
     /\ UNCHANGED <<sent, queue, poller, hand, repeats, crashes, turns>>

TakeAndHandle ==
  LET u == Head(batch)
      m == sent[u]
  IN /\ TakeHead
     /\ u \notin seenSet
     /\ Remember(u)
     /\ ~m.blank /\ ~Throttled(m) /\ Passes(m) /\ Admit(m)
     /\ poller' = "handle" /\ hand' = u
     /\ turns' = [turns EXCEPT ![u] = @ + 1]
     /\ UNCHANGED <<sent, queue, repeats, crashes, outcome>>

HandleOk ==
  /\ poller = "handle"
  /\ poller' = "poll" /\ hand' = Nothing
  /\ Note(hand, "handled")
  /\ UNCHANGED <<sent, queue, offset, batch, seenVars, recent, repeats, crashes, turns>>

\* Mutant: the loop goes on after an error.
HandleGoesOn ==
  /\ InboundFails
  /\ poller = "handle"
  /\ poller' = "poll" /\ hand' = Nothing
  /\ Note(hand, "failed")
  /\ UNCHANGED <<sent, queue, offset, batch, seenVars, recent, repeats, crashes, turns>>

\* RunPolling returns the error; main logs it and polls no more.
HandleFails ==
  /\ InboundFails
  /\ poller = "handle"
  /\ poller' = "dead" /\ hand' = Nothing
  /\ Note(hand, "failed")
  /\ UNCHANGED <<sent, queue, offset, batch, seenVars, recent, repeats, crashes, turns>>

IntervalEnds(user) ==
  /\ user \in recent
  /\ recent' = recent \ {user}
  /\ UNCHANGED <<sent, queue, offset, batch, poller, hand, seenVars, repeats, crashes,
                 outcome, turns>>

Restart ==
  /\ crashes < MaxCrashes
  /\ crashes' = crashes + 1
  /\ offset' = 0 /\ batch' = <<>> /\ poller' = "poll" /\ hand' = Nothing
  /\ seenOrder' = <<>> /\ seenSet' = {} /\ recent' = {}
  /\ turns' = [u \in Ids |-> 0] /\ evicted' = {}
  /\ UNCHANGED <<sent, queue, repeats, outcome>>

-----------------------------------------------------------------------------

(***************************************************************************)
(* Until the process restarts an update reaches onInbound once, however    *)
(* often the API repeats it, unless the window had dropped its id; and the *)
(* set never holds more ids than the window.                               *)
(***************************************************************************)
DuplicatesAreIgnored ==
  /\ \A u \in Ids : turns[u] > 1 => u \in evicted
  /\ Cardinality(seenSet) <= DedupeWindow

(***************************************************************************)
(* Every update that arrives is processed in the end, unless onInbound     *)
(* fails, which ends the polling.                                          *)
(***************************************************************************)
EveryUpdateIsProcessed ==
  \A u \in Ids : (Len(sent) >= u) ~> (outcome[u] \in Final \/ poller = "dead")

=============================================================================
