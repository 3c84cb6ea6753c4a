------------------------------- MODULE Delivery -------------------------------
(***************************************************************************)
(* Telegram with what the answer to an update does to the chat: while the  *)
(* poller is in onInbound, each text the run says goes through the hub to  *)
(* the adapter's Send (internal/channels/telegram.go), which cuts it into  *)
(* chunks and posts them one by one, each with a few attempts.  An         *)
(* attempt whose answer is lost may have reached the chat all the same.    *)
(***************************************************************************)
EXTENDS Telegram, FiniteSetsExt

CONSTANTS
  Answer(_),  \* the texts a run says to a message, in order; handleInbound skips an empty one
  Limit,      \* telegramMaxMessageLen (4000 in the code)
  MaxAttempts,\* attempts at one request (3 in the code)
  MaxLosses   \* bound: requests to the Bot API whose answer is lost or an error

\* What chunkTelegramText tells apart: newline, space, any other character.
Chars == {"nl", "sp", "ch"}

ASSUME DeliveryAssumption ==
  /\ {Limit, MaxAttempts} \subseteq Nat \ {0} /\ MaxLosses \in Nat
  /\ \A m \in Messages : Answer(m) \in Seq(Seq(Chars) \ {<<>>})

VARIABLES
  reply,  \* the Send under way and what follows it
  losses,
  chat,   \* auxiliary: what the chats got, in order
  replies \* auxiliary: how many replies have begun

deliveryVars == <<reply, losses, chat, replies>>
allVars == <<vars, deliveryVars>>

\* texts: what the run says; said: how many of them it has handed to Send; start:
\* how much of the last one Send has posted; part: the chunks of this reply posted.
NoReply == [to |-> Nothing, texts |-> <<>>, said |-> 0, start |-> 0, part |-> 0, attempt |-> 1]

-----------------------------------------------------------------------------
(* chunkTelegramText.  Cutting changes no state, so each chunk is cut when it *)
(* is its turn.                                                               *)

\* Where the chunk that begins at start ends: before the last newline of the
\* window, or else before its last space; a mark in first place does not count.
Split(t, start) ==
  LET end == IF start + Limit < Len(t) THEN start + Limit ELSE Len(t)
      At(c) == {i \in (start + 1)..(end - 1) : t[i + 1] = c}
  IN IF At("nl") # {} THEN Max(At("nl")) ELSE IF At("sp") # {} THEN Max(At("sp")) ELSE end

\* The rest of a text that was too long is cut at its marks even if it fits.
EndOfChunk(t, start) == IF Len(t) <= Limit THEN Len(t) ELSE Split(t, start)

-----------------------------------------------------------------------------

DInit ==
  /\ Init
  /\ reply = NoReply /\ losses = 0 /\ chat = <<>> /\ replies = 0

\* The loop goes on when nothing is being posted.
Quiet == reply.to = Nothing

BeginReply(u, texts) ==
  /\ reply' = [NoReply EXCEPT !.to = u, !.texts = texts]
  /\ replies' = replies + 1
  /\ UNCHANGED <<losses, chat>>

HelpText == <<"ch">>

\* A command for help passes the throttle and the allowlist and is answered at once.
WantsHelp(m) == ~m.blank /\ ~Throttled(m) /\ m.listed /\ IsHelp(m)

TakeHelp ==
  /\ Quiet /\ batch # <<>> /\ WantsHelp(sent[Head(batch)])
  /\ TakeAndSkip
  /\ BeginReply(Head(batch), <<HelpText>>)

TakeOther ==
  /\ Quiet /\ batch # <<>>
  /\ \/ TakeDuplicate
     \/ ~WantsHelp(sent[Head(batch)]) /\ TakeAndSkip
  /\ UNCHANGED deliveryVars

TakeMessage ==
  /\ Quiet
  /\ TakeAndHandle
  /\ BeginReply(hand', Answer(sent[hand']))

Text == reply.texts[reply.said]

Posting == reply.said > 0 /\ reply.start < Len(Text)

\* The run says its next text: MultiHub.Send finds the account's adapter.
SendText ==
  /\ ~Quiet /\ ~Posting /\ reply.said < Len(reply.texts)
  /\ reply' = [reply EXCEPT !.said = @ + 1, !.start = 0]
  /\ UNCHANGED <<vars, losses, chat, replies>>

\* The chunk to post: a piece of one of the reply's texts.
Chunk == [update |-> reply.to, reply |-> replies, part |-> reply.part + 1,
          text |-> reply.said, from |-> reply.start, to |-> EndOfChunk(Text, reply.start)]

\* The chat gets the chunk.
Show == chat' = Append(chat, Chunk)

NextChunk == [reply EXCEPT !.start = Chunk.to, !.part = @ + 1, !.attempt = 1]

PostOk ==
  /\ Posting
  /\ Show
  /\ reply' = NextChunk
  /\ UNCHANGED <<vars, losses, replies>>

\* Mutant: the text is sent again from its first chunk.
PostAgainFromStart ==
  /\ Posting
  /\ reply.attempt < MaxAttempts
  /\ losses < MaxLosses /\ losses' = losses + 1
  /\ Show \/ UNCHANGED chat
  /\ reply' = [reply EXCEPT !.attempt = @ + 1, !.start = 0, !.part = 0]
  /\ UNCHANGED <<vars, replies>>

\* isTransientNetErr: call waits and posts the same chunk again.
PostAgain ==
  /\ Posting
  /\ reply.attempt < MaxAttempts
  /\ losses < MaxLosses /\ losses' = losses + 1
  /\ Show \/ UNCHANGED chat
  /\ reply' = [reply EXCEPT !.attempt = @ + 1]
  /\ UNCHANGED <<vars, replies>>

\* The last such error, a timeout of the client or a status that is no success.
PostError ==
  /\ Posting
  /\ losses < MaxLosses /\ losses' = losses + 1
  /\ Show \/ UNCHANGED chat
  /\ UNCHANGED replies

\* Send returns the error, handleInbound passes it on and the polling ends...
PostFails ==
  /\ PostError
  /\ poller = "handle" /\ HandleFails
  /\ reply' = NoReply

\* ...unless it was the help text, whose error is ignored.
HelpFails ==
  /\ PostError
  /\ poller = "poll" /\ UNCHANGED vars
  /\ reply' = NoReply

HelpEnds ==
  /\ ~Quiet /\ poller = "poll" /\ reply.said = Len(reply.texts) /\ ~Posting
  /\ reply' = NoReply
  /\ UNCHANGED <<vars, losses, chat, replies>>

\* Mutant: the update counts as handled when its first text is sent.
HandleEndsEarly ==
  /\ ~Quiet /\ reply.part > 0
  /\ HandleOk
  /\ reply' = NoReply
  /\ UNCHANGED <<losses, chat, replies>>

HandleEnds ==
  /\ ~Quiet /\ reply.said = Len(reply.texts) /\ ~Posting
  /\ HandleOk
  /\ reply' = NoReply
  /\ UNCHANGED <<losses, chat, replies>>

\* The session manager or the runtime fails, before a text or after the last.
HandleBreaks ==
  /\ ~Quiet /\ ~Posting
  /\ HandleFails
  /\ reply' = NoReply
  /\ UNCHANGED <<losses, chat, replies>>

\* A crash cuts the reply short.
RestartAll == Restart /\ reply' = NoReply /\ UNCHANGED <<losses, chat, replies>>

Ask == Quiet /\ (Poll \/ PollRepeat \/ PollLost) /\ UNCHANGED deliveryVars

World == (Arrive \/ \E user \in Users : IntervalEnds(user)) /\ UNCHANGED deliveryVars

Post == PostOk \/ PostAgain \/ PostFails \/ HelpFails

Finish == HelpEnds \/ HandleEnds \/ HandleBreaks

DNext ==
  \/ World \/ RestartAll
  \/ Ask \/ TakeHelp \/ TakeOther \/ TakeMessage
  \/ SendText \/ Post \/ Finish

DSpec == DInit /\ [][DNext]_allVars

(***************************************************************************)
(* As in Telegram, and a request to the Bot API returns.                   *)
(***************************************************************************)
DFairness ==
  /\ WF_allVars(Quiet /\ Poll /\ UNCHANGED deliveryVars)
  /\ WF_allVars(TakeHelp \/ TakeOther \/ TakeMessage)
  /\ WF_allVars(SendText \/ Post \/ Finish)

DFairSpec == DSpec /\ DFairness

-----------------------------------------------------------------------------

Shown(n) == {chat[i] : i \in {i \in DOMAIN chat : chat[i].reply = n}}

\* What a reply to a message says.
TextsFor(m) == IF IsHelp(m) THEN <<HelpText>> ELSE Answer(m)

\* Some reply to u is in the chat from its first character to its last.
IsAnswered(u) ==
  \E n \in 1..replies :
    \A k \in DOMAIN TextsFor(sent[u]) : \A c \in 1..Len(TextsFor(sent[u])[k]) :
      \E e \in Shown(n) : e.update = u /\ e.text = k /\ c \in (e.from + 1)..e.to

(***************************************************************************)
(* What the API has forgotten has been answered: an update that no later   *)
(* getUpdates can return was dropped by a filter or the throttle, or its   *)
(* whole answer is in the chat, whatever was lost, sent again or cut short *)
(* by an error or a crash.                                                 *)
(***************************************************************************)
ForgottenIsAnswered ==
  \A u \in DOMAIN sent :
    /\ u \notin queue => outcome[u] \in Final
    /\ outcome[u] = "handled" => IsAnswered(u)

\* Chunk e goes on where chunk d ends, in the same text or the next one.
Continues(e, d) ==
  /\ e.update = d.update
  /\ \/ e.text = d.text /\ e.from = d.to
     \/ e.text = d.text + 1 /\ e.from = 0 /\ d.to = Len(TextsFor(sent[d.update])[d.text])

Begins(e) == e.text = 1 /\ e.from = 0 /\ e.part = 1

(***************************************************************************)
(* A chat reads in order: a chunk goes on where the one before it ends, no *)
(* reply is broken into by another, only a chunk whose answer was lost is  *)
(* repeated, at once and no more often than call tries, and none exceeds   *)
(* the limit.                                                              *)
(***************************************************************************)
ChatIsInOrder ==
  /\ \A i \in DOMAIN chat : chat[i].to - chat[i].from \in 1..Limit
  /\ chat # <<>> => Begins(chat[1])
  /\ \A i \in 2..Len(chat) :
       LET e == chat[i]
           d == chat[i - 1]
       IN \/ e = d
          \/ e.reply = d.reply /\ e.part = d.part + 1 /\ Continues(e, d)
          \/ e.reply > d.reply /\ Begins(e)
  /\ \A i, j \in DOMAIN chat :
       chat[i].reply = chat[j].reply /\ chat[i].part = chat[j].part =>
         chat[i] = chat[j] /\ j - i < MaxAttempts

=============================================================================
