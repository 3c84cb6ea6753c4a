----------------------------- MODULE MCDelivery -----------------------------
(* The polling loop with the kinds of messages its filters tell apart, and   *)
(* answers of one or two texts, one of them longer than the limit.           *)
EXTENDS Delivery

CONSTANTS ada, bob

Plain(user) ==
  [user |-> user, blank |-> FALSE, listed |-> TRUE, group |-> FALSE, help |-> FALSE,
   slash |-> "no", mention |-> FALSE, bare |-> FALSE]

Group(user, slash, mention) ==
  [Plain(user) EXCEPT !.group = TRUE, !.slash = slash, !.mention = mention]

Help(user) == [Plain(user) EXCEPT !.help = TRUE, !.slash = "nobody"]

MCUsers == {ada, bob}

\* Two users, and some messages the filters drop or let through on their own terms.
MCMessages ==
  {Plain(ada), Plain(bob), Help(ada), [Plain(bob) EXCEPT !.blank = TRUE],
   Group(ada, "no", FALSE), Group(bob, "nobody", FALSE)}

\* A text of two chunks; a tool's text and a final one.
MCAnswer(m) ==
  IF m.user = ada THEN <<<<"ch", "nl", "ch", "ch">>>> ELSE <<<<"ch">>, <<"ch">>>>
=============================================================================
