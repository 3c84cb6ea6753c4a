--------------------------- MODULE SessionContext ---------------------------
(***************************************************************************)
(* The rolling context of one chat session: the state sessions.Manager     *)
(* keeps beside a session entry so that a prompt can be built without      *)
(* reading the transcript again (internal/sessions/manager.go).            *)
(*                                                                         *)
(* A message is a transcript record; its text is abstracted to the         *)
(* identity [by, role, type] of the record and the flag "blank" (the text  *)
(* trims to the empty string).  An entry carries one auxiliary field that  *)
(* the program does not have: "folded", every message the context state    *)
(* has consumed since it was last cleared, in order.                       *)
(***************************************************************************)
EXTENDS Integers, FiniteSets, SequencesExt

CONSTANTS
  SummaryChars,   \* SummaryMaxChars configured beside each history limit
  NoteChars       \* bytes of the note of a message, by the role of its speaker

ASSUME NoteCharsAssumption == NoteChars \in [{"user", "assistant"} -> Nat \ {0}]

\* ContextStateSig of an entry written before the context state existed.
NoSig == 0

\* The first line of a summary whose older lines were cut off.
TrimMarker == [by |-> "trimmed", role |-> "marker", type |-> "marker", blank |-> FALSE]

\* What is left of a note the cut goes through: its last bytes.
CutLine == [by |-> "cut", role |-> "marker", type |-> "marker", blank |-> FALSE]

\* isContextMessage: only plain, non-blank messages of the two speakers count.
IsContextMessage(rec) ==
  /\ rec.type = "message"
  /\ rec.role \in {"user", "assistant"}
  /\ ~rec.blank

\* The entry Touch creates for a session key it has never seen.
NewEntry(id, limit) ==
  [id |-> id, sig |-> limit, recent |-> <<>>, summarized |-> 0,
   summary |-> <<>>, folded |-> <<>>]

\* Mutant: the rebuild forgets to reset what it is about to recompute.
ClearContextKeepsState(entry, limit) == [entry EXCEPT !.sig = limit]

\* rebuildContextStateLocked resets everything it is about to recompute.
ClearContext(entry, limit) ==
  [entry EXCEPT !.sig = limit, !.recent = <<>>, !.summarized = 0,
                !.summary = <<>>, !.folded = <<>>]

(***************************************************************************)
(* The notes are one string under a cap of "chars" bytes, here the lines   *)
(* it consists of.  Widths are bytes; a newline separates two lines.       *)
(***************************************************************************)
MarkerChars == 23   \* len("[older summary trimmed]")

\* What the marker and its newline leave: no cut line is ever wider.
Room(chars) == chars - MarkerChars - 1

LineChars(line, chars) ==
  IF line = TrimMarker THEN MarkerChars
  ELSE IF line = CutLine THEN Room(chars) ELSE NoteChars[line.role]

Bytes(lines, chars) ==
  FoldLeft(LAMBDA sum, line : sum + 1 + LineChars(line, chars), -1, lines)

\* The last n lines.
Newer(lines, n) == SubSeq(lines, Len(lines) - n + 1, Len(lines))

(***************************************************************************)
(* The last "room" bytes of lines that are longer: what remains of the     *)
(* first line in them goes, its newline included, unless it is the last.   *)
(***************************************************************************)
Newest(lines, room, chars) ==
  LET whole == Cardinality({n \in 1..(Len(lines) - 1) : Bytes(Newer(lines, n), chars) < room})
  IN IF whole > 0 \/ LineChars(Last(lines), chars) = room
     THEN Newer(lines, IF whole > 0 THEN whole ELSE 1)
     ELSE <<CutLine>>

\* Mutant: the room beside the marker forgets the newline between them.
AppendSummaryForgetsNewline(existing, msg, chars) ==
  LET lines == Append(existing, msg)
      keep  == Newest(lines, chars, chars)
  IN IF existing = <<>> \/ Bytes(lines, chars) <= chars THEN lines
     ELSE IF Room(chars) <= 0 THEN <<TrimMarker>>
     ELSE IF MarkerChars + Bytes(keep, chars) <= chars THEN <<TrimMarker>> \o keep
     ELSE <<TrimMarker>> \o Newest(keep, Room(chars), chars)

\* appendConversationSummary: a full string is cut to its newest whole lines, first
\* to the cap, then to what the marker leaves of it.
AppendSummary(existing, msg, chars) ==
  LET lines == Append(existing, msg)
      keep  == Newest(lines, chars, chars)
  IN IF existing = <<>> \/ Bytes(lines, chars) <= chars THEN lines
     ELSE IF Room(chars) <= 0 THEN <<TrimMarker>>
     ELSE IF Bytes(keep, chars) <= Room(chars) THEN <<TrimMarker>> \o keep
     ELSE <<TrimMarker>> \o Newest(keep, Room(chars), chars)

\* Mutant: the window is filled one message too far (<= for <).
ApplyContextMessageOffByOne(entry, rec, limit) ==
  IF Len(entry.recent) <= limit
  THEN [entry EXCEPT !.recent = Append(@, rec), !.folded = Append(@, rec)]
  ELSE [entry EXCEPT !.recent = Append(Tail(@), rec),
                     !.summarized = @ + 1,
                     !.summary = AppendSummary(@, Head(entry.recent), SummaryChars[limit]),
                     !.folded = Append(@, rec)]

\* applyContextMessage: fill the window, then promote its oldest message.
ApplyContextMessage(entry, rec, limit) ==
  IF Len(entry.recent) < limit
  THEN [entry EXCEPT !.recent = Append(@, rec), !.folded = Append(@, rec)]
  ELSE [entry EXCEPT !.recent = Append(Tail(@), rec),
                     !.summarized = @ + 1,
                     !.summary = AppendSummary(@, Head(entry.recent), SummaryChars[limit]),
                     !.folded = Append(@, rec)]
=============================================================================
