------------------------------ MODULE ProfileDoc ------------------------------
(***************************************************************************)
(* What the profile service promises (internal/profile): a profile file is *)
(* a document that requests change one at a time and whole.  A request     *)
(* takes effect at most once, between its call and its return; one that    *)
(* succeeds has taken effect; one that fails may have.  A document is a    *)
(* sequence of lines, each a key and a value; a payload is one line.       *)
(***************************************************************************)
EXTENDS Sequences, Naturals, FiniteSets

CONSTANTS
  Callers,   \* concurrent calls of the service
  Files,     \* profile files
  Spanning,  \* files whose pattern runs over the end of a line: IDENTITY.md
  Keys,      \* labels a patch looks for
  Values,
  Blank,     \* the empty value, one of them
  Expand     \* what ReplaceAllString writes of a line: a "$" names a submatch

Lines == [key : Keys, value : Values]
Modes == {"replace", "append", "patch", "preview"}
Requests == [mode : Modes, file : Files, line : Lines]

VARIABLES
  doc,     \* content of each file
  asked,   \* request of each caller
  phase,   \* "idle", "asked", "taken", "ok", "failed"
  blind    \* callers that could not read the file: they take it for empty

docVars == <<doc, asked, phase, blind>>

\* Blank is behind the key of every line from i up to, and without, line k.
BareFrom(lines, key, i, k) == \A j \in i..(k - 1) : lines[j] = [key |-> key, value |-> Blank]

\* `key\s*:\s*.*$`: behind a key without a value the match runs on over the next line.
\* Matches do not overlap, so of a row of bare keys every second is taken by the one
\* before it, and the line after the row by its last one or not at all.
Taken(file, lines, key) ==
  {k \in DOMAIN lines :
     /\ file \in Spanning
     /\ \E i \in 1..(k - 1) :
          /\ BareFrom(lines, key, i, k) /\ (k - i) % 2 = 1
          /\ i > 1 => ~BareFrom(lines, key, i - 1, k)}

\* The lines at the indices S, in order.
LinesAt(lines, S) ==
  [n \in 1..Cardinality(S) |-> lines[CHOOSE k \in S : Cardinality({j \in S : j <= k}) = n]]

\* patchUser, patchIdentity: every match changes to the line as ReplaceAllString
\* expands it; if there is none the line is added as it is.
Patched(file, lines, line) ==
  IF \E i \in DOMAIN lines : lines[i].key = line.key
  THEN LET left == LinesAt(lines, DOMAIN lines \ Taken(file, lines, line.key))
       IN [i \in DOMAIN left |-> IF left[i].key = line.key THEN Expand[line] ELSE left[i]]
  ELSE Append(lines, line)

\* A line a patch leaves as it is wherever it puts it.
Plain(line) == line.value # Blank /\ Expand[line] = line

\* previewUpdate
Updated(lines, request) ==
  CASE request.mode = "append" -> Append(lines, request.line)
    [] request.mode = "patch" -> Patched(request.file, lines, request.line)
    [] OTHER -> <<request.line>>

Seen(c) == IF c \in blind THEN <<>> ELSE doc[asked[c].file]

Move(c, from, to) == phase[c] = from /\ phase' = [phase EXCEPT ![c] = to]

DocInit ==
  /\ doc \in [Files -> Seq(Lines)]
  /\ asked \in [Callers -> Requests]
  /\ phase = [c \in Callers |-> "idle"]
  /\ blind = {}

Ask(c) ==
  /\ Move(c, "idle", "asked")
  /\ \E request \in Requests : asked' = [asked EXCEPT ![c] = request]
  /\ UNCHANGED <<doc, blind>>

Refuse(c) == Move(c, "idle", "failed") /\ UNCHANGED <<doc, asked, blind>>

Misread(c) == phase[c] = "asked" /\ blind' = blind \cup {c} /\ UNCHANGED <<doc, asked, phase>>

Peek(c) ==
  /\ asked[c].mode = "preview"
  /\ Move(c, "asked", "ok")
  /\ UNCHANGED <<doc, asked, blind>>

TakeEffect(c) ==
  /\ asked[c].mode # "preview"
  /\ Move(c, "asked", "taken")
  /\ doc' = [doc EXCEPT ![asked[c].file] = Updated(Seen(c), asked[c])]
  /\ UNCHANGED <<asked, blind>>

Succeed(c) == Move(c, "taken", "ok") /\ UNCHANGED <<doc, asked, blind>>

Fail(c) ==
  /\ phase[c] \in {"asked", "taken"}
  /\ phase' = [phase EXCEPT ![c] = "failed"]
  /\ UNCHANGED <<doc, asked, blind>>

\* A crash ends every call; the documents stay.
Crash ==
  /\ phase' = [c \in Callers |-> IF phase[c] \in {"asked", "taken"} THEN "failed" ELSE phase[c]]
  /\ UNCHANGED <<doc, asked, blind>>

DocNext ==
  \/ \E c \in Callers :
       \/ Ask(c) \/ Refuse(c) \/ Misread(c) \/ Peek(c)
       \/ TakeEffect(c) \/ Succeed(c) \/ Fail(c)
  \/ Crash

DocSpec == DocInit /\ [][DocNext]_docVars
=============================================================================
