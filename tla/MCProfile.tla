------------------------------ MODULE MCProfile ------------------------------
(* An instance of Profile for TLC. *)
EXTENDS Profile

CONSTANTS a, b

Line(k, v) == [key |-> k, value |-> v]
OneTooLarge == {Line("name", "long")}

\* "$1" names a submatch the pattern does not have.
Expanding ==
  [l \in [key : Keys, value : Values] |-> IF l.value = "$1" THEN Line(l.key, Blank) ELSE l]

\* A template whose first value is still to be filled in, and no file.
OneTemplate ==
  {[f \in Files |-> IF f = "IDENTITY.md" THEN <<Line("name", Blank), Line("role", "Ada")>> ELSE <<>>]}

Ask(modes, files, keys, values) ==
  [mode : modes, file : files, line : [key : keys, value : values]]

SomeInputs ==
  Ask({"patch"}, {"IDENTITY.md"}, {"name"}, {"Ada", "$1", Blank})
  \cup Ask({"patch", "append"}, {"USER.md"}, {"name"}, {"Ada", "Bob"})
  \cup Ask({"preview", "replace"}, {"IDENTITY.md"}, {"name"}, {"Bob"})
  \cup Ask({"patch"}, {"SOUL.md"}, {"name"}, {"Ada", "long"})
  \cup Ask({"append"}, {"LOG.md"}, {"name"}, {"Ada"})
=============================================================================
