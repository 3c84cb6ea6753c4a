------------------------------ MODULE MCHistory ------------------------------
(* An instance of History for TLC. *)
EXTENDS History

CONSTANTS r1, r2, k1, k2
\* The notes stay short of the cap here; MCSessions fills them.
NoteBytes == [who \in {"user", "assistant"} |-> IF who = "user" THEN 12 ELSE 30]
SummaryBytes == [n \in Limits |-> 1800]
=============================================================================
