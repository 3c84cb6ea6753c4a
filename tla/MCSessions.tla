----------------------------- MODULE MCSessions -----------------------------
(* Instances of Sessions for TLC.  Runs and session keys are model values. *)
EXTENDS Sessions

CONSTANTS r1, r2, k1, k2

(***************************************************************************)
(* The note of a user's message has 12 bytes, that of an answer 30.  Under *)
(* 66 bytes one of each misses fitting beside the marker by its newline,   *)
(* under 60 the cut to the cap leaves what fits beside the marker, and     *)
(* under 40 an answer alone has no room beside it.                         *)
(***************************************************************************)
NoteBytes == [who \in {"user", "assistant"} |-> IF who = "user" THEN 12 ELSE 30]
SummaryBytes == [n \in Limits |-> IF n = 1 THEN 66 ELSE IF n = 2 THEN 60 ELSE 40]
=============================================================================
