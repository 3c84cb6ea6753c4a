------------------------------ MODULE MCGateway ------------------------------
(* Instances of Gateway for TLC. *)
EXTENDS Gateway

CONSTANTS r1, r2

Started == {r \in Runs : h[r] # "off" \/ r \in active}

\* r1 runs alone in every way; beside r2, a call of a tool, it asks the model and
\* the client stays.  Only steps that no fairness demands are cut off: sending
\* chat.send or leaving.
Scenario ==
  r2 \in Started =>
    /\ kind[r2] = "tool"
    /\ r1 \in Started => kind[r1] = "model"
    /\ writable /\ ~ctxDone
=============================================================================
