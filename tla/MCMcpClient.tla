----------------------------- MODULE MCMcpClient -----------------------------
(* Instances of McpClient for TLC. *)
EXTENDS McpClient

CONSTANTS q1, q2

\* Over SSE, two calls at a time or one with a frame that nobody asked for.  Only
\* steps that no fairness demands are cut off: a new call, a frame too many.
Scenario ==
  transport = "sse" => dups = 0 \/ Cardinality({q \in Reqs : pc[q] # "idle"}) <= 1
=============================================================================
