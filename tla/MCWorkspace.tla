----------------------------- MODULE MCWorkspace -----------------------------
(* Instances of Workspace for TLC: three files stand for the twelve. *)
EXTENDS Workspace

ShortLayout == <<"AGENTS.md", "BOOTSTRAP.md", "skills/README.md">>

\* A new workspace, and one the operator has put a file in.
NewAndOld == {{}, {"AGENTS.md"}}
=============================================================================
