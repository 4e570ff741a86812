--------------------------- MODULE MCPipeSessions ---------------------------
(* Model-checking instances of PipeSessions: agents of one Windows session. *)
EXTENDS PipeSessions

CONSTANT console

AllShareASession == [a \in Agents |-> console]
=============================================================================
