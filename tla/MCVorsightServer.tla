-------------------------- MODULE MCVorsightServer --------------------------
(* A small instance of VorsightServer for TLC.                             *)
EXTENDS VorsightServer, TLC

MCDefaults ==
    ("activity" :> 2) @@ ("screenshot" :> 1) @@ ("audit" :> 2) @@ ("heartbeat" :> 1)

=============================================================================
