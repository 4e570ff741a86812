--------------------------- MODULE VorsightServer ---------------------------
(***************************************************************************)
(* Four models of state that the Node server keeps and dashboard views     *)
(* show, side by side: the machine list, the status of a machine, the      *)
(* retention of data and the Drive connection.                             *)
(*                                                                         *)
(* They have no variable in common and each property speaks of one of      *)
(* them, so a behaviour of all of them together violates a property just   *)
(* when its projection to one of them does: a behaviour picks a part and   *)
(* lets only that part move.                                               *)
(***************************************************************************)
EXTENDS MachineList, MachineState, Retention, DriveTokens

VARIABLE part

Parts == {"list", "state", "retention", "drive"}

allVars == <<part, listVars, stateVars, retentionVars, tokenVars>>

ServerTypeOK ==
    \/ part = "list" /\ ListTypeOK
    \/ part = "state" /\ StateTypeOK
    \/ part = "retention" /\ RetentionTypeOK
    \/ part = "drive" /\ TokensTypeOK

(* The parts that do not move start in one of their initial states.        *)
ServerInit ==
    /\ part \in Parts
    /\ ListInit /\ StateInit /\ RetentionInit /\ TokensInit
    /\ part # "list" => ~showArchived /\ sockets = [m \in Machines |-> 0]
    /\ part # "state" => address

(* Only part p moves.                                                      *)
Moves(p) ==
    /\ part = p
    /\ UNCHANGED part
    /\ p # "list" => UNCHANGED listVars
    /\ p # "state" => UNCHANGED stateVars
    /\ p # "retention" => UNCHANGED retentionVars
    /\ p # "drive" => UNCHANGED tokenVars

ServerNext ==
    \/ Moves("list") /\ ListNext
    \/ Moves("state") /\ StateNext
    \/ Moves("retention") /\ RetentionNext
    \/ Moves("drive") /\ TokensNext

(* The fairness of the parts, asked of the one that moves.                 *)
ServerFairness ==
    /\ \A k \in 1 .. 7 : WF_listVars(part = "list" /\ ListFair(k))
    /\ \A k \in 1 .. 5 : WF_stateVars(part = "state" /\ StateFair(k))
    /\ \A k \in 1 .. 6 : WF_retentionVars(part = "retention" /\ RetentionFair(k))
    /\ \A k \in 1 .. 5 : WF_tokenVars(part = "drive" /\ TokensFair(k))
    /\ SF_tokenVars(part = "drive" /\ GoogleAnswers("machine"))

ServerSpec == ServerInit /\ [][ServerNext]_allVars /\ ServerFairness

=============================================================================
