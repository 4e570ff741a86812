------------------------- MODULE ScreenshotDelivery -------------------------
(* What the Windows service promises about screenshots, whatever its       *)
(* handlers, its retry queue, its failures and its shutdowns do:           *)
(*   - a screenshot is written to disk once, and never comes back;         *)
(*   - it reaches Drive from the file, while the file is there;            *)
(*   - the server gets no more rows of it than Drive has copies;           *)
(*   - the file goes only when Drive has a copy, when it is older than the *)
(*     limit, or while the service is closing.                             *)
(* UploadPipeline implements this specification.                           *)
EXTENDS Naturals

CONSTANT Shots    \* the screenshots

VARIABLES
    file,         \* [Shots -> "none", "kept", "expired" or "gone"]
    copies,       \* [Shots -> number of files on Drive]
    rows,         \* [Shots -> number of rows on the server]
    closing       \* the service is shutting down

vars == <<file, copies, rows, closing>>

There(f) == file[f] \in {"kept", "expired"}

Init ==
    /\ file = [f \in Shots |-> "none"]
    /\ copies = [f \in Shots |-> 0]
    /\ rows = [f \in Shots |-> 0]
    /\ closing = FALSE

Save(f) ==
    /\ file[f] = "none"
    /\ file' = [file EXCEPT ![f] = "kept"]
    /\ UNCHANGED <<copies, rows, closing>>

Expire(f) ==
    /\ file[f] = "kept"
    /\ file' = [file EXCEPT ![f] = "expired"]
    /\ UNCHANGED <<copies, rows, closing>>

Copy(f) ==
    /\ There(f)
    /\ copies' = [copies EXCEPT ![f] = @ + 1]
    /\ UNCHANGED <<file, rows, closing>>

Announce(f) ==
    /\ rows[f] < copies[f]
    /\ rows' = [rows EXCEPT ![f] = @ + 1]
    /\ UNCHANGED <<file, copies, closing>>

Discard(f) ==
    /\ There(f)
    /\ copies[f] > 0 \/ file[f] = "expired" \/ closing
    /\ file' = [file EXCEPT ![f] = "gone"]
    /\ UNCHANGED <<copies, rows, closing>>

Close ==
    /\ closing' = TRUE
    /\ UNCHANGED <<file, copies, rows>>

(* A new process: requests of the old one may still have reached Drive.    *)
Reopen ==
    /\ \E landed \in SUBSET Shots :
          /\ \A f \in landed : There(f)
          /\ copies' = [f \in Shots |-> copies[f] + (IF f \in landed THEN 1 ELSE 0)]
    /\ closing' = FALSE
    /\ UNCHANGED <<file, rows>>

Next ==
    \/ Close
    \/ Reopen
    \/ \E f \in Shots : Save(f) \/ Expire(f) \/ Copy(f) \/ Announce(f) \/ Discard(f)

Spec == Init /\ [][Next]_vars
=============================================================================
