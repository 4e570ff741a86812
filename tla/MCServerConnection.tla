------------------------- MODULE MCServerConnection -------------------------
(* Model-checking instances of ServerConnection.                           *)
EXTENDS ServerConnection

CONSTANTS r1, r2, i1, i2

(* A computer the server knows by i1, with or without its file: the ids    *)
(* are interchangeable, and a restored database stands for a new one.      *)
KnownInit == Init /\ \E r \in rows : r.id = i1
KnownSpec == KnownInit /\ [][Next]_vars
KnownLiveSpec == KnownSpec /\ Fairness
=============================================================================
