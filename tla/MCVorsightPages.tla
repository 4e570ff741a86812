--------------------------- MODULE MCVorsightPages ---------------------------
(* A small instance of VorsightPages for TLC.                              *)
EXTENDS VorsightPages, TLC

(* Five sessions, of two windows.                                          *)
MCWindowOf == <<"a", "a", "b", "a", "a">>

=============================================================================
