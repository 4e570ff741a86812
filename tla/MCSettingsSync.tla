---------------------------- MODULE MCSettingsSync ----------------------------
(* Instances of SettingsSync for TLC. *)
EXTENDS SettingsSync, TLC

\* Adoption dialogs that switch everything on.
AllOn == {[s \in Sections |-> TRUE]}

\* The fetch tasks are interchangeable, and so are the pages.
SyncSymmetry == Permutations(Tasks) \cup Permutations(Pages)
=============================================================================
