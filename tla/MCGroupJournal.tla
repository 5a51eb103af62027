-------------------------- MODULE MCGroupJournal --------------------------
(* Instances of GroupJournal for TLC. *)
EXTENDS GroupJournal

CONSTANTS i1, i2, i3
=============================================================================
