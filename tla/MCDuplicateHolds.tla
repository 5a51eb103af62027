------------------------- MODULE MCDuplicateHolds -------------------------
(* Instances of DuplicateHolds for TLC. *)
EXTENDS DuplicateHolds, TLC

CONSTANTS r1, r2, raw, prefixed, s1, s2

HoldSymmetry == Permutations(Rows \ Cutover) \cup Permutations(Sessions) \cup Permutations(Spellings)
=============================================================================
