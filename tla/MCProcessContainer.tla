------------------------- MODULE MCProcessContainer -------------------------
(* Small instances of ProcessContainer. *)
EXTENDS ProcessContainer, TLC

MCSymmetry == Permutations(Children) \cup Permutations(Calls)
=============================================================================
