---------------------------- MODULE MCCloudLink ----------------------------
(* Small instances of CloudLink. *)
EXTENDS CloudLink, TLC

MCSymmetry == Permutations(Loops) \cup Permutations(Requests)
=============================================================================
