------------------------- MODULE MC_FinalityTracker -------------------------
(***************************************************************************)
(* TLC instances of FinalityTracker.                                       *)
(***************************************************************************)
EXTENDS FinalityTracker, TLC

KeySymmetry == Permutations(Keys) \cup Permutations(Hashes)
=============================================================================
