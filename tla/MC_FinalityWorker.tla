------------------------- MODULE MC_FinalityWorker -------------------------
(***************************************************************************)
(* TLC instances of FinalityWorker.                                        *)
(***************************************************************************)
EXTENDS FinalityWorker, TLC

\* Events at the heights in H that ask for the tracker's default depth.
Sightings(H, hashes) ==
    [key : Keys, block : H, hash : hashes, requires : {FALSE}, depth : {0}]

\* One contested height and one that buries it.
SmallFeed == Sightings({1, 3}, Hashes)

WorkerSymmetry == Permutations(Keys) \cup Permutations(Hashes) \cup Permutations(Workers)
=============================================================================
