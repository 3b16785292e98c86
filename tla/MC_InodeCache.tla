--------------------------- MODULE MC_InodeCache ---------------------------
(* Instantiates InodeCache for TLC.                                        *)
EXTENDS InodeCache, TLC

CONSTANTS t1, t2, t3

MCThreads2 == {t1, t2}
MCThreads3 == {t1, t2, t3}
ThreadSymmetry2 == Permutations(MCThreads2)
ThreadSymmetry3 == Permutations(MCThreads3)
=============================================================================
