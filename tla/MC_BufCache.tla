---------------------------- MODULE MC_BufCache ----------------------------
(* Instantiates BufCache for TLC: two threads, model-value blocks.          *)
EXTENDS BufCache, TLC

CONSTANTS t1, t2, b1, b2, b3, b4

MCThreads == {t1, t2}
MCBlocks4 == {b1, b2, b3, b4}
MCBlocks3 == {b1, b2, b3}
MCThreads1 == {t1}

(* One fault at a time: a whole mirror down, or one PBN0 block failing.    *)
SingleFaults(B) ==
    {[disk |-> d, pbn |-> NoBlock] : d \in {0, 1}} \cup
    {[disk |-> -1, pbn |-> b] : b \in B}

MCFaults4 == SingleFaults(MCBlocks4)
MCDiskZeroDown == {[disk |-> 0, pbn |-> NoBlock]}

Symmetry4 == Permutations(MCThreads) \cup Permutations(MCBlocks4)
Symmetry3 == Permutations(MCThreads) \cup Permutations(MCBlocks3)
MCFaults3 == SingleFaults(MCBlocks3)
MCBlocks2 == {b1, b2}
MCFaults2 == SingleFaults(MCBlocks2)
Symmetry2 == Permutations(MCThreads) \cup Permutations(MCBlocks2)
=============================================================================
