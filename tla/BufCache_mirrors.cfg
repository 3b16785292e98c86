\* One thread, two blocks over two buffers so valid buffers are evicted and
\* re-read, single faults injected at any time, a log of two blocks: with
\* one held buffer and two pinned ones, bget can run out and panic.
CONSTANTS
    t1 = t1  t2 = t2  b1 = b1  b2 = b2  b3 = b3  b4 = b4
    NoThread = NoThread
    NoBlock = NoBlock
    Committer = Committer
    UINT = 16
    Versions = {0, 1}
    Threads <- MCThreads1
    Blocks <- MCBlocks2
    NBUF = 2
    LOGSIZE = 2
    Faults <- MCFaults2
SPECIFICATION Spec
SYMMETRY Symmetry2
INVARIANT TypeOK
INVARIANT MirrorHoldsCommit
