\* Two threads reading and logging three blocks through three buffers, no
\* faults: only the commit's PBN1 write redirects blockno.
CONSTANTS
    t1 = t1  t2 = t2  b1 = b1  b2 = b2  b3 = b3  b4 = b4
    NoThread = NoThread
    NoBlock = NoBlock
    Committer = Committer
    UINT = 16
    Versions = {0, 1}
    Threads <- MCThreads
    Blocks <- MCBlocks3
    NBUF = 3
    LOGSIZE = 1
    Faults = {}
SPECIFICATION Spec
SYMMETRY Symmetry3
INVARIANT UniqueBlock
