\* Disk 0 failed: bread re-reads PBN1 over a buffer the log has not committed.
CONSTANTS
    t1 = t1  t2 = t2  b1 = b1  b2 = b2  b3 = b3  b4 = b4
    NoThread = NoThread
    NoBlock = NoBlock
    Committer = Committer
    UINT = 16
    Versions = {0, 1}
    Threads <- MCThreads1
    Blocks <- MCBlocks2
    NBUF = 2
    LOGSIZE = 1
    Faults <- MCDiskZeroDown
SPECIFICATION Spec
INVARIANT ReadYourWrites
