\* Two threads, two inodes on disk, two cache slots (one per thread), nlink <= 2;
\* the cache's invariants hold, and every started system call finishes.
CONSTANTS
    t1 = t1  t2 = t2  t3 = t3
    NoThread = NoThread
    Threads <- MCThreads2
    Inums = {1, 2}
    NINODE = 2
    MaxLink = 2
SPECIFICATION FairSpec
INVARIANT TypeOK
INVARIANT UniqueInum
INVARIANT LockedMatchesDisk
INVARIANT RefNeverDangles
PROPERTY SyscallsReturn
