\* An orphaned inode must eventually be freed; iput racing ialloc leaks it.
CONSTANTS
    t1 = t1  t2 = t2  t3 = t3
    NoThread = NoThread
    Threads <- MCThreads2
    Inums = {1, 2}
    NINODE = 2
    MaxLink = 2
SPECIFICATION FairSpec
PROPERTY OrphanFreed
