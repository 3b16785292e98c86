\* filealloc, filedup, fileclose, fileread and filewrite of two threads over
\* the file kmem_cache, on one file of three positions written a position
\* per chunk.
CONSTANTS
    Pages = {p1, p2}
    CachePage = c
    CacheObjs = 1
    SlabObjs = 2
    MIN_AVAIL_SLAB = 1
    NoObj = NoObj
    Threads = {t1, t2}
    MaxHandles = 2
    MaxFile = 3
    MaxChunk = 1
    Lens = {2}
    NoThread = NoThread
    IOObjs <- MCIOObjs
SYMMETRY MCSymmetry
SPECIFICATION Spec
INVARIANTS TypeOK SlabListsExact ObjectsAccounted SharedOffsetExact
