\* Writes, reads and truncations of two inodes on a five-block disk: the
\* second file's allocations can exhaust the disk and panic balloc.
CONSTANTS
    Inos = {1, 2}
    NBLK = 5
    META <- MCMeta
    BSIZE = 2
    NDIRECT = 1
    NINDIRECT = 2
    Vals <- MCVals
SPECIFICATION Spec
INVARIANTS TypeOK BitmapExact ReadYourWrites
PROPERTY ImplementsFileStore
