\* open() of /a/f through a symlink /a -> /a/a.
CONSTANTS
    Inodes = {1, 2, 3}
    ROOTINO = 1
    Names = {"a", "b", "d", "f"}
    NUL = NUL
    DIRSIZ = 14
    BUFSZ = 32
    MAX_SYMLINK_DEPTH = 10
    KSTACK = 12
    Paths <- CyclePaths
    SymlinkArgs <- CycleLinks
    OModes <- RdTruncModes
    Bits = {{"r", "w"}}
    Ops = {"symlink", "open"}
    MaxRefs = 1
SPECIFICATION Spec
INVARIANT NoPanic
