\* Path resolution through a symlink and recursive chmod over a tree
\* built by mkdir and open(O_CREATE).
CONSTANTS
    Inodes = {1, 2, 3, 4, 5}
    ROOTINO = 1
    Names = {"a", "d", "f"}
    NUL = NUL
    DIRSIZ = 14
    BUFSZ = 128
    MAX_SYMLINK_DEPTH = 10
    KSTACK = 12
    Paths <- TreePaths
    SymlinkArgs <- TreeLinks
    OModes <- TreeModes
    Bits = {{"r"}}
    Ops = {"open", "mkdir", "symlink", "readlink", "chmod", "chdir"}
    MaxRefs = 1
SPECIFICATION Spec
INVARIANTS TypeOK ChmodReachesDescendants
