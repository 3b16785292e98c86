\* Permission checks of sys_open and sys_chmod on /f, a directory and a
\* symlink to /f.
CONSTANTS
    Inodes = {1, 2, 3, 4}
    ROOTINO = 1
    Names = {"a", "d", "f"}
    NUL = NUL
    DIRSIZ = 14
    BUFSZ = 128
    MAX_SYMLINK_DEPTH = 10
    KSTACK = 12
    Paths <- PermPaths
    SymlinkArgs <- PermLinks
    OModes <- AccessModes
    Bits = {{"r"}, {"w"}}
    Ops = {"open", "mkdir", "symlink", "readlink", "chmod"}
    MaxRefs = 1
SPECIFICATION Spec
INVARIANT OpenRespectsMode
