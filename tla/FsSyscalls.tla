----------------------------- MODULE FsSyscalls -----------------------------
(***************************************************************************)
(* The path-based system calls of src/mp4/kernel/sysfile.c as one process  *)
(* issues them: open (with O_CREATE, O_TRUNC, O_NOACCESS and the two       *)
(* permission bits), mkdir, symlink, readlink, chdir and chmod (with its  *)
(* recursive form), each one step, over the tree and the static path      *)
(* buffer of PathResolver.                                                 *)
(*                                                                         *)
(* Besides the tree, the state records whether a file has content (size), *)
(* the inode references a call left behind (refs), a kernel panic, and    *)
(* what the last call returned (last), which the properties read.  The    *)
(* file a successful open allocates is not modelled: it is taken to be    *)
(* closed again, which puts the inode.                                     *)
(***************************************************************************)
EXTENDS PathResolver

CONSTANTS
    Paths,      \* path arguments, as sequences of characters
    OModes,     \* open flags, each a subset of the flag names below
    Bits,       \* mode arguments of chmod, each a nonempty subset of {"r","w"}
    SymlinkArgs, \* <<target, path>> arguments of symlink
    Ops,        \* the system calls the process issues
    MaxRefs     \* bound on the references one inode can have leaked

Flags == {"WRONLY", "RDWR", "CREATE", "TRUNC", "NOACCESS"}

ASSUME /\ \A o \in OModes : o \subseteq Flags
       /\ "f" \in Names
       /\ Ops \subseteq {"open", "mkdir", "symlink", "readlink", "chmod", "chdir"}

VARIABLES
    size,       \* size[i] = 1: the file has content
    buf,        \* concat_path's static buffer
    refs,       \* inode references left held after a call returned
    panicked,   \* "no", or the panic that stopped the kernel
    last        \* the last call and its result

vars == <<fsvars, size, buf, refs, panicked, last>>

NoCall == [op |-> "none", ok |-> FALSE, ip |-> 0, rd |-> FALSE, wr |-> FALSE,
           bits |-> {}, set |-> FALSE, rec |-> FALSE, out |-> <<>>]

TypeOK ==
    /\ itype \in [Inodes -> Types]
    /\ mode \in [Inodes -> Modes]
    /\ ents \in [Inodes -> [Names -> Inodes \cup {0}]]
    /\ tgt \in [Inodes -> Seq(Chars)]
    /\ cwd \in Inodes
    /\ size \in [Inodes -> {0, 1}]
    /\ buf \in [BufIdx -> Chars \cup {NUL}]
    /\ refs \in [Inodes -> 0 .. MaxRefs]
    /\ panicked \in {"no", "ialloc", "iunlock", "stack"}
    /\ last.op \in {"none", "open", "mkdir", "symlink", "readlink", "chmod", "chdir"}
    /\ last.ip \in Inodes \cup {0}

(* After mkfs and one file written: the root directory holds a file "f"  *)
(* with content; the other inodes are free.  The static buffer is zero    *)
(* and the process's cwd is the root.                                      *)
RootFile == CHOOSE i \in Inodes \ {ROOTINO} : \A j \in Inodes \ {ROOTINO} : i <= j
FName == "f"

Init ==
    /\ itype = [i \in Inodes |-> CASE i = ROOTINO  -> "dir"
                                   [] i = RootFile -> "file"
                                   [] OTHER        -> "free"]
    /\ mode = [i \in Inodes |-> IF i \in {ROOTINO, RootFile} THEN {"r", "w"} ELSE {}]
    /\ ents = [i \in Inodes |-> [c \in Names |->
                  IF i = ROOTINO /\ c = FName THEN RootFile ELSE 0]]
    /\ tgt = [i \in Inodes |-> <<>>]
    /\ cwd = ROOTINO
    /\ size = [i \in Inodes |-> IF i = RootFile THEN 1 ELSE 0]
    /\ buf = [k \in BufIdx |-> NUL]
    /\ refs = [i \in Inodes |-> 0]
    /\ panicked = "no"
    /\ last = NoCall

Running == panicked = "no"

-----------------------------------------------------------------------------
(* create(path, type) once nameiparent(path) has returned par: kind       *)
(* "fail" (no parent, or the name exists and is not a plain file asked    *)
(* for as one), "old" (the existing file, locked), "panic" (ialloc found   *)
(* no free inode) or "new" (the first free inode, linked into the parent   *)
(* dp under name).  The actions bind each resolution once, with \E over a  *)
(* one-element set, and pass the result on.                                *)
CreateRes(par, type) ==
    LET old == DirLookup(par.ip, par.name)
        free == {i \in Inodes : itype[i] = "free"}
    IN CASE par.ip = 0 -> [kind |-> "fail"]
         [] old # 0 -> IF type = "file" /\ itype[old] = "file"
                      THEN [kind |-> "old", ip |-> old]
                      ELSE [kind |-> "fail"]
         [] free = {} -> [kind |-> "panic"]
         [] OTHER -> [kind |-> "new", dp |-> par.ip, name |-> par.name[1],
                      ip |-> CHOOSE i \in free : \A j \in free : i <= j]

(* ialloc's type and M_ALL, create's dirlink into the parent.              *)
CreateNew(c, type) ==
    /\ itype' = [itype EXCEPT ![c.ip] = type]
    /\ mode' = [mode EXCEPT ![c.ip] = {"r", "w"}]
    /\ ents' = [ents EXCEPT ![c.dp][c.name] = c.ip]

Call(op, ok, ip) == [NoCall EXCEPT !.op = op, !.ok = ok, !.ip = ip]

(* A failed call: nothing but the static buffer and the result changes.   *)
Fails(op, b) ==
    /\ buf' = b
    /\ last' = Call(op, FALSE, 0)
    /\ UNCHANGED <<fsvars, size, refs, panicked>>

Panics(why) ==
    /\ panicked' = why
    /\ UNCHANGED <<fsvars, size, buf, refs, last>>

-----------------------------------------------------------------------------
(* sys_open's permission checks, skipped for O_NOACCESS.                   *)
WriteDenied(om, m) == ("WRONLY" \in om \/ "RDWR" \in om) /\ "w" \notin m

ReadDenied(om, m) == (om = {} \/ "RDWR" \in om) /\ "r" \notin m

(* The file the call opens, with its access and O_TRUNC applied (a newly  *)
(* created inode is still free here, and empty).                          *)
Opened(om, ip) ==
    /\ last' = [Call("open", TRUE, ip) EXCEPT
                  !.rd = "NOACCESS" \notin om /\ "WRONLY" \notin om,
                  !.wr = "NOACCESS" \notin om /\ ("WRONLY" \in om \/ "RDWR" \in om)]
    /\ size' = IF "TRUNC" \in om /\ itype[ip] = "file"
               THEN [size EXCEPT ![ip] = 0] ELSE size

(* sys_open with O_CREATE: create() and no permission check.               *)
OpenCreate(path, om) ==
    \E c \in {CreateRes(NameIParent(path, buf), "file")} :
    CASE c.kind = "fail"  -> Fails("open", buf)
      [] c.kind = "panic" -> Panics("ialloc")
      [] c.kind = "old"   -> /\ Opened(om, c.ip)
                             /\ UNCHANGED <<fsvars, buf, refs, panicked>>
      [] OTHER            -> /\ CreateNew(c, "file")
                             /\ Opened(om, c.ip)
                             /\ UNCHANGED <<tgt, cwd, buf, refs, panicked>>

(* sys_open without O_CREATE: namei_follow, follow_symlink on a final     *)
(* symlink unless O_NOACCESS, the directory check, the permission checks. *)
OpenExisting(path, om) ==
    \E r \in {NameIFollow(path, buf)} :
    \E ip \in {IF r.ip # 0 /\ itype[r.ip] = "symlink" /\ "NOACCESS" \notin om
               THEN FollowSymlink(r.ip, 0, FALSE, r.buf).ret ELSE r.ip} :
    CASE r.overflow -> Panics("stack")
      [] r.ip = 0 \/ ip = 0 -> Fails("open", r.buf)
      [] itype[ip] = "dir" /\ om \notin {{}, {"NOACCESS"}} -> Fails("open", r.buf)
      [] "NOACCESS" \notin om /\ (WriteDenied(om, mode[ip]) \/ ReadDenied(om, mode[ip]))
            -> Fails("open", r.buf)
      [] OTHER -> /\ buf' = r.buf
                  /\ Opened(om, ip)
                  /\ UNCHANGED <<fsvars, refs, panicked>>

Open(path, om) ==
    /\ Running /\ "open" \in Ops
    /\ IF "CREATE" \in om THEN OpenCreate(path, om) ELSE OpenExisting(path, om)

(* sys_mkdir: create(path, T_DIR).                                         *)
Mkdir(path) ==
    /\ Running /\ "mkdir" \in Ops
    /\ \E c \in {CreateRes(NameIParent(path, buf), "dir")} :
       CASE c.kind = "new"   -> /\ CreateNew(c, "dir")
                                /\ last' = Call("mkdir", TRUE, c.ip)
                                /\ UNCHANGED <<tgt, cwd, size, buf, refs, panicked>>
         [] c.kind = "panic" -> Panics("ialloc")
         [] OTHER            -> Fails("mkdir", buf)

(* Mutant: the existing path's reference put twice.                        *)
SymlinkPutsUnheld(target, path) ==
    /\ Running /\ "symlink" \in Ops
    /\ \E n \in {NameI(path, buf).ip}, c \in {CreateRes(NameIParent(path, buf), "symlink")} :
       CASE n # 0 -> /\ refs' = [refs EXCEPT ![n] = @ - 1]
                     /\ last' = Call("symlink", FALSE, 0)
                     /\ UNCHANGED <<fsvars, size, buf, panicked>>
         [] c.kind = "panic" -> Panics("ialloc")
         [] c.kind = "new" -> /\ CreateNew(c, "symlink")
                              /\ tgt' = [tgt EXCEPT ![c.ip] = target]
                              /\ last' = Call("symlink", TRUE, c.ip)
                              /\ UNCHANGED <<cwd, size, buf, refs, panicked>>
         [] OTHER -> Fails("symlink", buf)

(* sys_symlink: fail if namei(path) finds an inode (whose reference is    *)
(* never put), else create(path, T_SYMLINK) and writei the target.        *)
Symlink(target, path) ==
    /\ Running /\ "symlink" \in Ops
    /\ \E n \in {NameI(path, buf).ip}, c \in {CreateRes(NameIParent(path, buf), "symlink")} :
       CASE n # 0 -> /\ refs[n] < MaxRefs
                     /\ refs' = [refs EXCEPT ![n] = @ + 1]
                     /\ last' = Call("symlink", FALSE, 0)
                     /\ UNCHANGED <<fsvars, size, buf, panicked>>
         [] c.kind = "panic" -> Panics("ialloc")
         [] c.kind = "new" -> /\ CreateNew(c, "symlink")
                              /\ tgt' = [tgt EXCEPT ![c.ip] = target]
                              /\ last' = Call("symlink", TRUE, c.ip)
                              /\ UNCHANGED <<cwd, size, buf, refs, panicked>>
         [] OTHER -> Fails("symlink", buf)

(* sys_readlink: namei, follow_symlink(ip, 0, 1), then the check at line  *)
(* 760.  On failure it iunlockputs ip, which follow_symlink has already    *)
(* unlocked when ip is a symlink: iunlock panics.                          *)
Readlink(path) ==
    /\ Running /\ "readlink" \in Ops
    /\ \E ip \in {NameI(path, buf).ip} :
       \E f \in {IF ip = 0 THEN [ret |-> 0, held |-> FALSE]
                 ELSE FollowSymlink(ip, 0, TRUE, buf)} :
       CASE ip = 0 -> Fails("readlink", buf)
         [] f.ret = 0 \/ itype[f.ret] # "symlink" ->
                IF itype[ip] = "symlink" THEN Panics("iunlock") ELSE Fails("readlink", buf)
         [] OTHER -> /\ last' = [Call("readlink", TRUE, ip) EXCEPT !.out = tgt[f.ret]]
                     /\ UNCHANGED <<fsvars, size, buf, refs, panicked>>

(* sys_chdir: namei, which follows no symlink; a path that resolves to    *)
(* anything but a directory fails.  The old cwd's reference is put and the *)
(* new one's kept, so the held references of the properties do not change.*)
Chdir(path) ==
    /\ Running /\ "chdir" \in Ops
    /\ \E ip \in {NameI(path, buf).ip} :
       IF ip = 0 \/ itype[ip] # "dir"
       THEN Fails("chdir", buf)
       ELSE /\ cwd' = ip
            /\ last' = Call("chdir", TRUE, ip)
            /\ UNCHANGED <<itype, mode, ents, tgt, size, buf, refs, panicked>>

(* Mutant: chmod_recursive that does not descend into subdirectories.      *)
ChmodChildren(d) == {ents[d][c] : c \in Names} \ {0}

(* chmod_recursive from d: every inode below d through directory entries, *)
(* descending into every subdirectory whatever its mode.                   *)
RECURSIVE ChmodSubtree(_)
ChmodSubtree(d) ==
    LET kids == {ents[d][c] : c \in Names} \ {0}
    IN kids \cup UNION {ChmodSubtree(k) : k \in {k \in kids : itype[k] = "dir"}}

(* sys_chmod: namei_follow; a final symlink is followed and a failure     *)
(* reaches iunlockput(0), which panics; a followed directory without read *)
(* permission refuses a recursive change; then the bits are set or        *)
(* cleared on the inode and, recursively, below it.                        *)
Chmod(path, bits, rec, set) ==
    /\ Running /\ "chmod" \in Ops
    /\ \E r \in {NameIFollow(path, buf)} :
       LET link == r.ip # 0 /\ itype[r.ip] = "symlink" IN
       \E ip \in {IF link THEN FollowSymlink(r.ip, 0, FALSE, r.buf).ret ELSE r.ip} :
       LET targets == {ip} \cup IF rec /\ itype[ip] = "dir" THEN ChmodSubtree(ip) ELSE {}
       IN
       CASE r.overflow -> Panics("stack")
         [] r.ip = 0 -> Fails("chmod", r.buf)
         [] ip = 0 -> Panics("iunlock")
         [] link /\ "r" \notin mode[ip] /\ itype[ip] = "dir" /\ rec -> Fails("chmod", r.buf)
         [] OTHER ->
              /\ mode' = [i \in Inodes |->
                            IF i \notin targets THEN mode[i]
                            ELSE IF set THEN mode[i] \cup bits ELSE mode[i] \ bits]
              /\ buf' = r.buf
              /\ last' = [Call("chmod", TRUE, ip) EXCEPT !.bits = bits, !.set = set,
                                                         !.rec = rec]
              /\ UNCHANGED <<itype, ents, tgt, cwd, size, refs, panicked>>

(* A panic stops the kernel.                                               *)
Halted == ~Running /\ UNCHANGED vars

Next ==
    \/ \E p \in Paths, om \in OModes : Open(p, om)
    \/ \E p \in Paths : Mkdir(p) \/ Readlink(p) \/ Chdir(p)
    \/ \E a \in SymlinkArgs : Symlink(a[1], a[2])
    \/ \E p \in Paths, b \in Bits, rec, set \in BOOLEAN : Chmod(p, b, rec, set)
    \/ Halted

Spec == Init /\ [][Next]_vars

-----------------------------------------------------------------------------
(* Directory x has an entry naming y.                                      *)
Contains(x, y) == itype[x] = "dir" /\ \E c \in Names : ents[x][c] = y

(* The inodes reachable from d by one or more entries: the least fixed     *)
(* point, computed breadth first.                                          *)
RECURSIVE Reach(_)
Reach(S) == LET T == S \cup {y \in Inodes : \E x \in S : Contains(x, y)}
            IN IF T = S THEN S ELSE Reach(T)

Below(d) == Reach({y \in Inodes : Contains(d, y)})

(* sys_open's permission checks (sysfile.c:347-360): a file opened         *)
(* readable has its read bit and one opened writable its write bit,        *)
(* whatever other flags come with the access mode.                          *)
OpenRespectsMode ==
    last.op = "open" /\ last.ok =>
        /\ last.rd => "r" \in mode[last.ip]
        /\ last.wr => "w" \in mode[last.ip]

(* namei_follow resolves every path as the design's resolvePath does:      *)
(* the recursion of namex over concat_path's static buffer ends within the *)
(* kernel stack and reaches the inode that splicing each non-final         *)
(* symlink's target into the remaining names reaches.                      *)
ResolvesAsSpecified ==
    \A p \in Paths : LET r == NameIFollow(p, buf) IN
                     ~r.overflow /\ r.ip = SpecResolve(p)

(* A successful recursive chmod of a directory (sys_chmod and              *)
(* chmod_recursive) has set, or cleared, the bits on the directory and on  *)
(* every inode below it, at any depth: clearing read leaves no descendant  *)
(* readable.                                                                *)
ChmodReachesDescendants ==
    last.op = "chmod" /\ last.ok /\ last.rec =>
        \A i \in {last.ip} \cup Below(last.ip) :
            IF last.set THEN last.bits \subseteq mode[i] ELSE last.bits \cap mode[i] = {}

(* No sequence of system calls panics the kernel or overflows its stack    *)
(* (create's ialloc aside, which these runs keep within the inode supply). *)
NoPanic == panicked = "no"

=============================================================================
