---------------------------- MODULE PathResolver ----------------------------
(***************************************************************************)
(* Path resolution of src/mp4/kernel/fs.c: skipelem, dirlookup, namex,     *)
(* concat_path (with safestrcat and the kernel's safestrcpy) and           *)
(* follow_symlink, as operators over the file-system tree held in the      *)
(* variables below.                                                        *)
(*                                                                         *)
(* Paths are handled character by character, because concat_path returns  *)
(* one static 128-byte buffer and namex keeps resolving the rest of the   *)
(* path inside that same buffer while the next concat_path overwrites it. *)
(* A character is a one-letter name from Names, "/", or NUL.  A pointer   *)
(* is either into a system call's own argument array or into the static  *)
(* buffer; only the latter can alias.                                      *)
(*                                                                         *)
(* Directory entries map one-letter names to inode numbers ("." and ".."  *)
(* are not modelled: no path used here contains them).  A relative path   *)
(* starts at the process's cwd, which sys_chdir moves.                    *)
(***************************************************************************)
EXTENDS Naturals, Sequences, FiniteSets

CONSTANTS
    Inodes,             \* inode numbers
    ROOTINO,            \* the root directory
    Names,              \* one-letter names, each a string of length one
    NUL,                \* the string terminator
    DIRSIZ,             \* 14 in fs.h
    BUFSZ,              \* size of concat_path's static buffer (128)
    MAX_SYMLINK_DEPTH,  \* 10 in fs.c
    KSTACK              \* nested namex frames the kernel stack holds

ASSUME /\ ROOTINO \in Inodes
       /\ NUL \notin Names /\ "/" \notin Names
       /\ DIRSIZ \in Nat \ {0} /\ BUFSZ \in Nat \ {0}
       /\ KSTACK > MAX_SYMLINK_DEPTH

Chars == Names \cup {"/"}
Types == {"free", "dir", "file", "symlink"}
Modes == SUBSET {"r", "w"}     \* M_READ, M_WRITE
BufIdx == 0 .. BUFSZ - 1

VARIABLES
    itype,  \* dinode type
    mode,   \* permission bits
    ents,   \* ents[d][c]: inode named c in directory d, 0 if none
    tgt,    \* content of a symlink: its target path
    cwd     \* p->cwd: the directory a relative path starts at

fsvars == <<itype, mode, ents, tgt, cwd>>

-----------------------------------------------------------------------------
(* Character pointers.  A pointer into an argument array reads NUL past    *)
(* the end of the string.                                                  *)
ArgPtr(s) == [arr |-> "arg", s |-> s]
BufPtr == [arr |-> "buf", s |-> <<>>]

CharAt(p, k, b) ==
    IF p.arr = "buf" THEN IF k < BUFSZ THEN b[k] ELSE NUL
    ELSE IF k < Len(p.s) THEN p.s[k + 1] ELSE NUL

RECURSIVE SkipSlashes(_, _, _)
SkipSlashes(p, k, b) == IF CharAt(p, k, b) = "/" THEN SkipSlashes(p, k + 1, b) ELSE k

RECURSIVE ElemEnd(_, _, _)
ElemEnd(p, k, b) == IF CharAt(p, k, b) \in {"/", NUL} THEN k ELSE ElemEnd(p, k + 1, b)

(* skipelem: the next element (at most DIRSIZ characters) and the offset   *)
(* of what follows it, leading slashes skipped; found is FALSE when no     *)
(* element is left.                                                        *)
SkipElem(p, k, b) ==
    LET s == SkipSlashes(p, k, b)
        e == ElemEnd(p, s, b)
        n == IF e - s >= DIRSIZ THEN DIRSIZ ELSE e - s
    IN IF CharAt(p, s, b) = NUL
       THEN [found |-> FALSE, name |-> <<>>, next |-> s]
       ELSE [found |-> TRUE, name |-> [i \in 1..n |-> CharAt(p, s + i - 1, b)],
             next |-> SkipSlashes(p, e, b)]

(* dirlookup: the entry whose name equals the element (namecmp).           *)
DirLookup(d, nm) ==
    IF Len(nm) = 1 /\ nm[1] \in Names THEN ents[d][nm[1]] ELSE 0

-----------------------------------------------------------------------------
(* safestrcpy(buf, t, n) of the kernel's string.c: copies up to n-1       *)
(* characters and the terminator, then writes one more NUL after it.       *)
SafeStrCpy(b, t, n) ==
    LET m == IF Len(t) < n - 1 THEN Len(t) ELSE n - 1
    IN [i \in BufIdx |-> IF i < m THEN t[i + 1]
                         ELSE IF i = m \/ (i = m + 1 /\ Len(t) < n - 1) THEN NUL
                         ELSE b[i]]

RECURSIVE StrEnd(_, _, _)
StrEnd(b, i, max) == IF i < max /\ b[i] # NUL THEN StrEnd(b, i + 1, max) ELSE i

(* safestrcat's copy loop; the source is read from the buffer as it is    *)
(* being written when it points into the buffer.                           *)
RECURSIVE CatLoop(_, _, _, _, _)
CatLoop(b, i, p, j, max) ==
    IF i < max - 1 /\ CharAt(p, j, b) # NUL
    THEN CatLoop([b EXCEPT ![i] = CharAt(p, j, b)], i + 1, p, j + 1, max)
    ELSE [b EXCEPT ![i] = NUL]

SafeStrCat(b, p, j, max) == CatLoop(b, StrEnd(b, 0, max), p, j, max)

(* concat_path(target, rest): the static buffer after the call, rest being *)
(* the pointer p at offset k.                                              *)
ConcatPath(t, p, k, b) ==
    LET b1 == SafeStrCpy(b, t, BUFSZ)
    IN IF CharAt(p, k, b1) = NUL THEN b1
       ELSE SafeStrCat(SafeStrCat(b1, ArgPtr(<<"/">>), 0, BUFSZ), p, k, BUFSZ)

(* The target namex reads: readi of at most DIRSIZ bytes into a zeroed     *)
(* array of DIRSIZ+1.                                                      *)
NamexTarget(n) ==
    SubSeq(tgt[n], 1, IF Len(tgt[n]) < DIRSIZ THEN Len(tgt[n]) ELSE DIRSIZ)

-----------------------------------------------------------------------------
(* namex(path, nameiparent, name, follow).  The result is the inode (0 on *)
(* failure), the last element for nameiparent, the static buffer after the *)
(* call, and overflow when the recursion would exceed the kernel stack.   *)
NamexResult(ip, nm, b) == [ip |-> ip, name |-> nm, buf |-> b, overflow |-> FALSE]

(* namex starts at the root for an absolute path and at cwd otherwise.     *)
NamexStart(p, k, b) == IF CharAt(p, k, b) = "/" THEN ROOTINO ELSE cwd

(* namex's loop from ip at offset k of p.  A non-final symlink makes a     *)
(* nested namex call (jump) on concat_path's buffer, which starts again    *)
(* with symlink_depth = 0; otherwise the loop goes on from next.            *)
RECURSIVE NamexLoop(_, _, _, _, _, _, _, _)
NamexLoop(ip, p, k, parent, follow, b, depth, frames) ==
    LET e == SkipElem(p, k, b)
        last == CharAt(p, e.next, b) = NUL
        next == DirLookup(ip, e.name)
        jump == follow /\ itype[next] = "symlink" /\ ~last
        nb == IF jump THEN ConcatPath(NamexTarget(next), p, e.next, b) ELSE b
    IN
    IF frames > KSTACK THEN [ip |-> 0, name |-> <<>>, buf |-> b, overflow |-> TRUE]
    ELSE IF ~e.found THEN IF parent THEN NamexResult(0, <<>>, b) ELSE NamexResult(ip, <<>>, b)
    ELSE IF itype[ip] # "dir" \/ "r" \notin mode[ip] THEN NamexResult(0, <<>>, b)
    ELSE IF parent /\ last THEN NamexResult(ip, e.name, b)
    ELSE IF next = 0 THEN NamexResult(0, <<>>, b)
    ELSE IF jump /\ depth + 1 > MAX_SYMLINK_DEPTH THEN NamexResult(0, <<>>, b)
    ELSE NamexLoop(IF jump THEN NamexStart(BufPtr, 0, nb) ELSE next,
                   IF jump THEN BufPtr ELSE p, IF jump THEN 0 ELSE e.next,
                   parent, follow, nb, IF jump THEN 0 ELSE depth,
                   IF jump THEN frames + 1 ELSE frames)

(* namex(path, nameiparent, name, follow), the call being frame number     *)
(* frames of the kernel stack.                                             *)
Namex(p, k, parent, follow, b, frames) ==
    NamexLoop(NamexStart(p, k, b), p, k, parent, follow, b, 0, frames)

(* namei, namei_follow and nameiparent on a system-call argument.          *)
NameI(path, b) == Namex(ArgPtr(path), 0, FALSE, FALSE, b, 1)
NameIFollow(path, b) == Namex(ArgPtr(path), 0, FALSE, TRUE, b, 1)
NameIParent(path, b) == Namex(ArgPtr(path), 0, TRUE, FALSE, b, 1)

(* follow_symlink(ip, depth, read) on a locked, referenced ip.  ret is the *)
(* inode returned (0 on failure); held says whether the caller then holds  *)
(* it locked and referenced: with read set, the inode returned is a       *)
(* symlink that has already been unlocked and put.                         *)
RECURSIVE FollowSymlink(_, _, _, _)
FollowSymlink(ip, depth, read, b) ==
    LET next == NameI(tgt[ip], b).ip IN
    IF depth > 10 THEN [ret |-> 0, held |-> FALSE]
    ELSE IF itype[ip] # "symlink" THEN [ret |-> ip, held |-> TRUE]
    ELSE IF Len(tgt[ip]) = 0 \/ next = 0 THEN [ret |-> 0, held |-> FALSE]
    ELSE IF itype[next] = "symlink" THEN FollowSymlink(next, depth + 1, read, b)
    ELSE IF read THEN [ret |-> ip, held |-> FALSE]
    ELSE [ret |-> next, held |-> TRUE]

-----------------------------------------------------------------------------
(* Resolution as section 4.4 of the design describes it, over lists of     *)
(* names: each non-final symlink's target is spliced with the remaining    *)
(* names and resolution restarts; more than MAX_SYMLINK_DEPTH splices      *)
(* fail.  Returns the inode, or 0.                                         *)
RECURSIVE Split(_)
Split(s) ==
    LET n == CHOOSE n \in 1..Len(s) :
                /\ \A i \in 1..n : s[i] # "/"
                /\ (n = Len(s) \/ s[n + 1] = "/")
    IN IF s = <<>> THEN <<>>
       ELSE IF Head(s) = "/" THEN Split(Tail(s))
       ELSE <<SubSeq(s, 1, n)>> \o Split(SubSeq(s, n + 1, Len(s)))

RECURSIVE SpecWalk(_, _, _)
SpecWalk(ip, names, depth) ==
    LET next == DirLookup(ip, Head(names))
        t == tgt[next]
    IN
    IF names = <<>> THEN ip
    ELSE IF itype[ip] # "dir" \/ "r" \notin mode[ip] \/ next = 0 THEN 0
    ELSE IF itype[next] = "symlink" /\ Len(names) > 1
         THEN IF depth >= MAX_SYMLINK_DEPTH THEN 0
              ELSE SpecWalk(IF t # <<>> /\ Head(t) = "/" THEN ROOTINO ELSE cwd,
                            Split(t) \o Tail(names), depth + 1)
    ELSE SpecWalk(next, Tail(names), depth)

SpecResolve(path) ==
    SpecWalk(IF path # <<>> /\ Head(path) = "/" THEN ROOTINO ELSE cwd, Split(path), 0)

=============================================================================
