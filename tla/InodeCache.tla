----------------------------- MODULE InodeCache -----------------------------
(***************************************************************************)
(* The in-memory inode cache of src/mp4/kernel/fs.c (icache, iget, ilock,  *)
(* iunlock, iput, ialloc, iupdate) under concurrent kernel threads.        *)
(*                                                                         *)
(* NINODE cache slots hold inum, ref, valid, the sleep-lock holder and the *)
(* cached copy of the on-disk fields the code reads (type, nlink).  The    *)
(* disk holds type and nlink per inum.  dirents[n] counts the directory   *)
(* entries naming inum n: a thread reaches an inode either through a       *)
(* directory entry (dirlookup, which calls iget while the directory is     *)
(* locked) or by allocating it (ialloc).  A thread holding an inode locked *)
(* may add or remove a link (sys_link, sys_unlink); it then unlocks it and *)
(* iputs it.  icache.lock is a variable because iput holds it across       *)
(* acquiresleep on its free path.                                          *)
(***************************************************************************)
EXTENDS Naturals, FiniteSets

CONSTANTS
    Threads,     \* kernel threads
    Inums,       \* on-disk inode numbers ialloc scans (a set of naturals)
    NINODE,      \* cache slots
    MaxLink,     \* bound on nlink
    NoThread

ASSUME /\ Inums \subseteq Nat \ {0}
       /\ NINODE \in Nat \ {0}
       /\ MaxLink \in Nat \ {0}
       /\ NoThread \notin Threads

Slots == 1..NINODE
Types == {"free", "file"}      \* "free" is type 0

VARIABLES
    inum, ref, valid, itype, nlink, ilk,   \* cache slots; ilk: sleep-lock holder
    icacheLock,                            \* holder of icache.lock
    dtype, dnlink,                         \* on-disk dinode fields
    dirents,                               \* directory entries naming each inum
    pc, tslot, tinum,                      \* per-thread
    panicked                               \* "no" or which panic fired

slots  == <<inum, ref, valid, itype, nlink, ilk>>
disk   == <<dtype, dnlink, dirents>>
thread == <<pc, tslot, tinum>>
vars   == <<slots, icacheLock, disk, thread, panicked>>

TypeOK ==
    /\ inum \in [Slots -> Inums \cup {0}]
    /\ ref \in [Slots -> Nat]
    /\ valid \in [Slots -> BOOLEAN]
    /\ itype \in [Slots -> Types]
    /\ nlink \in [Slots -> 0..MaxLink]
    /\ ilk \in [Slots -> Threads \cup {NoThread}]
    /\ icacheLock \in Threads \cup {NoThread}
    /\ dtype \in [Inums -> Types]
    /\ dnlink \in [Inums -> 0..MaxLink]
    /\ dirents \in [Inums -> 0..MaxLink]
    /\ pc \in [Threads -> {"idle", "iget", "newref", "ref", "new", "locked",
                           "done", "unlocked", "iputsleep", "trunc", "inval", "dec"}]
    /\ tslot \in [Threads -> Slots]
    /\ tinum \in [Threads -> Inums]
    /\ panicked \in {"no", "ialloc", "iget", "ilock"}

(* iinit: the table is static storage, every slot zero; every inode free  *)
(* on disk.                                                                *)
Init ==
    /\ inum = [s \in Slots |-> 0]
    /\ ref = [s \in Slots |-> 0]
    /\ valid = [s \in Slots |-> FALSE]
    /\ itype = [s \in Slots |-> "free"]
    /\ nlink = [s \in Slots |-> 0]
    /\ ilk = [s \in Slots |-> NoThread]
    /\ icacheLock = NoThread
    /\ dtype = [n \in Inums |-> "free"]
    /\ dnlink = [n \in Inums |-> 0]
    /\ dirents = [n \in Inums |-> 0]
    /\ pc = [t \in Threads |-> "idle"]
    /\ tslot = [t \in Threads |-> 1]
    /\ tinum = [t \in Threads |-> CHOOSE n \in Inums : TRUE]
    /\ panicked = "no"

Running == panicked = "no"
IcacheFree == icacheLock = NoThread

-----------------------------------------------------------------------------
(* Mutant: the scan stops at the first slot that is cached or empty.       *)
IGetSlotFirstFit(n) ==
    LET S == {s \in Slots : (ref[s] > 0 /\ inum[s] = n) \/ ref[s] = 0}
    IN IF S = {} THEN 0 ELSE CHOOSE s \in S : \A x \in S : s <= x

(* iget's scan: the slot already caching n, else the first empty slot     *)
(* (ref = 0), else 0.                                                      *)
IGetSlot(n) ==
    LET hit   == {s \in Slots : ref[s] > 0 /\ inum[s] = n}
        empty == {s \in Slots : ref[s] = 0}
    IN IF hit # {} THEN CHOOSE s \in hit : TRUE
       ELSE IF empty = {} THEN 0
       ELSE CHOOSE s \in empty : \A x \in empty : s <= x

(* Mutant: a cache hit returns the slot without ref++.                    *)
IGetEffectHitNoRef(t, n, next) ==
    LET s == IGetSlot(n) IN
    IF s = 0
    THEN /\ panicked' = "iget"
         /\ UNCHANGED <<slots, thread>>
    ELSE /\ IF ref[s] > 0 /\ inum[s] = n
            THEN UNCHANGED <<ref, inum, valid>>
            ELSE /\ ref' = [ref EXCEPT ![s] = 1]
                 /\ inum' = [inum EXCEPT ![s] = n]
                 /\ valid' = [valid EXCEPT ![s] = FALSE]
         /\ tslot' = [tslot EXCEPT ![t] = s]
         /\ tinum' = [tinum EXCEPT ![t] = n]
         /\ pc' = [pc EXCEPT ![t] = next]
         /\ UNCHANGED <<itype, nlink, ilk, panicked>>

(* iget under icache.lock: take a reference to n's slot, recycling an      *)
(* empty slot as not valid if n is not cached; panic if none is empty.     *)
(* The thread continues at next.                                           *)
IGetEffect(t, n, next) ==
    LET s == IGetSlot(n) IN
    IF s = 0
    THEN /\ panicked' = "iget"
         /\ UNCHANGED <<slots, thread>>
    ELSE /\ ref' = [ref EXCEPT ![s] = @ + 1]
         /\ IF ref[s] > 0 /\ inum[s] = n
            THEN UNCHANGED <<inum, valid>>
            ELSE /\ inum' = [inum EXCEPT ![s] = n]
                 /\ valid' = [valid EXCEPT ![s] = FALSE]
         /\ tslot' = [tslot EXCEPT ![t] = s]
         /\ tinum' = [tinum EXCEPT ![t] = n]
         /\ pc' = [pc EXCEPT ![t] = next]
         /\ UNCHANGED <<itype, nlink, ilk, panicked>>

(* ialloc: the first inum whose on-disk type is free is zeroed and given   *)
(* a type, under that inode block's buffer lock; iget follows.             *)
IAlloc(t) ==
    /\ Running /\ pc[t] = "idle"
    /\ \E n \in Inums :
        /\ dtype[n] = "free"
        /\ \A m \in Inums : m < n => dtype[m] # "free"
        /\ dtype' = [dtype EXCEPT ![n] = "file"]
        /\ dnlink' = [dnlink EXCEPT ![n] = 0]
        /\ tinum' = [tinum EXCEPT ![t] = n]
    /\ pc' = [pc EXCEPT ![t] = "iget"]
    /\ UNCHANGED <<slots, icacheLock, dirents, tslot, panicked>>

(* ialloc: no free inode on disk.                                          *)
IAllocPanic(t) ==
    /\ Running /\ pc[t] = "idle"
    /\ \A n \in Inums : dtype[n] # "free"
    /\ panicked' = "ialloc"
    /\ UNCHANGED <<slots, icacheLock, disk, thread>>

(* The iget at the end of ialloc.                                          *)
IGetAllocated(t) ==
    /\ Running /\ pc[t] = "iget" /\ IcacheFree
    /\ IGetEffect(t, tinum[t], "newref")
    /\ UNCHANGED <<icacheLock, disk>>

(* dirlookup finds an entry for n and igets it while the directory is      *)
(* locked, so the entry cannot vanish in between.                          *)
LookupIGet(t, n) ==
    /\ Running /\ pc[t] = "idle" /\ IcacheFree
    /\ dirents[n] > 0
    /\ IGetEffect(t, n, "ref")
    /\ UNCHANGED <<icacheLock, disk>>

(* ilock: acquiresleep, then read the dinode if the slot is not valid;     *)
(* panic if the inode is free on disk.                                     *)
ILock(t) ==
    /\ Running /\ pc[t] \in {"newref", "ref"}
    /\ LET s == tslot[t] IN
        /\ ilk[s] = NoThread
        /\ ilk' = [ilk EXCEPT ![s] = t]
        /\ IF valid[s]
           THEN /\ UNCHANGED <<itype, nlink, valid, panicked>>
           ELSE /\ itype' = [itype EXCEPT ![s] = dtype[inum[s]]]
                /\ nlink' = [nlink EXCEPT ![s] = dnlink[inum[s]]]
                /\ valid' = [valid EXCEPT ![s] = TRUE]
                /\ panicked' = IF dtype[inum[s]] = "free" THEN "ilock" ELSE "no"
    /\ pc' = [pc EXCEPT ![t] = IF pc[t] = "newref" THEN "new" ELSE "locked"]
    /\ UNCHANGED <<inum, ref, icacheLock, disk, tslot, tinum>>

(* create, after ialloc and ilock: nlink = 1, iupdate, and dirlink of the  *)
(* new name in the parent.                                                 *)
CreateLink(t) ==
    /\ Running /\ pc[t] = "new"
    /\ LET s == tslot[t]
           n == inum[s]
       IN /\ nlink' = [nlink EXCEPT ![s] = 1]
          /\ dnlink' = [dnlink EXCEPT ![n] = 1]
          /\ dirents' = [dirents EXCEPT ![n] = @ + 1]
    /\ pc' = [pc EXCEPT ![t] = "done"]
    /\ UNCHANGED <<inum, ref, valid, itype, ilk, icacheLock, dtype, tslot, tinum,
                   panicked>>

(* sys_link: nlink++ and iupdate, and the new directory entry.             *)
Link(t) ==
    /\ Running /\ pc[t] = "locked"
    /\ LET s == tslot[t]
           n == inum[s]
       IN /\ nlink[s] < MaxLink
          /\ nlink' = [nlink EXCEPT ![s] = @ + 1]
          /\ dnlink' = [dnlink EXCEPT ![n] = nlink[s] + 1]
          /\ dirents' = [dirents EXCEPT ![n] = @ + 1]
    /\ pc' = [pc EXCEPT ![t] = "done"]
    /\ UNCHANGED <<inum, ref, valid, itype, ilk, icacheLock, dtype, tslot, tinum,
                   panicked>>

(* sys_unlink: the directory entry is cleared, then nlink-- and iupdate.   *)
Unlink(t) ==
    /\ Running /\ pc[t] = "locked"
    /\ LET s == tslot[t]
           n == inum[s]
       IN /\ dirents[n] > 0
          /\ nlink[s] >= 1
          /\ nlink' = [nlink EXCEPT ![s] = @ - 1]
          /\ dnlink' = [dnlink EXCEPT ![n] = nlink[s] - 1]
          /\ dirents' = [dirents EXCEPT ![n] = @ - 1]
    /\ pc' = [pc EXCEPT ![t] = "done"]
    /\ UNCHANGED <<inum, ref, valid, itype, ilk, icacheLock, dtype, tslot, tinum,
                   panicked>>

(* iunlock (of iunlockput): release the sleep-lock.                        *)
IUnlock(t) ==
    /\ Running /\ pc[t] \in {"locked", "done"}
    /\ ilk' = [ilk EXCEPT ![tslot[t]] = NoThread]
    /\ pc' = [pc EXCEPT ![t] = "unlocked"]
    /\ UNCHANGED <<inum, ref, valid, itype, nlink, icacheLock, disk, tslot, tinum,
                   panicked>>

(* Mutant: the free path does not check that this is the last reference.  *)
LastRefUnlinkedAnyRef(s) == valid[s] /\ nlink[s] = 0

(* iput's test, under icache.lock: last reference to a valid inode with   *)
(* no links.                                                               *)
LastRefUnlinked(s) == ref[s] = 1 /\ valid[s] /\ nlink[s] = 0

(* iput, common case: drop the reference under icache.lock.                *)
IPutDec(t) ==
    /\ Running /\ pc[t] \in {"ref", "unlocked"} /\ IcacheFree
    /\ ~LastRefUnlinked(tslot[t])
    /\ ref' = [ref EXCEPT ![tslot[t]] = @ - 1]
    /\ pc' = [pc EXCEPT ![t] = "idle"]
    /\ UNCHANGED <<inum, valid, itype, nlink, ilk, icacheLock, disk, tslot, tinum,
                   panicked>>

(* iput, free path: keep icache.lock and go for the sleep-lock.            *)
IPutBegin(t) ==
    /\ Running /\ pc[t] \in {"ref", "unlocked"} /\ IcacheFree
    /\ LastRefUnlinked(tslot[t])
    /\ icacheLock' = t
    /\ pc' = [pc EXCEPT ![t] = "iputsleep"]
    /\ UNCHANGED <<slots, disk, tslot, tinum, panicked>>

(* acquiresleep while holding icache.lock ("won't block"), then release    *)
(* icache.lock.                                                            *)
IPutSleep(t) ==
    /\ Running /\ pc[t] = "iputsleep"
    /\ ilk[tslot[t]] = NoThread
    /\ ilk' = [ilk EXCEPT ![tslot[t]] = t]
    /\ icacheLock' = NoThread
    /\ pc' = [pc EXCEPT ![t] = "trunc"]
    /\ UNCHANGED <<inum, ref, valid, itype, nlink, disk, tslot, tinum, panicked>>

(* itrunc, ip->type = 0, iupdate: the inode is free on disk.               *)
IPutTruncFree(t) ==
    /\ Running /\ pc[t] = "trunc"
    /\ LET s == tslot[t] IN
        /\ itype' = [itype EXCEPT ![s] = "free"]
        /\ dtype' = [dtype EXCEPT ![inum[s]] = "free"]
        /\ dnlink' = [dnlink EXCEPT ![inum[s]] = nlink[s]]
    /\ pc' = [pc EXCEPT ![t] = "inval"]
    /\ UNCHANGED <<inum, ref, valid, nlink, ilk, icacheLock, dirents, tslot, tinum,
                   panicked>>

(* Mutant: the slot stays valid after the inode is freed.                  *)
IPutInvalidateKeepValid(t) ==
    /\ Running /\ pc[t] = "inval"
    /\ ilk' = [ilk EXCEPT ![tslot[t]] = NoThread]
    /\ pc' = [pc EXCEPT ![t] = "dec"]
    /\ UNCHANGED <<inum, ref, valid, itype, nlink, icacheLock, disk, tslot, tinum,
                   panicked>>

(* Mutant: the sleep-lock is not released on the free path.               *)
IPutInvalidateKeepLock(t) ==
    /\ Running /\ pc[t] = "inval"
    /\ valid' = [valid EXCEPT ![tslot[t]] = FALSE]
    /\ pc' = [pc EXCEPT ![t] = "dec"]
    /\ UNCHANGED <<inum, ref, itype, nlink, ilk, icacheLock, disk, tslot, tinum,
                   panicked>>

(* ip->valid = 0, releasesleep.                                            *)
IPutInvalidate(t) ==
    /\ Running /\ pc[t] = "inval"
    /\ valid' = [valid EXCEPT ![tslot[t]] = FALSE]
    /\ ilk' = [ilk EXCEPT ![tslot[t]] = NoThread]
    /\ pc' = [pc EXCEPT ![t] = "dec"]
    /\ UNCHANGED <<inum, ref, itype, nlink, icacheLock, disk, tslot, tinum, panicked>>

(* Re-acquire icache.lock and drop the reference.                          *)
IPutFinish(t) ==
    /\ Running /\ pc[t] = "dec" /\ IcacheFree
    /\ ref' = [ref EXCEPT ![tslot[t]] = @ - 1]
    /\ pc' = [pc EXCEPT ![t] = "idle"]
    /\ UNCHANGED <<inum, valid, itype, nlink, ilk, icacheLock, disk, tslot, tinum,
                   panicked>>

(* A panic stops the kernel.                                               *)
Halted == ~Running /\ UNCHANGED vars

(* The steps of a thread that is inside a system call.                     *)
Busy(t) ==
    \/ IGetAllocated(t) \/ ILock(t) \/ CreateLink(t) \/ Link(t) \/ Unlink(t) \/ IUnlock(t)
    \/ IPutDec(t) \/ IPutBegin(t) \/ IPutSleep(t) \/ IPutTruncFree(t)
    \/ IPutInvalidate(t) \/ IPutFinish(t)

Next ==
    \/ \E t \in Threads :
        \/ IAlloc(t) \/ IAllocPanic(t)
        \/ \E n \in Inums : LookupIGet(t, n)
        \/ Busy(t)
    \/ Halted

Spec == Init /\ [][Next]_vars

(* A thread that has started a system call keeps taking steps (no        *)
(* cancellation; a kernel thread sleeping on a lock is woken by its        *)
(* release).  Its steps wait on icache.lock or a sleep-lock, which other   *)
(* threads take and release again, so they are enabled only on and off:   *)
(* strong fairness states that lock arbitration does not starve a thread  *)
(* forever.  Idle threads need not start a call.                          *)
FairSpec ==
    /\ Spec
    /\ \A t \in Threads : SF_vars(Busy(t))

-----------------------------------------------------------------------------
(* No inode is cached in two slots: iget finds the slot already caching   *)
(* n before it recycles an empty one, even while another thread is on     *)
(* iput's free path for n.                                                 *)
UniqueInum ==
    \A s1, s2 \in Slots :
        s1 # s2 /\ ref[s1] > 0 /\ ref[s2] > 0 => inum[s1] # inum[s2]

(* A thread that holds an inode locked sees exactly the on-disk inode: the *)
(* cached type and nlink are the dinode's, even when the slot was last     *)
(* used for an inode iput freed and ialloc handed out again.               *)
LockedMatchesDisk ==
    \A t \in Threads :
        pc[t] \in {"new", "locked", "done"} =>
            LET s == tslot[t] IN
            /\ valid[s]
            /\ itype[s] = dtype[inum[s]]
            /\ nlink[s] = dnlink[inum[s]]

(* iput frees an inode on disk only when no other thread holds a          *)
(* reference to it: every referenced inode is allocated on disk.           *)
RefNeverDangles ==
    \A t \in Threads :
        pc[t] \in {"ref", "new", "locked", "done", "unlocked"} => dtype[tinum[t]] = "file"

(* An allocated inode that no directory entry names is eventually freed   *)
(* on disk (iput of its last reference truncates it), unless it is linked  *)
(* again.                                                                  *)
OrphanFreed ==
    \A n \in Inums :
        (dtype[n] = "file" /\ dirents[n] = 0)
            ~> (dtype[n] = "free" \/ dirents[n] > 0 \/ ~Running)

(* Every system call a thread starts returns: iput's free path holds     *)
(* icache.lock while it waits for the sleep-lock, and ilock waits for the  *)
(* sleep-lock, yet no thread waits forever.                                *)
SyscallsReturn ==
    \A t \in Threads : pc[t] # "idle" ~> (pc[t] = "idle" \/ ~Running)

=============================================================================
