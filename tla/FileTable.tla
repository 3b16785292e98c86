------------------------------ MODULE FileTable ------------------------------
(***************************************************************************)
(* The open-file objects of src/mp2/kernel/file.c, allocated from the      *)
(* "file" kmem_cache of Slab, used by concurrent kernel threads.  Each     *)
(* lock section of filealloc, filedup and fileclose is one step; a thread  *)
(* between two sections of one call is at pc "alloc" or "free" with the   *)
(* object in tobj.  held[t][f] counts the references thread t holds (its   *)
(* file descriptors); filedup hands the new reference to any thread, as   *)
(* fork and descriptor passing do.  What fileclose does to the pipe or     *)
(* inode between its sections is outside this model.                      *)
(*                                                                         *)
(* Every file object is opened on one regular file (FD_INODE), so that     *)
(* fileread and filewrite of several objects and threads meet at one      *)
(* inode: its size, its sleep-lock, and each object's shared f->off.  A   *)
(* file position is a unit of MaxFile (MAXFILE*BSIZE); user copies do not  *)
(* fault.  Pipes and devices are outside this model.                       *)
(***************************************************************************)
EXTENDS Slab

CONSTANTS
    Threads,            \* kernel threads calling into file.c
    MaxHandles,         \* references one thread holds at most
    MaxFile,            \* MAXFILE*BSIZE, in units of a write chunk's size
    MaxChunk,           \* filewrite's max: bytes per begin_op/end_op section
    Lens,               \* byte counts n that fileread and filewrite are asked for
    IOObjs,             \* the file objects fileread and filewrite are called on
    NoThread            \* the holder of a free inode sleep-lock

(* Every step below is taken only while the kernel has not panicked.      *)
VARIABLES
    ref,        \* ref[f]: f->ref
    held,       \* held[t][f]: references to f thread t holds
    pc,         \* "idle", "alloc" (filealloc, line 63) or "free" (fileclose, line 135)
    tobj,       \* the object a thread is between two sections with
    off,        \* off[f]: f->off
    size,       \* ip->size of the file every object is open on
    ilock,      \* the thread holding ip->lock, or NoThread
    tio,        \* tio[t]: filewrite's i and n, and the last readi/writei result r
    acc         \* acc[f][p]: times position p was read or written through f since its open

iovars == <<off, size, ilock, tio, acc>>
vars == <<slabvars, panicked, ref, held, pc, tobj, iovars>>

Pos == 0 .. MaxFile - 1
NoIO == [i |-> 0, n |-> 0, r |-> 0]

(* References t holds, and the one a filealloc of t is returning.          *)
Holding(t) == FoldFunctionOnSet(+, 0, held[t], Objs) + (IF pc[t] = "alloc" THEN 1 ELSE 0)

Init ==
    /\ SlabInit
    /\ panicked = FALSE
    /\ ref = [f \in Objs |-> 0]
    /\ held = [t \in Threads |-> [f \in Objs |-> 0]]
    /\ pc = [t \in Threads |-> "idle"]
    /\ tobj = [t \in Threads |-> NoObj]
    /\ off = [f \in Objs |-> 0]
    /\ size = 0
    /\ ilock = NoThread
    /\ tio = [t \in Threads |-> NoIO]
    /\ acc = [f \in Objs |-> [p \in Pos |-> 0]]

-----------------------------------------------------------------------------
(* filealloc, first section (line 62): kmem_cache_alloc.  On null the     *)
(* second section sets nothing and the call returns 0.                     *)
FileAlloc(t) ==
    /\ ~panicked /\ pc[t] = "idle" /\ Holding(t) < MaxHandles
    /\ \E f \in Objs \cup {NoObj} :
         /\ KmemCacheAlloc(f)
         /\ pc' = [pc EXCEPT ![t] = IF f = NoObj THEN "idle" ELSE "alloc"]
         /\ tobj' = [tobj EXCEPT ![t] = f]
    /\ UNCHANGED <<ref, held, iovars>>

(* filealloc, second section (lines 63-67): f->ref = 1 under the lock.     *)
FileAllocSetRef(t) ==
    /\ ~panicked /\ pc[t] = "alloc"
    /\ ref' = [ref EXCEPT ![tobj[t]] = 1]
    /\ held' = [held EXCEPT ![t][tobj[t]] = @ + 1]
    /\ pc' = [pc EXCEPT ![t] = "open"]
    /\ UNCHANGED <<slabvars, panicked, tobj, iovars>>

(* sys_open, after filealloc returns f and with ip->lock held: f->off = 0, *)
(* and O_TRUNC truncating the file.  Every object is opened O_RDWR: the   *)
(* readable and writable tests of fileread and filewrite only return -1.  *)
SysOpen(t) ==
    /\ ~panicked /\ pc[t] = "open" /\ ilock = NoThread
    /\ LET f == tobj[t] IN
       \E trunc \in BOOLEAN :
         /\ off' = [off EXCEPT ![f] = 0]
         /\ size' = IF trunc THEN 0 ELSE size
         /\ acc' = [acc EXCEPT ![f] = [p \in Pos |-> 0]]
    /\ pc' = [pc EXCEPT ![t] = "idle"]
    /\ tobj' = [tobj EXCEPT ![t] = NoObj]
    /\ UNCHANGED <<slabvars, panicked, ref, held, ilock, tio>>

(* filedup (lines 72-81) by t of a file it holds, the copy going to u.    *)
FileDup(t, f, u) ==
    /\ ~panicked /\ pc[t] = "idle" /\ held[t][f] > 0 /\ Holding(u) < MaxHandles
    /\ IF ref[f] < 1
       THEN panicked' = TRUE /\ UNCHANGED <<ref, held>>
       ELSE /\ ref' = [ref EXCEPT ![f] = @ + 1]
            /\ held' = [held EXCEPT ![u][f] = @ + 1]
            /\ UNCHANGED panicked
    /\ UNCHANGED <<slabvars, pc, tobj, iovars>>

(* Mutant: fileclose that frees while one reference is left.             *)
FileCloseOffByOne(t, f) ==
    /\ ~panicked /\ pc[t] = "idle" /\ held[t][f] > 0
    /\ held' = [held EXCEPT ![t][f] = @ - 1]
    /\ IF ref[f] < 1
       THEN panicked' = TRUE /\ UNCHANGED <<ref, pc, tobj>>
       ELSE /\ ref' = [ref EXCEPT ![f] = @ - 1]
            /\ IF ref[f] - 1 > 1
               THEN UNCHANGED <<pc, tobj>>
               ELSE /\ pc' = [pc EXCEPT ![t] = "free"]
                    /\ tobj' = [tobj EXCEPT ![t] = f]
            /\ UNCHANGED panicked
    /\ UNCHANGED <<slabvars, iovars>>

(* fileclose, first section (lines 113-125) by t of a file it holds: the   *)
(* count drops; the last reference sets ref 0 and type FD_NONE and goes   *)
(* on to free the object.                                                  *)
FileClose(t, f) ==
    /\ ~panicked /\ pc[t] = "idle" /\ held[t][f] > 0
    /\ held' = [held EXCEPT ![t][f] = @ - 1]
    /\ IF ref[f] < 1
       THEN panicked' = TRUE /\ UNCHANGED <<ref, pc, tobj>>
       ELSE /\ ref' = [ref EXCEPT ![f] = @ - 1]
            /\ IF ref[f] - 1 > 0
               THEN UNCHANGED <<pc, tobj>>
               ELSE /\ pc' = [pc EXCEPT ![t] = "free"]
                    /\ tobj' = [tobj EXCEPT ![t] = f]
            /\ UNCHANGED panicked
    /\ UNCHANGED <<slabvars, iovars>>

(* fileclose, last section (line 135): kmem_cache_free.  What the object   *)
(* held is dead until sys_open sets it again, so it is cleared here.       *)
FileCloseFree(t) ==
    /\ ~panicked /\ pc[t] = "free"
    /\ KmemCacheFree(tobj[t])
    /\ pc' = [pc EXCEPT ![t] = "idle"]
    /\ tobj' = [tobj EXCEPT ![t] = NoObj]
    /\ off' = [off EXCEPT ![tobj[t]] = 0]
    /\ acc' = [acc EXCEPT ![tobj[t]] = [p \in Pos |-> 0]]
    /\ UNCHANGED <<ref, held, size, ilock, tio>>

-----------------------------------------------------------------------------
(* Positions lo .. lo+r-1 transferred through f once more.                *)
Transfer(f, lo, r) == [acc EXCEPT ![f] = [p \in Pos |-> IF lo <= p /\ p < lo + r THEN @[p] + 1 ELSE @[p]]]

(* fileread of an FD_INODE file, up to readi (lines 160-175): with ip->lock *)
(* taken, readi copies from f->off up to the end of the file; it returns  *)
(* 0 at or past the end.                                                   *)
FileRead(t, f, n) ==
    /\ ~panicked /\ pc[t] = "idle" /\ held[t][f] > 0
    /\ ilock = NoThread
    /\ LET r == IF off[f] > size THEN 0 ELSE Min({n, size - off[f]}) IN
       /\ acc' = Transfer(f, off[f], r)
       /\ tio' = [tio EXCEPT ![t] = [NoIO EXCEPT !.r = r]]
    /\ ilock' = t
    /\ pc' = [pc EXCEPT ![t] = "rdone"]
    /\ tobj' = [tobj EXCEPT ![t] = f]
    /\ UNCHANGED <<slabvars, panicked, ref, held, off, size>>

(* fileread, after readi (lines 175-182): f->off += r when r > 0, then    *)
(* iunlock and return r.                                                   *)
FileReadDone(t) ==
    /\ ~panicked /\ pc[t] = "rdone"
    /\ off' = [off EXCEPT ![tobj[t]] = @ + (IF tio[t].r > 0 THEN tio[t].r ELSE 0)]
    /\ ilock' = NoThread
    /\ pc' = [pc EXCEPT ![t] = "idle"]
    /\ tobj' = [tobj EXCEPT ![t] = NoObj]
    /\ tio' = [tio EXCEPT ![t] = NoIO]
    /\ UNCHANGED <<slabvars, panicked, ref, held, size, acc>>

(* filewrite of an FD_INODE file (lines 188-210): the chunk loop starts    *)
(* with i = 0.                                                             *)
FileWrite(t, f, n) ==
    /\ ~panicked /\ pc[t] = "idle" /\ held[t][f] > 0
    /\ pc' = [pc EXCEPT ![t] = "write"]
    /\ tobj' = [tobj EXCEPT ![t] = f]
    /\ tio' = [tio EXCEPT ![t] = [i |-> 0, n |-> n, r |-> 0]]
    /\ UNCHANGED <<slabvars, panicked, ref, held, off, size, ilock, acc>>

(* n1 of the loop: what is left, at most max.                             *)
Chunk(t) == Min({tio[t].n - tio[t].i, MaxChunk})

(* One chunk of filewrite, up to writei (lines 211-217): with ip->lock     *)
(* taken, writei at f->off fails with -1 past the end of the file or past *)
(* MAXFILE, and otherwise copies n1 bytes and grows the file to cover them.*)
FileWriteChunk(t) ==
    /\ ~panicked /\ pc[t] = "write" /\ ilock = NoThread
    /\ LET f == tobj[t]
           n1 == Chunk(t)
           r == IF off[f] > size \/ off[f] + n1 > MaxFile THEN -1 ELSE n1
       IN /\ acc' = Transfer(f, off[f], r)
          /\ size' = IF r > 0 /\ off[f] + r > size THEN off[f] + r ELSE size
          /\ tio' = [tio EXCEPT ![t].r = r]
    /\ ilock' = t
    /\ pc' = [pc EXCEPT ![t] = "wdone"]
    /\ UNCHANGED <<slabvars, panicked, ref, held, tobj, off>>

(* Mutant: f->off += r without the test r > 0, so a failed writei moves    *)
(* the offset back.                                                        *)
FileWriteAdvanceUnchecked(t) ==
    /\ ~panicked /\ pc[t] = "wdone"
    /\ LET r == tio[t].r
           done == r # Chunk(t) \/ tio[t].i + r = tio[t].n
       IN /\ off' = [off EXCEPT ![tobj[t]] = @ + r]
          /\ pc' = [pc EXCEPT ![t] = IF done THEN "idle" ELSE "write"]
          /\ tobj' = IF done THEN [tobj EXCEPT ![t] = NoObj] ELSE tobj
          /\ tio' = IF done THEN [tio EXCEPT ![t] = NoIO] ELSE [tio EXCEPT ![t].i = @ + r]
    /\ ilock' = NoThread
    /\ UNCHANGED <<slabvars, panicked, ref, held, size, acc>>

(* The rest of the chunk (lines 217-233): f->off += r when r > 0, iunlock, *)
(* and the loop breaks on r != n1 (filewrite returns -1 with the earlier  *)
(* chunks written), returns n once i reaches n, or goes on with i += r.   *)
FileWriteAdvance(t) ==
    /\ ~panicked /\ pc[t] = "wdone"
    /\ LET r == tio[t].r
           done == r # Chunk(t) \/ tio[t].i + r = tio[t].n
       IN /\ off' = [off EXCEPT ![tobj[t]] = @ + (IF r > 0 THEN r ELSE 0)]
          /\ pc' = [pc EXCEPT ![t] = IF done THEN "idle" ELSE "write"]
          /\ tobj' = IF done THEN [tobj EXCEPT ![t] = NoObj] ELSE tobj
          /\ tio' = IF done THEN [tio EXCEPT ![t] = NoIO] ELSE [tio EXCEPT ![t].i = @ + r]
    /\ ilock' = NoThread
    /\ UNCHANGED <<slabvars, panicked, ref, held, size, acc>>

Next ==
    \E t \in Threads :
        \/ FileAlloc(t)
        \/ FileAllocSetRef(t)
        \/ SysOpen(t)
        \/ FileReadDone(t)
        \/ FileWriteChunk(t)
        \/ FileWriteAdvance(t)
        \/ \E f \in IOObjs, n \in Lens : \/ FileRead(t, f, n)
                                         \/ FileWrite(t, f, n)
        \/ FileCloseFree(t)
        \/ \E f \in Objs : \/ FileClose(t, f)
                           \/ \E u \in Threads : FileDup(t, f, u)

Spec == Init /\ [][Next]_vars

-----------------------------------------------------------------------------
(* The objects reached from a freelist head by following next pointers,   *)
(* cut off past the number of objects (a cycle shows as a repetition).     *)
RECURSIVE Walk(_, _)
Walk(h, k) == IF h = NoObj \/ k = 0 THEN <<>> ELSE <<h>> \o Walk(nxt[h], k - 1)

FreeListOf(p) == Walk(IF p = CachePage THEN cfree ELSE sfree[p], Cardinality(Objs) + 1)

LivePages == slabs \cup {CachePage}

(* An object some thread references, or is in the middle of allocating or *)
(* freeing.                                                                *)
Allocated(f) == \E t \in Threads : held[t][f] > 0 \/ tobj[t] = f

RefsHeld(f) == FoldFunctionOnSet(+, 0, [t \in Threads |-> held[t][f]], Threads)

TypeOK ==
    /\ cfree \in ObjsOf(CachePage) \cup {NoObj}
    /\ nxt \in [Objs -> Objs \cup {NoObj}]
    /\ sfree \in [Pages -> Objs \cup {NoObj}]
    /\ inuse \in [Pages -> 0 .. SlabObjs]
    /\ slabs \subseteq Pages
    /\ \A L \in {partial, full, freel} : L \in Seq(Pages)
    /\ ref \in [Objs -> Nat]
    /\ held \in [Threads -> [Objs -> 0 .. MaxHandles]]
    /\ pc \in [Threads -> {"idle", "alloc", "open", "free", "rdone", "write", "wdone"}]
    /\ tobj \in [Threads -> Objs \cup {NoObj}]
    /\ off \in [Objs -> 0 .. MaxFile]
    /\ size \in 0 .. MaxFile
    /\ ilock \in Threads \cup {NoThread}
    /\ tio \in [Threads -> [i : 0 .. MaxFile, n : 0 .. MaxFile, r : -1 .. MaxFile]]
    /\ acc \in [Objs -> [Pos -> Nat]]
    /\ panicked = FALSE

(* The partial, full and free lists of kmem_cache_alloc and kmem_cache_free *)
(* partition the live slabs by in_use: full exactly when in_use reaches    *)
(* max_objs, free exactly when it is 0, and no more than MIN_AVAIL_SLAB    *)
(* empty slabs are kept rather than returned to kalloc.                    *)
SlabListsExact ==
    /\ \A L \in {partial, full, freel} : IsInjective(L)
    /\ ToSet(partial) \cup ToSet(full) \cup ToSet(freel) = slabs
    /\ Len(partial) + Len(full) + Len(freel) = Cardinality(slabs)
    /\ \A s \in slabs : /\ s \in ToSet(full) <=> inuse[s] = SlabObjs
                        /\ s \in ToSet(freel) <=> inuse[s] = 0
    /\ Len(freel) <= MIN_AVAIL_SLAB

(* Every object of the cache page and of each live slab is either on its   *)
(* page's freelist, once and on a chain that ends in null, or referenced   *)
(* by the threads of filealloc/filedup/fileclose, never both; in_use      *)
(* counts the referenced ones, f->ref counts the references, and no       *)
(* referenced object lies in a page that was kfree'd.  A double free or   *)
(* an object handed out twice breaks it.                                   *)
ObjectsAccounted ==
    /\ \A p \in LivePages :
         LET L == FreeListOf(p) IN
         /\ IsInjective(L) /\ Len(L) <= Cardinality(ObjsOf(p))
         /\ ToSet(L) = {f \in ObjsOf(p) : ~Allocated(f)}
    /\ \A s \in slabs : inuse[s] = Cardinality({f \in ObjsOf(s) : Allocated(f)})
    /\ \A f \in Objs : /\ Allocated(f) => f[1] \in LivePages
                       /\ ref[f] = RefsHeld(f)

(* The offset a file object shares between the threads that hold it      *)
(* (filedup, fork) is exact: since f's open, every position below f->off  *)
(* has been read or written through f exactly once and none above it,     *)
(* counting the chunk whose readi or writei has run but whose f->off += r  *)
(* has not.  It fails if two threads' chunks both start at one offset      *)
(* (ip->lock not held across writei and the update, which sleep), or if a *)
(* failed writei moves the offset.                                         *)
Opened(f) == RefsHeld(f) > 0 /\ ~\E t \in Threads : pc[t] = "open" /\ tobj[t] = f

Pending(f) ==
    LET T == {t \in Threads : pc[t] \in {"rdone", "wdone"} /\ tobj[t] = f /\ tio[t].r > 0}
    IN FoldFunctionOnSet(+, 0, [t \in Threads |-> tio[t].r], T)

SharedOffsetExact ==
    \A f \in Objs : Opened(f) =>
        \A p \in Pos : acc[f][p] = IF p < off[f] + Pending(f) THEN 1 ELSE 0

=============================================================================
