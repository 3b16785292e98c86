---------------------------- MODULE InodeContent ----------------------------
(***************************************************************************)
(* Block allocation and inode content of src/mp4/kernel/fs.c: balloc,      *)
(* bfree, bmap (direct and singly-indirect blocks), itrunc, readi and     *)
(* writei.  Every operation runs with the inode's sleep-lock held and     *)
(* reaches the bitmap through bread's buffer lock, so each call is one    *)
(* atomic step.                                                            *)
(*                                                                         *)
(* A block's content is a function from byte offsets to small integers;   *)
(* the same bytes are read as data by readi and as block numbers (uint    *)
(* entries) by bmap and itrunc when the block is an indirect block.       *)
(* Each indirect block holds NINDIRECT entries (BSIZE / sizeof(uint) in   *)
(* the code).                                                              *)
(***************************************************************************)
EXTENDS Naturals, FiniteSets

CONSTANTS
    Inos,       \* inodes whose content is modelled
    NBLK,       \* sb.size: blocks 0 .. NBLK-1
    META,       \* blocks marked in use by mkfs (boot, super, log, inodes, bitmap)
    BSIZE,      \* bytes per block
    NDIRECT,    \* direct addresses per inode
    NINDIRECT,  \* entries per indirect block
    Vals        \* byte values user writes store

ASSUME /\ NINDIRECT <= BSIZE /\ Vals \subseteq 1 .. NBLK - 1
       /\ META \subseteq 0 .. NBLK - 1 /\ 0 \in META

Blocks  == 0 .. NBLK - 1
DiskBlocks == 0 .. NBLK          \* the device goes on past sb.size (the mirror half)
Bytes   == 0 .. BSIZE - 1
MAXFILE == NDIRECT + NINDIRECT
MaxSize == MAXFILE * BSIZE
AddrIdx == 0 .. NDIRECT          \* addrs[NDIRECT] is the indirect block

VARIABLES
    addrs,     \* addrs[i][k]: ip->addrs[k], 0 if none
    size,      \* ip->size
    bitmap,    \* blocks whose bitmap bit is set
    cont,      \* cont[b][j]: byte j of block b on disk
    file,      \* ghost: file[i][o] is the byte last written at offset o
    panicked

vars == <<addrs, size, bitmap, cont, file, panicked>>

TypeOK ==
    /\ addrs \in [Inos -> [AddrIdx -> Blocks]]
    /\ size \in [Inos -> 0 .. MaxSize]
    /\ bitmap \subseteq Blocks
    /\ cont \in [DiskBlocks -> [Bytes -> DiskBlocks]]
    /\ file \in [Inos -> [0 .. MaxSize - 1 -> 0 .. NBLK - 1]]
    /\ panicked \in BOOLEAN

ZeroBlock == [j \in Bytes |-> 0]

Init ==
    /\ addrs = [i \in Inos |-> [k \in AddrIdx |-> 0]]
    /\ size = [i \in Inos |-> 0]
    /\ bitmap = META
    /\ cont = [b \in DiskBlocks |-> ZeroBlock]
    /\ file = [i \in Inos |-> [o \in 0 .. MaxSize - 1 |-> 0]]
    /\ panicked = FALSE

-----------------------------------------------------------------------------
(* The disk as the operations see it; st.panic is set when one panics.    *)
Disk(i) == [ad |-> addrs[i], bm |-> bitmap, ct |-> cont, panic |-> FALSE]

(* Mutant: balloc whose scan runs one block past sb.size.                 *)
BallocPastEnd(st) ==
    LET Scan == 0 .. NBLK IN
    IF \A b \in Scan : b \in st.bm THEN [st |-> [st EXCEPT !.panic = TRUE], b |-> 0]
    ELSE LET b == CHOOSE b \in Scan \ st.bm : \A c \in Scan \ st.bm : b <= c
         IN [st |-> [st EXCEPT !.bm = @ \cup {b}, !.ct[b] = ZeroBlock], b |-> b]

(* balloc: the first block whose bitmap bit is clear, marked and zeroed   *)
(* (bzero); no free block panics.                                          *)
Balloc(st) ==
    IF \A b \in Blocks : b \in st.bm THEN [st |-> [st EXCEPT !.panic = TRUE], b |-> 0]
    ELSE LET b == CHOOSE b \in Blocks \ st.bm : \A c \in Blocks \ st.bm : b <= c
         IN [st |-> [st EXCEPT !.bm = @ \cup {b}, !.ct[b] = ZeroBlock], b |-> b]

(* bfree: clears the bit; a clear bit panics ("freeing free block").      *)
Bfree(st, b) ==
    IF b \notin st.bm THEN [st EXCEPT !.panic = TRUE]
    ELSE [st EXCEPT !.bm = @ \ {b}]

(* bmap(ip, bn): the block holding file block bn, allocating it (and the  *)
(* indirect block) when absent; bn past MAXFILE panics.                   *)
Bmap(st, bn) ==
    IF bn < NDIRECT THEN
        IF st.ad[bn] # 0 THEN [st |-> st, b |-> st.ad[bn]]
        ELSE LET r == Balloc(st)
             IN [st |-> [r.st EXCEPT !.ad[bn] = r.b], b |-> r.b]
    ELSE IF bn - NDIRECT >= NINDIRECT THEN [st |-> [st EXCEPT !.panic = TRUE], b |-> 0]
    ELSE LET k  == bn - NDIRECT
             r1 == IF st.ad[NDIRECT] # 0 THEN [st |-> st, b |-> st.ad[NDIRECT]]
                   ELSE LET r == Balloc(st)
                        IN [st |-> [r.st EXCEPT !.ad[NDIRECT] = r.b], b |-> r.b]
             s1 == r1.st
         IN IF s1.panic THEN [st |-> s1, b |-> 0]
            ELSE IF s1.ct[r1.b][k] # 0 THEN [st |-> s1, b |-> s1.ct[r1.b][k]]
            ELSE LET r2 == Balloc(s1)
                 IN [st |-> [r2.st EXCEPT !.ct[r1.b][k] = r2.b], b |-> r2.b]

Min2(a, b) == IF a < b THEN a ELSE b

(* writei's loop from offset off with tot of n bytes done; the copy from  *)
(* user space fails at chunk fail (never when fail is beyond the last).   *)
(* bmap runs before the copy, so a failed chunk keeps its block.  Returns *)
(* the disk state, the offset reached and the ghost content.              *)
RECURSIVE WriteLoop(_, _, _, _, _, _, _, _)
WriteLoop(st, f, off, tot, n, v, fail, c) ==
    IF tot >= n \/ st.panic THEN [st |-> st, off |-> off, f |-> f]
    ELSE LET r == Bmap(st, off \div BSIZE)
             m == Min2(n - tot, BSIZE - (off % BSIZE))
             j0 == off % BSIZE
         IN IF r.st.panic \/ c = fail THEN [st |-> r.st, off |-> off, f |-> f]
            ELSE WriteLoop([r.st EXCEPT !.ct[r.b] =
                              [j \in Bytes |-> IF j0 <= j /\ j < j0 + m THEN v ELSE @[j]]],
                           [o \in DOMAIN f |-> IF off <= o /\ o < off + m THEN v ELSE f[o]],
                           off + m, tot + m, n, v, fail, c + 1)

(* Apply the disk state an operation on inode i ends in.                   *)
Store(i, st) ==
    /\ addrs' = [addrs EXCEPT ![i] = st.ad]
    /\ bitmap' = st.bm
    /\ cont' = st.ct
    /\ panicked' = st.panic

(* Mutant: writei that sets the size to off + n even when the copy broke *)
(* off early.                                                              *)
WriteISizeN(i, off, n, v, fail) ==
    /\ ~panicked
    /\ off <= size[i] /\ off + n <= MaxSize
    /\ \E r \in {WriteLoop(Disk(i), file[i], off, 0, n, v, fail, 0)} :
        /\ Store(i, r.st)
        /\ size' = [size EXCEPT ![i] = IF r.st.panic \/ off + n <= @ THEN @ ELSE off + n]
        /\ file' = [file EXCEPT ![i] = r.f]

(* Mutant: writei that sets the size to the offset reached even when that *)
(* is below the old size.                                                  *)
WriteIShrink(i, off, n, v, fail) ==
    /\ ~panicked
    /\ off <= size[i] /\ off + n <= MaxSize
    /\ \E r \in {WriteLoop(Disk(i), file[i], off, 0, n, v, fail, 0)} :
        /\ Store(i, r.st)
        /\ size' = [size EXCEPT ![i] = r.off]
        /\ file' = [file EXCEPT ![i] = r.f]

(* writei(ip, src, off, n) with v in every byte: rejected past size or    *)
(* past MAXFILE blocks; otherwise the size grows to the offset reached.   *)
WriteI(i, off, n, v, fail) ==
    /\ ~panicked
    /\ off <= size[i] /\ off + n <= MaxSize
    /\ \E r \in {WriteLoop(Disk(i), file[i], off, 0, n, v, fail, 0)} :
        /\ Store(i, r.st)
        /\ size' = [size EXCEPT ![i] = IF r.off > @ THEN r.off ELSE @]
        /\ file' = [file EXCEPT ![i] = r.f]

(* readi's loop: bmap of each block it reads.                              *)
RECURSIVE ReadLoop(_, _, _)
ReadLoop(st, off, left) ==
    IF left = 0 \/ st.panic THEN st
    ELSE LET m == Min2(left, BSIZE - (off % BSIZE))
         IN ReadLoop(Bmap(st, off \div BSIZE).st, off + m, left - m)

(* readi(ip, dst, off, n): clipped at size; reading changes the disk only *)
(* through bmap.                                                           *)
ReadI(i, off, n) ==
    /\ ~panicked
    /\ off <= size[i]
    /\ \E st \in {ReadLoop(Disk(i), off, Min2(n, size[i] - off))} :
        /\ Store(i, st)
        /\ UNCHANGED <<size, file>>

(* Mutant: itrunc that frees the indirect block's entries but not the     *)
(* indirect block itself.                                                  *)
FreeIndirectKeep(st) ==
    LET ib == st.ad[NDIRECT]
        RECURSIVE Ent(_, _)
        Ent(s, j) == IF j = NINDIRECT THEN s
                     ELSE Ent(IF s.ct[ib][j] # 0 THEN Bfree(s, s.ct[ib][j]) ELSE s, j + 1)
    IN IF ib = 0 THEN st ELSE [Ent(st, 0) EXCEPT !.ad[NDIRECT] = 0]

(* itrunc's indirect part: bfree of every non-zero entry, then of the     *)
(* indirect block.                                                         *)
FreeIndirect(st) ==
    LET ib == st.ad[NDIRECT]
        RECURSIVE Ent(_, _)
        Ent(s, j) == IF j = NINDIRECT THEN s
                     ELSE Ent(IF s.ct[ib][j] # 0 THEN Bfree(s, s.ct[ib][j]) ELSE s, j + 1)
    IN IF ib = 0 THEN st ELSE [Bfree(Ent(st, 0), ib) EXCEPT !.ad[NDIRECT] = 0]

(* itrunc's direct part.                                                   *)
RECURSIVE FreeDirect(_, _)
FreeDirect(st, k) ==
    IF k = NDIRECT THEN st
    ELSE FreeDirect(IF st.ad[k] # 0 THEN [Bfree(st, st.ad[k]) EXCEPT !.ad[k] = 0] ELSE st,
                    k + 1)

(* itrunc(ip): frees every block and sets the size to 0.                   *)
ITrunc(i) ==
    /\ ~panicked
    /\ \E st \in {FreeIndirect(FreeDirect(Disk(i), 0))} :
        /\ Store(i, st)
        /\ size' = [size EXCEPT ![i] = 0]
        /\ file' = [file EXCEPT ![i] = [o \in DOMAIN @ |-> 0]]

(* After a panic the kernel stops.                                         *)
Halted == panicked /\ UNCHANGED vars

(* A write of at most BSIZE+1 bytes spans at most two chunks; fail = 2 is  *)
(* a copy that never fails.                                                *)
Next ==
    \/ \E i \in Inos, off \in 0 .. MaxSize, n \in 1 .. BSIZE + 1, v \in Vals,
          fail \in 0 .. 2 :
          WriteI(i, off, n, v, fail)
    \/ \E i \in Inos, off \in 0 .. MaxSize, n \in 1 .. BSIZE + 1 : ReadI(i, off, n)
    \/ \E i \in Inos : ITrunc(i)
    \/ Halted

Spec == Init /\ [][Next]_vars

-----------------------------------------------------------------------------
(* The blocks inode i owns: its direct blocks, its indirect block and the *)
(* blocks the indirect block lists.                                        *)
Indirect(i) == addrs[i][NDIRECT]
Owned(i) ==
    ({addrs[i][k] : k \in AddrIdx} \cup
     (IF Indirect(i) = 0 THEN {} ELSE {cont[Indirect(i)][j] : j \in 0 .. NINDIRECT - 1}))
    \ {0}

(* The number of references to block b from all inodes' addresses and    *)
(* indirect entries.                                                       *)
Refs(b) ==
    Cardinality({<<i, k>> \in Inos \X AddrIdx : addrs[i][k] = b}) +
    Cardinality({<<i, j>> \in Inos \X (0 .. NINDIRECT - 1) :
                    Indirect(i) # 0 /\ cont[Indirect(i)][j] = b})

(* Allocation is exact across any sequence of writes, reads and           *)
(* truncations by several inodes: a block's bitmap bit is set exactly     *)
(* when mkfs reserved it or one inode references it, and no block is      *)
(* referenced twice (balloc's first-fit scan with bzero, bmap's lazy      *)
(* indirect allocation, itrunc's two-level bfree).                         *)
BitmapExact ==
    ~panicked =>
        /\ \A b \in Blocks \ META : (b \in bitmap) <=> Refs(b) = 1
        /\ \A b \in Blocks \ {0} : Refs(b) <= 1
        /\ \A i \in Inos : Owned(i) \cap META = {}

(* The file block holding offset o of inode i, 0 if unmapped.              *)
BlockOf(i, o) ==
    LET bn == o \div BSIZE IN
    IF bn < NDIRECT THEN addrs[i][bn]
    ELSE IF Indirect(i) = 0 THEN 0 ELSE cont[Indirect(i)][bn - NDIRECT]

(* Every byte below the size is mapped and holds what writei last stored  *)
(* there, whatever other inodes allocated and freed meanwhile: readi      *)
(* returns the file's content and never has to allocate.                  *)
ReadYourWrites ==
    ~panicked =>
        \A i \in Inos, o \in 0 .. MaxSize - 1 :
            o < size[i] => BlockOf(i, o) # 0 /\ cont[BlockOf(i, o)][o % BSIZE] = file[i][o]

(* The bytes of inode i as readi returns them: byte o of the file is byte  *)
(* o % BSIZE of the block bmap maps o \div BSIZE to.                       *)
Content(i) == [o \in 1 .. size[i] |-> cont[BlockOf(i, o - 1)][(o - 1) % BSIZE]]

FS == INSTANCE FileStore WITH data <- [i \in Inos |-> Content(i)], down <- panicked

(* writei, readi and itrunc over blocks implement the byte-sequence files  *)
(* of the spec: every step of any inode changes the bytes readi would     *)
(* return of that inode alone, and only as a write of a prefix of its     *)
(* bytes at its offset, a truncation, or not at all.                       *)
ImplementsFileStore == FS!Spec

=============================================================================
