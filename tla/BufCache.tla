------------------------------ MODULE BufCache ------------------------------
(***************************************************************************)
(* The mirrored buffer cache of src/mp4/kernel/bio.c.                      *)
(*                                                                         *)
(* NBUF buffers, each with the fields of struct buf that the code reads    *)
(* and writes (blockno, valid, refcnt, the sleep-lock holder and the       *)
(* content), the recency list of bcache.head as a sequence (Head is the   *)
(* most recently released buffer), and the two disk mirrors: disk0[b] is   *)
(* PBN b, disk1[b] is PBN b + DISK1_START_BLOCK.  Block content is a       *)
(* version number.                                                         *)
(*                                                                         *)
(* Kernel threads call bread (two steps: bget under bcache.lock, then the  *)
(* sleep-lock and the disk read), change the content through log_write,   *)
(* and brelse (two steps: releasesleep, then the refcount under            *)
(* bcache.lock).  The write-ahead log is a collaborator outside the        *)
(* repository: log_write pins a block the first time it joins the log and *)
(* a commit later writes it with bwrite and bunpins it.  The fault flags   *)
(* force_read_error_pbn and force_disk_fail_id are set by system calls     *)
(* whose code is not in the repository either.                             *)
(*                                                                         *)
(* A read of PBN1 (bread's forced fallback, and bwrite's second attempt)   *)
(* sets b->blockno to the mirror's number while virtio_disk_rw sleeps,     *)
(* holding only the buffer's sleep-lock, and restores it afterwards; each *)
(* is two steps here, and Mirror(b) is blockno in between.                 *)
(***************************************************************************)
EXTENDS Naturals, Sequences, FiniteSets, SequencesExt

CONSTANTS
    Threads,     \* kernel threads calling into the cache
    Blocks,      \* logical block numbers (PBN0)
    NBUF,        \* size of the buffer pool
    LOGSIZE,     \* most blocks the log holds pinned at once
    Versions,    \* block contents
    Faults,      \* fault configurations the control plane may set
    NoThread,    \* sleep-lock not held
    Committer,   \* the log's commit, holding a sleep-lock while it bwrites
    NoBlock,     \* blockno of a never-used buffer; also "no failed PBN"
    UINT         \* refcnt is a uint of struct buf and a decrement of 0 wraps
                 \* modulo 2^32; any modulus above the pool's reachable
                 \* counts behaves alike

ASSUME /\ NBUF \in Nat \ {0}
       /\ LOGSIZE \in Nat
       /\ 0 \in Versions
       /\ NoThread \notin Threads
       /\ Committer \notin Threads \cup {NoThread}
       /\ NoBlock \notin Blocks
       /\ UINT \in Nat /\ UINT > 2 * Cardinality(Threads) + LOGSIZE
       /\ Faults \subseteq [disk : {-1, 0, 1}, pbn : Blocks \cup {NoBlock}]

Bufs == 1..NBUF


VARIABLES
    blockno,     \* blockno[i]: the block buffer i caches
    valid,       \* valid[i]: content has been read from disk
    refcnt,      \* refcnt[i]
    holder,      \* holder[i]: thread holding the sleep-lock of buffer i
    data,        \* data[i]: content of buffer i
    lru,         \* bcache.head list, most recently used first
    disk0,       \* primary mirror
    disk1,       \* secondary mirror
    inLog,       \* blocks written by log_write and not yet committed
    cbuf,        \* the buffer a commit is writing to PBN1, 0 if none
    cblk,        \* bwrite's pbn0: the block that commit is writing
    committing,  \* log.committing: a commit has started and not ended
    failDisk,    \* force_disk_fail_id
    failPbn,     \* force_read_error_pbn
    pc,          \* pc[t]: where thread t is
    tbuf,        \* tbuf[t]: the buffer bget gave thread t
    tblk,        \* tblk[t]: the block thread t asked bread for
    tforced,     \* tforced[t]: bread's is_forced_fail_target, computed before bget
    ttx,         \* ttx[t]: thread t reads inside a log transaction (begin_op)
    panicked,    \* panic("bget: no buffers")
    latest,      \* ghost: the last content written to each block
    written      \* ghost: the content the last commit of each block wrote

cache  == <<blockno, valid, refcnt, holder, data, lru>>
disks  == <<disk0, disk1, inLog, cbuf, cblk, committing, failDisk, failPbn>>
thread == <<pc, tbuf, tblk, tforced, ttx>>
ghosts == <<latest, written>>
vars   == <<cache, disks, thread, panicked, ghosts>>

NoFault == [disk |-> -1, pbn |-> NoBlock]

(* blockno + DISK1_START_BLOCK, which is past every logical block.         *)
Mirror(b) == <<"pbn1", b>>

TypeOK ==
    /\ blockno \in [Bufs -> Blocks \cup {NoBlock} \cup {Mirror(b) : b \in Blocks}]
    /\ valid \in [Bufs -> BOOLEAN]
    /\ refcnt \in [Bufs -> 0 .. UINT - 1]
    /\ holder \in [Bufs -> Threads \cup {NoThread, Committer}]
    /\ data \in [Bufs -> Versions]
    /\ lru \in Seq(Bufs) /\ Len(lru) = NBUF /\ ToSet(lru) = Bufs
    /\ disk0 \in [Blocks -> Versions] /\ disk1 \in [Blocks -> Versions]
    /\ inLog \subseteq Blocks
    /\ cbuf \in Bufs \cup {0}
    /\ cblk \in Blocks \cup {NoBlock}
    /\ committing \in BOOLEAN
    /\ [disk |-> failDisk, pbn |-> failPbn] \in Faults \cup {NoFault}
    /\ pc \in [Threads -> {"idle", "sleep", "fread", "held", "unref"}]
    /\ tbuf \in [Threads -> Bufs]
    /\ tblk \in [Threads -> Blocks]
    /\ tforced \in [Threads -> BOOLEAN]
    /\ ttx \in [Threads -> BOOLEAN]
    /\ panicked \in BOOLEAN
    /\ latest \in [Blocks -> Versions]
    /\ written \in [Blocks -> Versions]

(* binit: every buffer pushed at the head in turn, so buffer NBUF is the   *)
(* most recent.  The pool is static storage: blockno 0 is never a data   *)
(* block, which NoBlock stands for.                                        *)
Init ==
    /\ blockno = [i \in Bufs |-> NoBlock]
    /\ valid = [i \in Bufs |-> FALSE]
    /\ refcnt = [i \in Bufs |-> 0]
    /\ holder = [i \in Bufs |-> NoThread]
    /\ data = [i \in Bufs |-> 0]
    /\ lru = [k \in Bufs |-> NBUF + 1 - k]
    /\ disk0 = [b \in Blocks |-> 0]
    /\ disk1 = [b \in Blocks |-> 0]
    /\ inLog = {}
    /\ cbuf = 0
    /\ cblk = NoBlock
    /\ committing = FALSE
    /\ failDisk = -1
    /\ failPbn = NoBlock
    /\ pc = [t \in Threads |-> "idle"]
    /\ tbuf = [t \in Threads |-> 1]
    /\ tblk = [t \in Threads |-> CHOOSE b \in Blocks : TRUE]
    /\ tforced = [t \in Threads |-> FALSE]
    /\ ttx = [t \in Threads |-> FALSE]
    /\ panicked = FALSE
    /\ latest = [b \in Blocks |-> 0]
    /\ written = [b \in Blocks |-> 0]

-----------------------------------------------------------------------------
(* bread lines 124-131: the fault flags are sampled before bget.          *)
ForcedFail(b) == failDisk = 0 \/ failPbn = b

(* The bget scan from head.prev backwards: the free buffer nearest the     *)
(* least recently used end, 0 if every buffer is referenced.               *)
LruFree == SelectLastInSeq(lru, LAMBDA i : refcnt[i] = 0)

(* bread's caller: a system call inside begin_op/end_op, which begin_op    *)
(* holds back while the log commits, or a read outside any transaction    *)
(* (fileread).                                                             *)
BeginBread(t, b, i) ==
    /\ \E tx \in BOOLEAN : /\ tx => ~committing
                          /\ ttx' = [ttx EXCEPT ![t] = tx]
    /\ tbuf' = [tbuf EXCEPT ![t] = i]
    /\ tblk' = [tblk EXCEPT ![t] = b]
    /\ tforced' = [tforced EXCEPT ![t] = ForcedFail(b)]
    /\ pc' = [pc EXCEPT ![t] = "sleep"]

(* bget's first loop, from head.next: is the block already cached?         *)
Cached(b, i) == blockno[i] = b

(* The position in the list of the first buffer caching b, 0 if none.      *)
Lookup(b) == SelectInSeq(lru, LAMBDA i : Cached(b, i))

(* bget, cached: the first buffer found gains a reference.                 *)
BGetHit(t, b) ==
    /\ ~panicked /\ pc[t] = "idle"
    /\ Lookup(b) # 0
    /\ LET i == lru[Lookup(b)] IN
        /\ refcnt' = [refcnt EXCEPT ![i] = (@ + 1) % UINT]
        /\ BeginBread(t, b, i)
    /\ UNCHANGED <<blockno, valid, holder, data, lru, disks, panicked, ghosts>>

(* bget, not cached: the least recently used free buffer is given to b     *)
(* and marked invalid.                                                     *)
BGetRecycle(t, b) ==
    /\ ~panicked /\ pc[t] = "idle"
    /\ Lookup(b) = 0
    /\ LruFree # 0
    /\ LET i == lru[LruFree] IN
        /\ blockno' = [blockno EXCEPT ![i] = b]
        /\ valid' = [valid EXCEPT ![i] = FALSE]
        /\ refcnt' = [refcnt EXCEPT ![i] = 1]
        /\ BeginBread(t, b, i)
    /\ UNCHANGED <<holder, data, lru, disks, panicked, ghosts>>

(* bget, not cached and every buffer referenced: panic.                    *)
BGetPanic(t, b) ==
    /\ ~panicked /\ pc[t] = "idle"
    /\ Lookup(b) = 0
    /\ LruFree = 0
    /\ panicked' = TRUE
    /\ UNCHANGED <<cache, disks, thread, ghosts>>

(* acquiresleep, then bread's test: a forced read redirects blockno to     *)
(* PBN1 and sleeps in virtio_disk_rw; an invalid buffer is read from PBN0; *)
(* a valid one is returned as it is.                                       *)
BreadLocked(t) ==
    /\ ~panicked /\ pc[t] = "sleep"
    /\ holder[tbuf[t]] = NoThread
    /\ LET i == tbuf[t]
           b == tblk[t]
       IN /\ holder' = [holder EXCEPT ![i] = t]
          /\ CASE tforced[t] ->
                    /\ blockno' = [blockno EXCEPT ![i] = Mirror(b)]
                    /\ pc' = [pc EXCEPT ![t] = "fread"]
                    /\ UNCHANGED <<data, valid>>
               [] ~valid[i] ->
                    /\ data' = [data EXCEPT ![i] = disk0[b]]
                    /\ valid' = [valid EXCEPT ![i] = TRUE]
                    /\ pc' = [pc EXCEPT ![t] = "held"]
                    /\ UNCHANGED blockno
               [] OTHER ->
                    /\ pc' = [pc EXCEPT ![t] = "held"]
                    /\ UNCHANGED <<blockno, data, valid>>
    /\ UNCHANGED <<refcnt, lru, disks, tbuf, tblk, tforced, ttx, panicked, ghosts>>

(* The forced read returns: the buffer holds PBN1, blockno is restored     *)
(* and the buffer is marked valid.                                         *)
BreadMirror(t) ==
    /\ ~panicked /\ pc[t] = "fread"
    /\ LET i == tbuf[t]
           b == tblk[t]
       IN /\ data' = [data EXCEPT ![i] = disk1[b]]
          /\ blockno' = [blockno EXCEPT ![i] = b]
          /\ valid' = [valid EXCEPT ![i] = TRUE]
    /\ pc' = [pc EXCEPT ![t] = "held"]
    /\ UNCHANGED <<refcnt, holder, lru, disks, tbuf, tblk, tforced, ttx, panicked, ghosts>>

(* bpin: the log's reference, under bcache.lock.                           *)
Bpin(i) == refcnt' = [refcnt EXCEPT ![i] = (@ + 1) % UINT]

(* A caller changes the content of the buffer it holds and calls           *)
(* log_write, which pins the block the first time it joins the log; only   *)
(* inside a transaction.                                                   *)
LogWrite(t, v) ==
    /\ ~panicked /\ pc[t] = "held" /\ ttx[t]
    /\ LET i == tbuf[t]
           b == tblk[t]
       IN /\ b \in inLog \/ Cardinality(inLog) < LOGSIZE
          /\ data' = [data EXCEPT ![i] = v]
          /\ latest' = [latest EXCEPT ![b] = v]
          /\ IF b \in inLog
             THEN UNCHANGED <<inLog, refcnt>>
             ELSE /\ inLog' = inLog \cup {b}
                  /\ Bpin(i)
    /\ UNCHANGED <<blockno, valid, holder, lru, disk0, disk1, cbuf, cblk, committing,
                   failDisk, failPbn, thread, panicked, written>>

(* brelse, first half: releasesleep.                                       *)
BrelseUnlock(t) ==
    /\ ~panicked /\ pc[t] = "held"
    /\ holder' = [holder EXCEPT ![tbuf[t]] = NoThread]
    /\ pc' = [pc EXCEPT ![t] = "unref"]
    /\ UNCHANGED <<blockno, valid, refcnt, data, lru, disks, tbuf, tblk, tforced, ttx,
                   panicked, ghosts>>

(* Mutant: the buffer is unlinked from the list but not relinked.         *)
MoveToMruUnlinkOnly(i) == lru' = Remove(lru, i)

(* Unlink buffer i and insert it after bcache.head.                        *)
MoveToMru(i) == lru' = Cons(i, Remove(lru, i))

(* brelse, second half, under bcache.lock: drop the reference and, when    *)
(* it was the last, move the buffer to the most recently used end.         *)
BrelseUnref(t) ==
    /\ ~panicked /\ pc[t] = "unref"
    /\ LET i == tbuf[t] IN
        /\ refcnt' = [refcnt EXCEPT ![i] = (@ - 1) % UINT]
        /\ IF refcnt[i] = 1 THEN MoveToMru(i) ELSE UNCHANGED lru
    /\ pc' = [pc EXCEPT ![t] = "idle"]
    /\ UNCHANGED <<blockno, valid, holder, data, disks, tbuf, tblk, tforced, ttx,
                   panicked, ghosts>>

(* bwrite's PBN0 attempt: skipped when disk 0 or this block is failed.     *)
Bwrite0(i) ==
    LET b == blockno[i] IN
    disk0' = IF failDisk = 0 \/ failPbn = b THEN disk0
             ELSE [disk0 EXCEPT ![b] = data[i]]

(* Mutant: PBN1 is skipped whenever PBN0 is.                               *)
BwriteSkip1Dependent(i) == failDisk = 1 \/ failDisk = 0 \/ failPbn = blockno[i]

(* bwrite's PBN1 decision, from the fail_disk it sampled on entry and      *)
(* independent of the PBN0 attempt.                                        *)
BwriteSkip1(i) == failDisk = 1

(* install_trans's bunpin, then brelse, of the buffer its bread returned,  *)
(* which holds n references counting the commit's own: two are dropped   *)
(* and a buffer left with none moves to the most recently used end.       *)
CommitRelease(i, n) ==
    LET r == (n - 2) % UINT IN
    /\ refcnt' = [refcnt EXCEPT ![i] = r]
    /\ IF r = 0 THEN MoveToMru(i) ELSE UNCHANGED lru

(* The log commits block b once no transaction is outstanding (end_op's    *)
(* commit).  install_trans's bread takes a reference to the buffer bget's *)
(* lookup finds and its sleep-lock, and bwrites it.  With PBN1 skipped,    *)
(* bwrite returns at once and the buffer is bunpinned and released;       *)
(* otherwise blockno is redirected to PBN1 while the second write sleeps.  *)
CommitStart(b) ==
    /\ ~panicked
    /\ b \in inLog /\ cbuf = 0
    /\ \A t \in Threads : ttx[t] => pc[t] = "idle"
    /\ Lookup(b) # 0
    /\ LET i == lru[Lookup(b)] IN
        /\ holder[i] = NoThread
        /\ Bwrite0(i)
        /\ written' = [written EXCEPT ![b] = data[i]]
        /\ IF BwriteSkip1(i)
           THEN /\ CommitRelease(i, refcnt[i] + 1)
                /\ inLog' = inLog \ {b}
                /\ committing' = (inLog' # {})
                /\ UNCHANGED <<blockno, holder, cbuf, cblk>>
           ELSE /\ refcnt' = [refcnt EXCEPT ![i] = (@ + 1) % UINT]
                /\ blockno' = [blockno EXCEPT ![i] = Mirror(b)]
                /\ holder' = [holder EXCEPT ![i] = Committer]
                /\ cbuf' = i
                /\ cblk' = b
                /\ committing' = TRUE
                /\ UNCHANGED <<lru, inLog>>
    /\ UNCHANGED <<valid, data, disk1, failDisk, failPbn, thread, panicked, latest>>

(* The PBN1 write returns: blockno is restored, the buffer's sleep-lock    *)
(* released, the buffer bunpinned and released, and the block leaves the  *)
(* log.                                                                    *)
CommitFinish ==
    /\ ~panicked /\ cbuf # 0
    /\ LET i == cbuf
           b == cblk
       IN /\ disk1' = [disk1 EXCEPT ![b] = data[i]]
          /\ blockno' = [blockno EXCEPT ![i] = b]
          /\ holder' = [holder EXCEPT ![i] = NoThread]
          /\ CommitRelease(i, refcnt[i])
          /\ inLog' = inLog \ {b}
          /\ committing' = (inLog' # {})
    /\ cbuf' = 0
    /\ cblk' = NoBlock
    /\ UNCHANGED <<valid, data, disk0, failDisk, failPbn, thread, panicked, ghosts>>

(* The control plane sets force_disk_fail_id or force_read_error_pbn.      *)
InjectFault(f) ==
    /\ ~panicked
    /\ failDisk' = f.disk
    /\ failPbn' = f.pbn
    /\ UNCHANGED <<cache, disk0, disk1, inLog, cbuf, cblk, committing, thread, panicked,
                   ghosts>>

(* A panic stops the kernel.                                               *)
Halted == panicked /\ UNCHANGED vars

Next ==
    \/ \E t \in Threads, b \in Blocks :
        BGetHit(t, b) \/ BGetRecycle(t, b) \/ BGetPanic(t, b)
    \/ \E t \in Threads :
        BreadLocked(t) \/ BreadMirror(t) \/ BrelseUnlock(t) \/ BrelseUnref(t)
    \/ \E t \in Threads, v \in Versions : LogWrite(t, v)
    \/ \E b \in Blocks : CommitStart(b)
    \/ CommitFinish
    \/ \E f \in Faults \cup {NoFault} : InjectFault(f)
    \/ Halted

Spec == Init /\ [][Next]_vars

-----------------------------------------------------------------------------
(* The cache never holds two buffers for the same block: bget's lookup     *)
(* and its recycling of a free buffer keep blockno unique even when two    *)
(* threads miss on the same block one after the other.                     *)
UniqueBlock ==
    \A i, j \in Bufs : i # j /\ blockno[i] = blockno[j] => blockno[i] = NoBlock

(* Whatever single fault the control plane injects, and when, the content *)
(* a commit wrote to block b is on at least one mirror once the commit's  *)
(* bwrite has returned, until the next commit of b: bwrite decides on      *)
(* PBN1 from the fail_disk it sampled on entry and independently of its    *)
(* PBN0 attempt (bio.c:174-198).                                           *)
MirrorHoldsCommit ==
    \A b \in Blocks :
        cblk # b => written[b] \in {disk0[b], disk1[b]}

(* Once bread returns, the buffer holds the last content written to the   *)
(* block (read-your-writes through the cache).                             *)
ReadYourWrites ==
    \A t \in Threads :
        pc[t] = "held" => data[tbuf[t]] = latest[tblk[t]]

=============================================================================
