# TLA+ models of the 2025-Spring-OS-MP storage core

This directory holds TLA+ models of the xv6-based storage core in
`src/mp4/kernel` (mirrored buffer cache, inode cache, file-system system
calls), of the mp2 slab allocator and file table, of the mp1 user-level
thread library and of the mp3 scheduling functions, with the TLC configurations that check them. `PROJECT.json` lists every component,
every run, the mutants that show each property can fail, the source lines of
every modelled definition, the findings and the hazards.

## 1. Inventory

### Components and how they interact

| Component | Source | State | Operations |
|---|---|---|---|
| Mirrored buffer cache | `mp4/kernel/bio.c` | `bcache.lock`, NBUF buffers (`blockno`, `valid`, `refcnt`, sleep-lock, `data`), LRU list; two disk mirrors (PBN0 = blockno, PBN1 = blockno + DISK1_START_BLOCK); fault flags `force_disk_fail_id`, `force_read_error_pbn` | `binit`, `bget`, `bread`, `bwrite`, `brelse`, `bpin`, `bunpin` |
| Block allocator | `mp4/kernel/fs.c` 49–102 | bitmap blocks | `bzero`, `balloc`, `bfree` |
| Inode cache | `mp4/kernel/fs.c` 170–370 | `icache.lock`, NINODE slots (`inum`, `ref`, `valid`, sleep-lock, copy of the dinode); dinodes on disk | `iinit`, `ialloc`, `iupdate`, `iget`, `idup`, `ilock`, `iunlock`, `iput`, `iunlockput` |
| Inode content | `mp4/kernel/fs.c` 380–548 | `addrs[NDIRECT+1]`, indirect block, `size` | `bmap`, `itrunc`, `stati`, `readi`, `writei` |
| Directory / path resolver | `mp4/kernel/fs.c` 552–914 | directory entries; a static 128-byte buffer in `concat_path` | `dirlookup`, `dirlink`, `skipelem`, `namex`, `namei`, `namei_follow`, `nameiparent`, `concat_path`, `follow_symlink` |
| File-system system calls | `mp4/kernel/sysfile.c` | per-process file table | `sys_open` (O_CREATE, O_TRUNC, O_NOACCESS, permission bits), `sys_link`, `sys_unlink`, `create`, `sys_mkdir`, `sys_mknod`, `sys_chdir`, `sys_chmod` (+ `chmod_recursive`), `sys_symlink`, `sys_readlink`, `sys_raw_read/write`, `sys_get_disk_lbn` |
| File table on a slab allocator | `mp2/kernel/file.c`, `slab.c` | slab lists (free/partial/full), per-object free lists, `in_use`, `f->ref`, `f->off` | `kmem_cache_create/alloc/free`, `filealloc`, `filedup`, `fileclose`, `fileread`, `filewrite` |
| User-level threads | `mp1/.../threads.c` | circular run queue, `suspended`, pending signals | `thread_create/add_runqueue/yield/exit`, `schedule`, `thread_suspend/resume/kill`, `dispatch` |
| Schedulers | `mp3/xv6/user/threads_sched.c` | run queue, release queue, remaining time, deadlines | `schedule_default`, `schedule_hrrn`, `schedule_priority_rr`, `schedule_dm`, `__check_deadline_miss` |
| CLI tools | `mp0/.../mp0.c`, `mp4/user/chmod.c`, `mp4/user/ls.c` | none | argument parsing and printing |

Every system call in `sysfile.c` reaches the inode cache through `namex`
(which `iget`s via `dirlookup`) and `ialloc`. Every inode operation reads and
writes dinodes through `bread`/`log_write`/`brelse`. The log (`log.c`) is
not under `src/`: it pins logged blocks (`bpin`) and, at commit, `bwrite`s
them to both mirrors and `bunpin`s them.

### Hard behaviours

- Concurrency. Kernel threads call into the core at the same time. There are
  two spinlocks, `bcache.lock` and `icache.lock`, plus one sleep-lock per
  buffer and per inode. `iput`'s free path keeps `icache.lock` while it takes
  the inode's sleep-lock (fs.c:347). `brelse` releases the sleep-lock before
  it takes `bcache.lock` (bio.c:208–210). `bread`'s fallback and `bwrite`
  change `b->blockno` to the PBN1 number while they sleep holding only the
  buffer's sleep-lock (bio.c:142, 193).
- Faults. The fault flags inject a failed mirror or a failed PBN0 block. Reads
  fall back to PBN1, and the two writes are independent attempts.
- Resource limits. `bget`, `iget` and `ialloc` panic when their pool is
  exhausted.
- Symlinks. `namex` recurses on every symlink. `concat_path` returns a static
  buffer.

### Properties the code must have

- A block is never cached twice.
- A locked buffer holds the latest logged data.
- Every committed block survives any single fault on at least one mirror.
- An inode is cached in at most one slot.
- A locked inode agrees with its dinode.
- No held reference points at a freed inode.
- An inode with no links is freed when its last reference goes.
- Every system call returns.
- Symlink resolution is bounded.
- Permissions are enforced on open.
- (mp2) A file offset shared through filedup moves by exactly what was read
  or written through it.

## 2. Modules

| Module | Models | Status |
|---|---|---|
| `BufCache` | bget, bread (with the PBN1 redirect), bwrite, brelse, bpin and bunpin of bio.c; the log's commit and fault injection as environment actions | done |
| `MC_BufCache` | model values and symmetry sets for `BufCache` | done |
| `InodeCache` | iget/ilock/iunlock/iput/ialloc, with create/link/unlink as the nlink writers | done |
| `MC_InodeCache` | model values and symmetry sets for `InodeCache` | done |
| `InodeContent` | balloc/bzero/bfree, bmap (direct and indirect), itrunc, readi, writei with a failing user copy | done |
| `MC_InodeContent` | constants for `InodeContent` | done |
| `PathResolver` | skipelem, dirlookup, namex, concat_path (with safestrcat and safestrcpy), follow_symlink as operators, character by character; plus the design's resolution (`SpecResolve`) as the reference | done |
| `FsSyscalls` | sys_open (O_CREATE, O_TRUNC, O_NOACCESS, permission bits), sys_mkdir, sys_symlink, sys_readlink, sys_chdir, sys_chmod with chmod_recursive, over the tree of `PathResolver` | done |
| `MC_FsSyscalls` | path arguments (as character sequences) and open flags for each run | done |
| `FileStore` | the abstract file store of design §4.3: each inode is a byte sequence; a write at an offset up to the size may stop after any prefix; a panic stops everything | done |
| `Slab` | kmem_cache_alloc and kmem_cache_free of one cache (slab.c), as operators the caller's steps conjoin | done |
| `FileTable` | filealloc, filedup, fileclose, fileread and filewrite (mp2 file.c) over `Slab`, by concurrent kernel threads sharing one inode | done |
| `MC_FileTable` | symmetry over threads and slab pages | done |
| `UThreads` | the mp1 run queue, yield, exit, suspend/resume, kill and signal handlers | done |
| `MC_UThreads` | the thread instance | done |
| `Sched` | schedule_default, schedule_hrrn, schedule_priority_rr and schedule_dm (threads_sched.c) as operators, with a caller that builds the queues | done |
| `MC_Sched` | the scheduler instance | done |

### BufCache

State:
- Per buffer: `blockno`, `valid`, `refcnt`, `holder` (the sleep-lock) and
  `data`. `blockno` can be `Mirror(b)`, PBN1's number, while a read or
  write of the mirror sleeps. `refcnt` is a `uint`, so it wraps modulo
  `UINT`.
- `lru` is a sequence, with MRU first.
- Per block: `disk0`, `disk1`.
- `inLog` holds the blocks pinned by the log. `committing` is
  `log.committing`. `cbuf` and `cblk` are the buffer and block of a commit
  whose PBN1 write is in flight (`cblk` is bwrite's local `pbn0`).
- `failDisk` and `failPbn` are the fault flags.
- Per thread: `pc`, `tbuf`, `tblk`, `tforced`, and `ttx` (the read is inside
  a transaction).
- Ghost variables: `latest[b]` is the last value logged for block `b`, and
  `written[b]` is what the last commit of `b` wrote.

Data is a version number from `Versions`.

Actions (bread = `BeginBread` + `BGetHit`/`BGetRecycle`/`BGetPanic` +
`BreadLocked` [+ `BreadMirror`]):

| Action | Code |
|---|---|
| `BGetHit` | bio.c:66–78; `Lookup` is the first buffer in MRU order with the block's number |
| `BGetRecycle` | bio.c:80–94; the LRU scan is `SelectLastInSeq` |
| `BGetPanic` | bio.c:95 |
| `BreadLocked` | bio.c:131–148: acquiresleep, then a forced read sets `blockno` to `Mirror(b)` (line 142), an invalid buffer is read from PBN0, a valid one is returned |
| `BreadMirror` | bio.c:143–149: the PBN1 read returns and `blockno` is restored |
| `LogWrite` | the caller updates `data` and calls `log_write`, which pins the block on first join (`Bpin`, bio.c:226–231); only inside a transaction; modelled from the spec |
| `BrelseUnlock` | bio.c:208, the first half of `brelse` |
| `BrelseUnref` | bio.c:210–223, the second half |
| `CommitStart` | the log's `install_trans` for one block: bread (a `Lookup` hit and a reference), then bwrite's PBN0 attempt (`Bwrite0`, bio.c:168–186) and its PBN1 decision (`BwriteSkip1`, bio.c:189). If PBN1 is skipped, bunpin and brelse follow at once (`CommitRelease`). Otherwise `blockno` becomes `Mirror(b)` (bio.c:193) |
| `CommitFinish` | the PBN1 write returns: `disk1`, `blockno = pbn0` (bio.c:198), then bunpin (bio.c:233–238) and brelse |
| `InjectFault` | sets the fault flags |

The fault flags are sampled in `BeginBread`, before `bget`, as bio.c:124–126
does.

The log is not in the repository. Its discipline is taken from xv6:
- `begin_op` waits while a commit runs, so a thread enters a transaction
  only when `committing` is false.
- A commit starts only when no transaction is open.
- Reads outside a transaction (`fileread` calls `readi` without
  `begin_op`) run at any time, commits included.

A read or write of PBN1 changes `b->blockno` while `virtio_disk_rw` sleeps.
The sleeper holds only the buffer's sleep-lock, not `bcache.lock`. So in
this window a `bget` for the same block misses and recycles a second
buffer, and when `blockno` is restored the block is cached twice (finding
1). After that, a reader and a writer can hold one block at the same time,
and the log's `bunpin` can drop a reference from the copy it never pinned.
That copy's `refcnt` then wraps, and the pinned copy is never freed.

`BlockStore` (design §4.1, one holder and one content per block) was an
abstract specification for this module. The redirect breaks it through the
same duplicate buffers, so it is no longer part of the project.
`BufCache_redirect` checks the cause, `UniqueBlock`, instead.

### InodeCache

State:
- Per slot: `inum`, `ref`, `valid`, `itype`, `nlink`, `ilk` (the sleep-lock).
- `icacheLock`.
- On disk: `dtype`, `dnlink`.
- `dirents[n]` counts the directory entries naming inum `n`.
- Per thread: `pc`, `tslot`, `tinum`.
- `panicked`.

A thread runs one of these system calls:
- create: `IAlloc` → `IGetAllocated` → `ILock` → `CreateLink` → `IUnlock` →
  iput;
- link/unlink: `LookupIGet` → `ILock` → `Link` or `Unlink` → `IUnlock` → iput;
- open/stat: `LookupIGet` → `ILock` → `IUnlock` → iput.

iput is `IPutDec` (fs.c:359–362), or the free path `IPutBegin` →
`IPutSleep` → `IPutTruncFree` → `IPutInvalidate` → `IPutFinish`
(fs.c:339–362), split at each lock operation. `LookupIGet` abstracts
`dirlookup` (fs.c:556–591): the entry exists while the directory is locked,
and `iget` is called.

### InodeContent

Each operation runs with the inode's sleep-lock held, and reaches the bitmap
through `bread`'s buffer lock. So each call is one atomic step.

State:
- `addrs[i]`: `ip->addrs`, with index `NDIRECT` for the indirect block.
- `size[i]`.
- `bitmap`: the set of blocks whose bit is set.
- `cont[b][j]`: byte `j` of block `b`. The same bytes are read as data by
  readi and as block numbers by bmap and itrunc, so a stale block reused as an
  indirect block really is misread.
- `file[i]`: a ghost, the byte last written at each offset.
- `panicked`.

The operations are operators on a disk record that are threaded through the
call:

| Definition | Code |
|---|---|
| `Balloc` | fs.c:49–86, the first-fit scan, bzero, and a panic when the disk is full |
| `Bfree` | fs.c:89–102, with the "freeing free block" panic |
| `Bmap` | fs.c:382–430 |
| `WriteLoop`, `WriteI` | fs.c:512–548 |
| `ReadLoop`, `ReadI` | fs.c:484–506 |
| `FreeDirect`, `FreeIndirect`, `ITrunc` | fs.c:434–465 |

The user copy in writei may fail at any chunk (`fail`). bmap has already run
for that chunk, so its block stays allocated, and the size grows only to the
offset reached.

`InodeContent` implements `FileStore`. The refinement mapping reads each
inode's content through its blocks: byte `o` of inode `i` is
`cont[BlockOf(i, o)][o % BSIZE]` for `o < size[i]`, and `down` is
`panicked`. `ImplementsFileStore` checks `FS!Spec` as a property. Here is
how the concrete steps correspond to abstract ones:
- A writei whose copy breaks off after k bytes is the abstract write of the
  first k bytes.
- itrunc is the abstract truncate.
- readi is an abstract read, because it changes nothing.
- A panic in balloc (a full disk) is a write that sets `down`.

The mapping holds only if every block bmap hands out is zeroed and owned by
one inode. A writei that shrinks the size breaks it.

### PathResolver

Paths are sequences of characters: one-letter names, `"/"` and `NUL`. A
character pointer is either into a system call's argument, or into
`concat_path`'s static 128-byte buffer `b`. The buffer is threaded through
every call, because namex goes on reading the rest of the path from that
buffer while the next `concat_path` overwrites it.

| Definition | Code |
|---|---|
| `SkipElem` | fs.c:638–661 |
| `DirLookup` | fs.c:556–591 |
| `SafeStrCat`, `ConcatPath` | fs.c:717–743 |
| `SafeStrCpy` | the kernel's string.c, which is not under src/; modelled from the code shipped with xv6 |
| `NamexLoop`, `Namex` | fs.c:747–852 |
| `NameI`, `NameIFollow`, `NameIParent` | fs.c:855–871 |
| `FollowSymlink` | fs.c:873–914 |

- namex calls itself on every non-final symlink, and restarts
  `symlink_depth` at 0. The recursion is bounded only by the kernel stack,
  `KSTACK` frames.
- `SpecResolve` is the resolution that section 4.4 of the design describes,
  over lists of names: splice each non-final link's target into the
  remaining names, failing after `MAX_SYMLINK_DEPTH` splices.

### FsSyscalls

Sequential system calls, one per step, over the tree of `PathResolver`.

State:
- `itype`, `mode`, `ents`, `tgt`, and the process's `cwd` (from `PathResolver`),
  where a relative path starts.
- `size`, the content size.
- `buf`, the static buffer.
- `refs`, the references that are held and never put.
- `panicked`.
- `last`, the record of the last call.

Actions:

| Action | Code |
|---|---|
| `Open` = `OpenCreate` or `OpenExisting` | sysfile.c:291–420, with create() (243–286), follow_symlink, the directory check, the permission checks (347–360) and the O_TRUNC itrunc |
| `Mkdir` | sysfile.c:422–437 |
| `Symlink` | sysfile.c:692–734 |
| `Readlink` | sysfile.c:737–780 |
| `Chdir` | sysfile.c:459–483: `namei` (no symlink followed), fails unless a directory, then `p->cwd` moves |
| `Chmod` with `ChmodSubtree` | sysfile.c:583–689 |
| `Halted` | a panic (`iunlock` of a null or unlocked inode, fs.c:324–325; a stack overflow) stops the kernel |

### Slab and FileTable

kmem_cache_alloc and kmem_cache_free each run whole under `cache->lock`, so
each is an operator. It is conjoined into one step of the file-table thread
that calls it. An object is a pair `<<page, index>>`.

The free lists are kept as the code keeps them. There is a head per page
(`cfree` for the cache's own page, `sfree[s]` for slab `s`) and a next
pointer `nxt[o]` stored in each free object. So a double free really
corrupts a chain. The other state is:
- `partial`, `full` and `freel`, the slab lists, as sequences;
- `inuse[s]`, a uint;
- `slabs`, the kalloc'ed pages.

| Definition | Code |
|---|---|
| `SlabInit` | kmem_cache_create, slab.c:88–130 |
| `AllocFromCache`, `PopSlab`, `KmemCacheAlloc` | slab.c:140–218. The cache page first, then the first partial slab, then the first free slab, then a new slab. kalloc may return 0 at any call. |
| `Refile`, `KmemCacheFree` | slab.c:220–276. A full slab moves to the partial tail. An empty slab is kfree'd when the partial and free lists already hold `MIN_AVAIL_SLAB` slabs; otherwise it goes on the free tail. |

FileTable splits each file.c call at its lock sections. The split points
are these:
- `FileAlloc` is kmem_cache_alloc (file.c:62).
- `FileAllocSetRef` sets `ref = 1` (63–67).
- `FileDup` is filedup (72–81).
- `FileClose` is fileclose's first section (113–125).
- `FileCloseFree` is kmem_cache_free (135).

`held[t][f]` counts the references thread `t` holds. filedup may hand its
copy to any thread, as fork does.

Every object is opened O_RDWR on one regular file. So fileread and filewrite
of all objects and threads meet at one inode: its `size`, its sleep-lock
`ilock`, and each object's shared `off` (`f->off`). The steps are these:
- `SysOpen` stands for mp2's `sys_open`, which is not in the repository. It
  sets `off = 0` and may truncate the file.
- `FileRead` is fileread up to readi (file.c:160–175), with `ip->lock` taken.
  `FileReadDone` is `f->off += r` and iunlock (175–182).
- `FileWrite` enters filewrite's loop (188–210). Each chunk is two steps.
  `FileWriteChunk` takes `ip->lock` and calls writei at `f->off` (211–217).
  `FileWriteAdvance` is `f->off += r`, iunlock, and the loop's break or
  return (217–233).

writei sleeps, so the offset it is given and the update after it are separate
steps; only `ip->lock` keeps two holders of one object apart. writei fails past
the end of the file or past MAXFILE. User copies are taken not to fault.
The ghost `acc[f][p]` counts the times position `p` was transferred through
`f` since its open.

### UThreads

One process runs the library, so the only nondeterminism is which library
call the running code makes next. The state is:
- the ring `next`/`previous` and `current_thread`;
- `suspended`, `signo` and `sig_handler`;
- `buf_set` and `handler_buf_set`;
- `handler_env`, which says what `longjmp(handler_env)` resumes: the handler
  or, when the function yielded with a signal pending, the function;
- `at`, which says where control is: main, dispatch, the thread's function,
  its handler, spinning in schedule, or done.

| Action | Code |
|---|---|
| `MainAdd`, `ThreadAddRunqueue` | threads.c:43–57 (and thread_create, 19–40) |
| `StartThreading` | 148–152 |
| `Dispatch` | 73–109: a first handler entry, resume of handler_env, exit of a thread with no handler, or the function |
| `ThreadYield` | 58–71, then schedule (112–122, `Schedule` walks `next` past suspended threads; every thread suspended spins) |
| `ThreadSuspend`, `ThreadResume`, `ThreadKill`, `ThreadRegisterHandler` | 166–173, 175–179, 159–164, 155–157 |
| `Return` | a handler's return clears the signal and goes on in the function (86–107); a function's return is thread_exit |
| `ThreadExit` | 124–147 |

### Sched

Each scheduling function is an operator from the run queue, the release
queue and the time to the chosen thread and its allocated ticks. The thread
is `NULL` when the code returns the list head. Every `list_for_each_entry`
loop is a `FoldLeft` of its body over the queue, in queue order.

| Definition | Code |
|---|---|
| `DefaultStep`, `ScheduleDefault` | threads_sched.c:11–30 |
| `HrrnBetter`, `ScheduleHrrn` | 37–80: the cross-multiplied ratio comparison, with ties broken by ID |
| `PrioGroupStep`, `SchedulePriorityRR` | 85–139: the two passes, and the rotation of a sliced thread to the tail |
| `CheckDeadlineMiss` | 145–158 |
| `DmThreadCmp` | 163–169 |
| `EarliestRelease`, `DmAlloc`, `ScheduleDm` | 171–251: the release of due entries, the miss check, the empty queue, the selection, and the allocation cut |

The caller is threads.c of mp3, which is not in this repository. It is
kept only as far as the functions read it:
- threads arrive on the run queue with their whole burst remaining;
- a deadline-monotonic job waits on the release queue until a later tick,
  with current deadline = release + relative deadline;
- threads leave the run queue;
- time advances;
- the compiled-in scheduler is called. Init chooses it and it never changes.

`schedule_priority_rr` and `schedule_dm` change the queues, and the
caller's queues take those changes.

## 3. Runs

| Run | Bounds | Checks | Result |
|---|---|---|---|
| `BufCache_redirect` | 2 threads, 3 blocks, 3 buffers, log of 1, no faults, symmetry over threads and blocks | `UniqueBlock` | violation (finding 1, 10 steps) |
| `BufCache_mirrors` | 1 thread, 2 blocks, 2 buffers, log of 2, every single fault at any time | `TypeOK`, `MirrorHoldsCommit` | pass (~6.8M states, under 3 minutes) |
| `BufCache_forced_reread` | 1 thread, 2 blocks, disk 0 down | `ReadYourWrites` | violation (finding 2) |
| `InodeCache_concurrency` | 2 threads, 2 inums, 2 slots, nlink ≤ 2, `FairSpec` | `TypeOK`, `UniqueInum`, `LockedMatchesDisk`, `RefNeverDangles`, `SyscallsReturn` | pass (~44k states) |
| `InodeCache_orphan` | same bounds, `FairSpec` | `OrphanFreed` | violation (finding 3) |
| `InodeContent_blocks` | 2 inodes, 5 blocks (block 0 reserved), BSIZE 2, 1 direct + 2 indirect, values {1, 3}, writes of 1–3 bytes | `TypeOK`, `BitmapExact`, `ReadYourWrites`, `ImplementsFileStore` | pass (~55k states, about 2 minutes for the refinement) |
| `FsSyscalls_permissions` | 4 inodes, /f, /d, /a → /f, each mode bit, every access mode alone, with O_TRUNC and with O_CREATE | `OpenRespectsMode` | violation (finding 4) |
| `FsSyscalls_tree` | 5 inodes, /d, /d/d, /d/f, /a → /d, /a/f, chdir, relative d, f, a/f | `TypeOK`, `ChmodReachesDescendants` | pass (~89k states) |
| `FsSyscalls_symlink_cycle` | /a → /a/a, open /a/f, a 32-byte buffer | `NoPanic` | violation (finding 5) |
| `FileTable_slab` | 2 threads, 2 slab pages of 2 objects, 1 object in the cache page, MIN_AVAIL_SLAB 1, 2 references per thread; a file of 3 positions written one per chunk, requests of 2, reads and writes through the cache-page object; symmetry over threads and pages | `TypeOK`, `SlabListsExact`, `ObjectsAccounted`, `SharedOffsetExact` | pass (~214k states) |
| `UThreads_ring` | 3 threads, 1 signal, 1 handler | `RingIntact`, `EveryRunnableRuns` | pass (~383k states) |
| `Sched_select` | every scheduler; up to 3 threads on the two queues, ticks 0–3, bursts 1 and 3, quantum 2, priorities 1 and 2, deadlines 2 and 3 | `SelectionIgnoresQueueOrder`, `HrrnHighestResponseRatio`, `PriorityRRRoundRobin`, `DmSafeAllocation` | pass (~871k states) |

Why the bounds are enough:
- BufCache. In the mirrors run, two buffers over two blocks force eviction
  and re-reads, and a log of two blocks can pin both buffers. Every single
  fault can be set and cleared at any step, so a fault can come between
  bwrite's two attempts, or between bread's sampling of the flags and its
  read. One thread is enough for the redirect race, because the commit is a
  second actor. TLC's states include duplicate buffers, a `refcnt` wrapped by
  the wrong-copy `bunpin`, and the committing buffer recycled mid-write.
  `MirrorHoldsCommit` holds through all of them. `UINT` is 16: every
  reachable count and the wrap of 0 to `UINT - 1` behave as they do with
  2^32. The redirect run needs no faults: the commit's PBN1 write alone
  opens the window.
- InodeCache. Two threads and two slots are the fewest that reach the iput
  versus ialloc race. Two inums let ialloc skip an allocated inode.
- InodeContent. One direct block and two indirect entries exercise both bmap
  paths and both halves of itrunc. Each file can grow to 4 blocks, and 4 are
  free, so a second file exhausts the disk. The disk reuses freed blocks, as
  direct, indirect or data blocks. A write of 3 bytes at an odd offset spans
  two chunks, so a copy can fail after a block was allocated.
- FsSyscalls. Paths of one or two elements reach:
  - a final symlink;
  - a non-final symlink, where namex recurses and `concat_path` runs;
  - a subdirectory for chmod's recursion;
  - relative paths from a cwd that chdir moved to /d or /d/d, so that
    chmod and readlink use relative paths too.

  There is one link on every path, so the tree run does not exercise the
  chain of finding 6, and `ResolvesAsSpecified` is not one of its
  properties. The permissions run enumerates every access mode alone, with
  O_TRUNC and with O_CREATE, including the ones that violate
  `OpenRespectsMode`.

  The cycle run uses a 32-byte buffer (the code's is 128). The self-extending
  path /a → /a/a then fills the buffer after a few frames. The kernel-stack
  bound `KSTACK` (12 frames) is still reached first.
- Sched. Each bound makes one branch of the code happen:
  - Bursts 1 and 3 around a quantum of 2 reach both of priority round
    robin's branches: run to completion, and slice and rotate.
  - Arrivals at different ticks give HRRN equal response ratios, for
    example (3+3)/3 and (1+1)/1, so its ID tie-break matters.
  - Deadlines 2 and 3 let DM jobs tie, differ, miss at tick 2 or 3, and be
    cut by a release one tick ahead.

  Three threads give every order of a tie. The reference definitions say
  what each policy means, not how the scan finds it: `HrrnHighestResponseRatio`
  compares every pair of ratios. `SelectionIgnoresQueueOrder` re-runs each
  order-free scheduler on every permutation of the queue.
- FileTable. One cache-page object and two slabs of two objects take every
  path of kmem_cache_alloc:
  - the cache page;
  - a partial slab;
  - a free slab;
  - a new slab;
  - kalloc failing.

  They also reach a slab going full and coming back to partial. An empty
  slab is kept on the free list (MIN_AVAIL_SLAB 1) or kfree'd when one is
  kept already. Two threads let one thread free an object while the other
  allocates between fileclose's sections.

  Reads and writes go through the cache page's object only. Both threads can
  hold that object at once through filedup. Enumerating them on every object
  took the run from 12k to 5M states. The property is per object and the
  same code serves every object, so one object loses no path. Opens through
  the other objects can still truncate the file under it.

  A file of 3 positions with requests of 2 and chunks of 1 covers these cases:
  - a write of two chunks;
  - a write whose second chunk crosses MAXFILE and returns -1;
  - a write at an offset left past the end by another open's truncation;
  - reads that stop at the end of the file.
- UThreads. Three threads allow each of these:
  - one thread creates another;
  - one thread signals a third;
  - a thread suspends another;
  - every thread is suspended at once.

  A second signal number multiplies the state space by about a hundred and
  adds no new path through dispatch.

Fairness:
- BufCache, InodeContent and FsSyscalls runs check safety only.
- `InodeCache_concurrency` assumes strong fairness for each thread's steps
  once a system call has started. The code has no cancellation (spec §5).
  The steps wait on `icache.lock` or a sleep-lock, so they are enabled only
  on and off. xv6 spinlocks and sleep-locks do not promise fairness, so
  `SyscallsReturn` holds only under the assumption that lock arbitration
  starves no thread forever. Idle threads need not start a call.
- `UThreads_ring` assumes weak fairness for `thread_start_threading`, for
  `dispatch`, and for the running code's next control transfer (yield,
  suspending itself, or returning). Switching is cooperative: the library
  runs another thread only when the current one calls in or returns.
  So `EveryRunnableRuns` holds only for programs whose threads give up the
  CPU eventually. Nothing is assumed of calls that do not transfer control
  (kill, resume, create, register), so a thread may make any number of them.
- `FileTable_slab` and `Sched_select` check safety only.

Each property of a passing run has a mutant in `PROJECT.json`: a plausible bug
in the code's definition that TLC finds violating it. For example:
- itrunc keeping the indirect block breaks `BitmapExact`.
- writei setting the size to `off + n` after a failed copy breaks
  `ReadYourWrites`.
- writei setting the size to the offset it started at breaks
  `ImplementsFileStore`.
- kmem_cache_free leaving a formerly full slab on the full list breaks
  `SlabListsExact`.
- schedule starting its search at the current thread rather than the next
  one breaks `EveryRunnableRuns`.
- bwrite skipping PBN1 whenever it skipped PBN0 breaks
  `MirrorHoldsCommit`.
- filewrite adding writei's -1 to `f->off` breaks `SharedOffsetExact`.
- DM allocating past the next release breaks `DmSafeAllocation`.
- `__dm_thread_cmp` without its ID tie-break breaks
  `SelectionIgnoresQueueOrder`.
- chmod_recursive not descending into subdirectories breaks
  `ChmodReachesDescendants`.

A balloc without bzero also breaks `BitmapExact`, because a reused indirect
block's stale entries are read as block numbers.

## 4. Findings

1. The PBN1 redirect caches a block twice (bio.c:193, also bio.c:142).
   `bwrite` sets `b->blockno` to PBN1's number and sleeps in
   `virtio_disk_rw`, holding only the buffer's sleep-lock. Design §4.1 says
   cache identity is preserved. Trace (`BufCache_redirect`, 10 steps):
   1. t2 logs v1 to b1 through buffer 1.
   2. The commit starts bwrite on buffer 1, whose `blockno` becomes PBN1.
   3. t2 reads b1 outside a transaction (`fileread`). bget misses and
      recycles buffer 2 for b1.
   4. bwrite restores buffer 1's `blockno` to b1.

   Two buffers now cache b1. Further consequences TLC reaches:
   - two threads hold b1's sleep-locks at once;
   - a reader sees content older than the last write;
   - the log's `bunpin` drops the reference of the unpinned copy, whose
     `refcnt` wraps, so the pinned copy is never freed and bget panics.
2. The forced mirror read loses logged writes (bio.c:131–147). When disk 0 is
   flagged down, or the block's PBN0 is flagged, `bread` re-reads the block
   from PBN1 even if the buffer is valid. If that buffer holds data logged
   but not yet committed, the data is replaced by the mirror's older copy.
   Trace: log v1 to block b, brelse, disk 0 fails, bread(b) returns v0.
3. iput leaks an unlinked inode when it races ialloc (fs.c:341–361).
   Trace:
   1. Thread A is on iput's free path for inode n. It has set type 0 on disk
      and cleared `valid`, but has not yet done its `ref--`.
   2. Thread B's `ialloc` finds n free and `iget` hits A's slot, making ref 2.
      B creates the file, links it, later unlinks it and iputs it. B sees
      ref 2, so it only decrements.
   3. A finally decrements to 0.

   Inode n is now allocated on disk with nlink 0 and no directory entry. No
   later iput will free it.
4. sys_open grants read access the mode bits deny (sysfile.c:355, 304).
   The read check tests `omode == O_RDONLY`, so O_RDONLY|O_TRUNC skips it:
   the file is opened readable, and truncated. O_CREATE on an existing file
   returns it with no permission check at all. `FsSyscalls_permissions`
   finds it in 4 steps: create /f, clear its read bit, open it.
5. A symlink whose target extends its own path overflows the kernel stack
   (fs.c:824). namex calls itself for each non-final link, and the nested
   call starts with `symlink_depth` 0. So MAX_SYMLINK_DEPTH never stops
   /a → /a/a on "/a/f".

Further disagreements TLC reaches in these models, not checked as violation
runs of their own:
6. A chain of links resolves to the wrong inode (fs.c:737). `concat_path`
   returns one static buffer, and the nested namex's `rest` points into it.
   The next `concat_path` first copies the new target over it: `safestrcpy`
   writes a second NUL right after the target, and the rest of the path is
   lost. With /a → /b and /b → /d, namei_follow("/a/f") returns /d, not
   /d/f. `ResolvesAsSpecified` (namei_follow against the design's
   `SpecResolve`) fails in 3 steps with the tree run's constants, `"b"`
   added to `Names`, and `Paths <- ChainPaths`, `SymlinkArgs <- ChainLinks`
   of `MC_FsSyscalls`.
- thread_exit dispatches the next thread even if it is suspended
  (threads.c:135–140). Trace: a suspends b, a returns, b runs.
- `handler_buf_set` is never reset. After one handled signal, consider a
  thread that kills itself and yields: its function context is saved in
  `handler_env`. The next dispatch resumes the function through
  `handler_env` (line 90, "Resume handler if already running"), and the
  handler never runs, so the signal stays pending forever.
- chmod of a dangling symlink calls `iunlockput(0)` (sysfile.c:655), which
  panics. This is `Chmod`'s `Panics` branch.
- readlink of a dangling symlink unlocks an inode that follow_symlink already
  unlocked (sysfile.c:760), which panics.
- readlink of a chain returns the target of the last link in the chain, not
  the named link's own target (sysfile.c:767).
- O_NOACCESS|O_TRUNC truncates a file whose write bit is clear
  (sysfile.c:349–360 are skipped).
- sys_symlink never puts the reference `namei` returned when the path exists
  (sysfile.c:711), so every refused symlink leaks an inode cache reference.
- writei returns `n` even when the user copy broke off early (fs.c:547).

## 5. Not modelled, and why

- Byte contents, names and file sizes are abstracted:
  - to versions and counters in BufCache and InodeCache;
  - to one-byte values in InodeContent.
- The log's crash recovery is outside the core (spec §1).
- FsSyscalls takes the inode cache as given. Its calls run one at a time, and
  their locking is checked separately by InodeCache. link, unlink,
  mknod and raw I/O are not modelled there.
- `stati` and `sys_get_disk_lbn` only copy fields.
- mp2: the pipe and device branches of fileread, filewrite and fileclose
  are not modelled. filestat only copies fields. mp2's readi, writei and
  sys_open are not in the repository. FileTable takes them as xv6 defines
  them, with user copies that do not fault; mp4's writei has its own model
  in InodeContent. kmem_cache_destroy is not called by file.c, and
  printfslab only prints.
- mp1: thread stacks (malloc/free) and the setjmp register contents are
  not modelled. Only what each saved context resumes is kept.
- mp3: `schedule_edf_cbs` and `__edf_thread_cmp` are empty stubs, and
  `schedule_edf_cbs` returns its result uninitialized. threads.c of mp3,
  the schedulers' caller, is not in the repository.
- CLI tools and output formatting are not modelled.

## 6. Plan for later sittings

- `InodeCacheAbstract`: a refinement mapping from `InodeCache`.
- Compose `FsSyscalls` with `InodeContent` (O_TRUNC's itrunc, symlink's
  writei).
