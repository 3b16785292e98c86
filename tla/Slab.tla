-------------------------------- MODULE Slab --------------------------------
(***************************************************************************)
(* The slab allocator of src/mp2/kernel/slab.c for one kmem_cache: the     *)
(* objects carved out of the cache's own page, and slabs (one kalloc'ed    *)
(* page each) on the partial, full and free lists.  kmem_cache_alloc and   *)
(* kmem_cache_free run whole under cache->lock, so each is one atomic      *)
(* step; their operators here are conjoined into the steps of FileTable.  *)
(*                                                                         *)
(* An object is a pair <<page, index>>.  A free object's first word is its *)
(* next pointer (struct run), so the free lists are kept as the pointers   *)
(* themselves: a head per page and nxt[o] per object.  A double free thus  *)
(* rewrites nxt of an object already on a list, exactly as the code does.  *)
(***************************************************************************)
EXTENDS Naturals, Sequences, FiniteSets, SequencesExt

CONSTANTS
    Pages,              \* pages kalloc can hand out for slabs
    CachePage,          \* the page of the kmem_cache itself
    CacheObjs,          \* max_cache_objs: objects after struct kmem_cache
    SlabObjs,           \* max_objs: objects after struct slab
    MIN_AVAIL_SLAB,     \* MP2_MIN_AVAIL_SLAB
    NoObj               \* the null pointer

ASSUME /\ CachePage \notin Pages /\ CacheObjs >= 1 /\ SlabObjs >= 1
       /\ MIN_AVAIL_SLAB \in Nat

ObjsOf(p) == {p} \X (1 .. (IF p = CachePage THEN CacheObjs ELSE SlabObjs))
Objs == UNION {ObjsOf(p) : p \in Pages \cup {CachePage}}

(* The chain kmem_cache_create (lines 114-121) and a new slab (lines       *)
(* 184-190) thread through a page: each object points to the next one in  *)
(* address order, the last one to null.                                    *)
Chain(p, x) == IF x[2] = Cardinality(ObjsOf(p)) THEN NoObj ELSE <<p, x[2] + 1>>

VARIABLES
    cfree,      \* cache->freelist
    nxt,        \* nxt[o]: ((struct run *)o)->next
    partial,    \* cache->partial, head first
    full,       \* cache->full
    freel,      \* cache->free
    sfree,      \* sfree[s]: s->freelist
    inuse,      \* inuse[s]: s->in_use
    slabs,      \* pages holding a slab: kalloc'ed and not kfree'd
    panicked    \* the kernel has panicked or faulted

slabvars == <<cfree, nxt, partial, full, freel, sfree, inuse, slabs>>

(* The cache as kmem_cache_create (lines 88-130) leaves it.                *)
SlabInit ==
    /\ cfree = <<CachePage, 1>>
    /\ nxt = [x \in Objs |-> IF x[1] = CachePage THEN Chain(CachePage, x) ELSE NoObj]
    /\ partial = <<>> /\ full = <<>> /\ freel = <<>>
    /\ sfree = [s \in Pages |-> NoObj]
    /\ inuse = [s \in Pages |-> 0]
    /\ slabs = {}

-----------------------------------------------------------------------------
(* Mutant: the cache's freelist head handed out but not advanced.         *)
AllocFromCacheNoPop(o) ==
    /\ cfree # NoObj /\ o = cfree
    /\ UNCHANGED <<cfree, nxt, partial, full, freel, sfree, inuse, slabs, panicked>>

(* Lines 155-161: the object at the head of the cache's own freelist.     *)
AllocFromCache(o) ==
    /\ cfree # NoObj /\ o = cfree
    /\ cfree' = nxt[cfree]
    /\ UNCHANGED <<nxt, partial, full, freel, sfree, inuse, slabs, panicked>>

(* Lines 199-210 for slab s, which the partial list P now holds: pop its   *)
(* freelist, count the object, move s to the full tail when it is full.   *)
(* A null freelist (possible only once a list is corrupt) faults.          *)
PopSlab(s, P, o) ==
    IF sfree[s] = NoObj
    THEN /\ o = NoObj /\ panicked' = TRUE
         /\ UNCHANGED <<cfree, nxt, partial, full, freel, sfree, inuse, slabs>>
    ELSE /\ o = sfree[s]
         /\ sfree' = [sfree EXCEPT ![s] = nxt[o]]
         /\ inuse' = [inuse EXCEPT ![s] = @ + 1]
         /\ IF inuse'[s] = SlabObjs
            THEN partial' = Remove(P, s) /\ full' = Append(full, s)
            ELSE partial' = P /\ full' = full
         /\ UNCHANGED <<cfree, nxt, panicked>>

(* kmem_cache_alloc (lines 140-218) returning o: the cache's freelist,     *)
(* else the first partial slab, else the first free slab moved to the     *)
(* partial tail, else a new slab from kalloc.  kalloc draws on the pages  *)
(* the whole kernel shares, so any call may find none and return 0.       *)
KmemCacheAlloc(o) ==
    \/ AllocFromCache(o)
    \/ /\ cfree = NoObj /\ partial # <<>>
       /\ PopSlab(Head(partial), partial, o) /\ UNCHANGED <<freel, slabs>>
    \/ /\ cfree = NoObj /\ partial = <<>> /\ freel # <<>>
       /\ freel' = Tail(freel)
       /\ PopSlab(Head(freel), <<Head(freel)>>, o) /\ UNCHANGED slabs
    \/ /\ cfree = NoObj /\ partial = <<>> /\ freel = <<>>
       /\ \E s \in Pages \ slabs :
            /\ o = <<s, 1>>
            /\ slabs' = slabs \cup {s}
            /\ nxt' = [x \in Objs |-> IF x[1] = s THEN Chain(s, x) ELSE nxt[x]]
            /\ sfree' = [sfree EXCEPT ![s] = Chain(s, o)]
            /\ inuse' = [inuse EXCEPT ![s] = 1]
            /\ IF SlabObjs = 1 THEN partial' = partial /\ full' = Append(full, s)
               ELSE partial' = Append(partial, s) /\ full' = full
            /\ UNCHANGED <<cfree, freel, panicked>>
    \/ /\ cfree = NoObj /\ partial = <<>> /\ freel = <<>>
       /\ o = NoObj
       /\ UNCHANGED <<cfree, nxt, partial, full, freel, sfree, inuse, slabs, panicked>>

(* Mutant: a slab that was full is left on the full list.                  *)
RefileStayFull(s, n) ==
    IF n = 0
    THEN LET P == Remove(partial, s)
             L == Remove(freel, s)
         IN /\ partial' = P /\ full' = Remove(full, s)
            /\ IF Len(P) + Len(L) >= MIN_AVAIL_SLAB
               THEN freel' = L /\ slabs' = slabs \ {s}
               ELSE freel' = Append(L, s) /\ slabs' = slabs
    ELSE UNCHANGED <<partial, full, freel, slabs>>

(* Lines 253-273, slab s having n objects in use after a free: a slab     *)
(* that was full moves to the partial tail; an empty one leaves its list  *)
(* and is kfree'd if the partial and free lists hold MIN_AVAIL_SLAB slabs *)
(* already, else it goes on the free tail.                                 *)
Refile(s, n) ==
    LET P1 == IF n = SlabObjs - 1 THEN Append(Remove(partial, s), s) ELSE partial
        F1 == IF n = SlabObjs - 1 THEN Remove(full, s) ELSE full
        P == IF n = 0 THEN Remove(P1, s) ELSE P1
        L == Remove(freel, s)
    IN /\ partial' = P /\ full' = F1
       /\ IF n # 0 THEN UNCHANGED <<freel, slabs>>
          ELSE IF Len(P) + Len(L) >= MIN_AVAIL_SLAB
               THEN freel' = L /\ slabs' = slabs \ {s}
               ELSE freel' = Append(L, s) /\ slabs' = slabs

(* kmem_cache_free (lines 220-276): an object inside the cache's page is   *)
(* pushed on the cache's freelist; any other one on the freelist of the   *)
(* slab that is its page, whose in_use drops before it is refiled.  There *)
(* is no check that the object is allocated.  in_use is a uint: below 0   *)
(* it wraps to UINT_MAX, which -1 stands for here, since it compares and  *)
(* increments alike.                                                       *)
KmemCacheFree(o) ==
    IF o[1] = CachePage
    THEN /\ nxt' = [nxt EXCEPT ![o] = cfree]
         /\ cfree' = o
         /\ UNCHANGED <<partial, full, freel, sfree, inuse, slabs, panicked>>
    ELSE \E n \in {inuse[o[1]] - 1} :
         /\ nxt' = [nxt EXCEPT ![o] = sfree[o[1]]]
         /\ sfree' = [sfree EXCEPT ![o[1]] = o]
         /\ inuse' = [inuse EXCEPT ![o[1]] = n]
         /\ Refile(o[1], n)
         /\ UNCHANGED <<cfree, panicked>>

=============================================================================
