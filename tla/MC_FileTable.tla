--------------------------- MODULE MC_FileTable ---------------------------
(***************************************************************************)
(* Two threads share a file cache whose own page holds one object and     *)
(* whose slabs hold two, with two pages kalloc can give it: enough for a  *)
(* slab to fill, empty, be kept on the free list and be kfree'd, and for  *)
(* kalloc to run out.  fileread and filewrite go through the cache page's  *)
(* object, which both threads can hold at once by filedup; opens through   *)
(* any object may truncate the file under it.                              *)
(***************************************************************************)
EXTENDS FileTable

MCIOObjs == ObjsOf(CachePage)

MCSymmetry == Permutations(Threads) \cup Permutations(Pages)

=============================================================================
