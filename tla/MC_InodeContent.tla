-------------------------- MODULE MC_InodeContent --------------------------
(***************************************************************************)
(* Two inodes on a disk of five blocks (block 0 reserved by mkfs), blocks  *)
(* of two bytes, one direct and two indirect addresses: each file can     *)
(* grow to three data blocks plus its indirect block, so two files can    *)
(* exhaust the disk.                                                       *)
(***************************************************************************)
EXTENDS InodeContent

MCMeta == {0}
MCVals == {1, 3}

=============================================================================
