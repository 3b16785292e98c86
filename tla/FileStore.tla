----------------------------- MODULE FileStore -----------------------------
(***************************************************************************)
(* What the inode content layer promises (spec section 4.3), with blocks  *)
(* and the bitmap left out: each inode holds a sequence of bytes.  A      *)
(* write at an offset within the file replaces bytes from there on and    *)
(* may extend the file, never shrink it; it may stop after any prefix of  *)
(* its bytes (a failed copy from user space), and the disk filling up     *)
(* halts the system, which is a fatal error.  Truncation empties the      *)
(* file.  Reads change nothing.                                            *)
(***************************************************************************)
EXTENDS Naturals, Sequences

CONSTANTS
    Inos,       \* the inodes
    MaxSize,    \* MAXFILE * BSIZE
    Vals        \* the byte values writes store

VARIABLES
    data,       \* data[i]: the bytes of inode i
    down        \* a fatal error has stopped the system

Init == data = [i \in Inos |-> <<>>] /\ down = FALSE

(* The bytes of d with k bytes v written at offset off: all of a write's   *)
(* bytes, or the prefix done before the write stopped.                     *)
Written(d, off, k, v) ==
    [o \in 1 .. (IF off + k > Len(d) THEN off + k ELSE Len(d)) |->
        IF off < o /\ o <= off + k THEN v ELSE d[o]]

(* A write of v at offset off of inode i; the step may end the system.    *)
Write(i, off, v) ==
    /\ ~down /\ off <= Len(data[i])
    /\ data' \in {[data EXCEPT ![i] = Written(@, off, k, v)] : k \in 0 .. MaxSize - off}
    /\ down' \in BOOLEAN

(* A read returns bytes of data[i] and changes nothing.                     *)
Read(i) == ~down /\ UNCHANGED <<data, down>>

Truncate(i) == ~down /\ data' = [data EXCEPT ![i] = <<>>] /\ UNCHANGED down

Next ==
    \E i \in Inos :
        \/ Read(i)
        \/ Truncate(i)
        \/ \E off \in 0 .. Len(data[i]), v \in Vals : Write(i, off, v)

Spec == Init /\ [][Next]_<<data, down>>

=============================================================================
