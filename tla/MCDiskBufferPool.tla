------------------------- MODULE MCDiskBufferPool -------------------------
(* The buffer pool on small instances. *)
EXTENDS DiskBufferPool, TLC

CONSTANT Long   \* the files that are not short

(* Bound: a short file gets one data page, keeps it, and then stays open   *)
(* with its header not flushed.                                            *)
ShortFiles ==
  \A f \in Files \ Long :
    IF HdrId(f) \in Cached
    THEN /\ Hdr(f).page_count <= 2 /\ Hdr(f).allocated_pages = Hdr(f).page_count
         /\ disk[HdrId(f)] = NewHeader
    ELSE disk[<<f, 1>>] = Absent

(* Bound: one entry of the map is stale at a time. *)
OneDangling == Cardinality(dangling) <= 1

(* Which descriptor a file gets does not matter, only whether the map has  *)
(* an entry for it.                                                        *)
FdSymmetry == Permutations(Fds)
=============================================================================
