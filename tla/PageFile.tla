------------------------------ MODULE PageFile ------------------------------
(***************************************************************************)
(* The header page of a paged file (BPFileHeader, disk_buffer_pool.h:55)   *)
(* and the operations of DiskBufferPool and BufferPoolManager that change  *)
(* it.  The header is page 0 of the file; its bitmap is modelled by the    *)
(* set of the page numbers whose bit is set.  Every module that keeps a    *)
(* paged file (the buffer pool, the record manager, recovery) uses these   *)
(* operators, so the allocation rules are written once.                    *)
(***************************************************************************)
EXTENDS Integers, FiniteSets

CONSTANT MaxPageNum   \* BPFileHeader::MAX_PAGE_NUM, the bits in the bitmap

ASSUME MaxPageNumAssumption == MaxPageNum \in Nat /\ MaxPageNum >= 2

PageNum == 0 .. MaxPageNum - 1

\* static const PageNum BP_HEADER_PAGE = 0
HeaderPage == 0

\* Both counters are int32_t; page_count only grows, allocated_pages can be driven
\* below zero.  Bit 0 is always set.
FileHeader ==
  [page_count : Nat \ {0}, allocated_pages : Int,
   bitmap : {b \in SUBSET PageNum : HeaderPage \in b}]

-----------------------------------------------------------------------------

(* BufferPoolManager::create_file writes this header. *)
NewHeader == [page_count |-> 1, allocated_pages |-> 1, bitmap |-> {HeaderPage}]

(* The bits the search of allocate_page looks at, and the clear ones.      *)
ClearBits(h) == {p \in PageNum : p < h.page_count /\ p \notin h.bitmap}

(* allocate_page looks for a clear bit only if the two counters differ.    *)
HasFreePage(h) == h.allocated_pages < h.page_count /\ ClearBits(h) # {}

(* The search runs upwards from 0.                                         *)
FirstFreePage(h) == CHOOSE p \in ClearBits(h) : \A q \in ClearBits(h) : p <= q

(* allocate_page, first half: a free page of the file is handed out again. *)
ReusePage(h, p) ==
  [page_count |-> h.page_count,
   allocated_pages |-> h.allocated_pages + 1,
   bitmap |-> h.bitmap \cup {p}]

(* allocate_page, second half: the file grows by the page page_count.      *)
FileIsFull(h) == h.page_count >= MaxPageNum

ExtendFile(h) ==
  [page_count |-> h.page_count + 1,
   allocated_pages |-> h.allocated_pages + 1,
   bitmap |-> h.bitmap \cup {h.page_count}]

\* Mutant: the bit is cleared and the counter forgotten.
ReleasePageKeepsCount(h, p) ==
  [page_count |-> h.page_count,
   allocated_pages |-> h.allocated_pages,
   bitmap |-> h.bitmap \ {p}]

(* dispose_page after a successful purge.  It does not look whether the    *)
(* bit was set: the counter goes down all the same.                        *)
ReleasePage(h, p) ==
  [page_count |-> h.page_count,
   allocated_pages |-> h.allocated_pages - 1,
   bitmap |-> h.bitmap \ {p}]

(* recover_page: log replay names a page this header does not know.        *)
RecoverPageBit(h, p) ==
  IF p \in h.bitmap THEN h
  ELSE [page_count |-> h.page_count + 1,
        allocated_pages |-> h.allocated_pages + 1,
        bitmap |-> h.bitmap \cup {p}]

\* Mutant: the iteration starts at the header page.
IteratedPagesAndHeader(h) == {p \in h.bitmap : p < h.page_count}

(* BufferPoolIterator: the pages a scan of the file visits.                *)
IteratedPages(h) == {p \in h.bitmap : p # HeaderPage /\ p < h.page_count}

-----------------------------------------------------------------------------

(* What the comments on BPFileHeader say of its fields: allocated_pages    *)
(* "how many pages have been allocated", page_count "how many pages the    *)
(* file has", bit 0 "always 1" (disk_buffer_pool.h:56-58).                 *)
ExactHeader(h) ==
  /\ h.page_count \in 1 .. MaxPageNum
  /\ h.bitmap \subseteq 0 .. h.page_count - 1
  /\ h.allocated_pages = Cardinality(h.bitmap)
=============================================================================
