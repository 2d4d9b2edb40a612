------------------------ MODULE DiskBufferPoolProofs ------------------------
(***************************************************************************)
(* Theorems about the buffer pool, for any files, page numbers, pool size  *)
(* and page contents: what the operations on the header of a file keep,    *)
(* the types and the safety of the pool, and that it implements PageStore. *)
(***************************************************************************)
EXTENDS DiskBufferPool, FiniteSetTheorems, WellFoundedInduction, TLAPS

-----------------------------------------------------------------------------
(* The operations on the header of a file. *)

(* The bitmap of a header is a finite set, and so is any part of PageNum.  *)
LEMMA PageNumFinite ==
  ASSUME NEW S \in SUBSET PageNum
  PROVE  IsFiniteSet(S) /\ Cardinality(S) \in Nat
<1>1. IsFiniteSet(PageNum)
  BY MaxPageNumAssumption, FS_Interval, SMT DEF PageNum
<1> QED BY <1>1, FS_Subset, FS_CardinalityType

(* The search of allocate_page finds a page if some bit is clear, and that *)
(* page is free.                                                           *)
LEMMA FirstFreePageIsFree ==
  ASSUME NEW h \in FileHeader, HasFreePage(h)
  PROVE  FirstFreePage(h) \in ClearBits(h)
<1> DEFINE T == ClearBits(h)
           R == OpToRel(<, Nat)
<1>1. T \subseteq Nat /\ T # {}
  BY MaxPageNumAssumption, SMT DEF HasFreePage, ClearBits, PageNum
<1>2. IsWellFoundedOn(R, Nat)
  BY NatLessThanWellFounded
<1> HIDE DEF R
<1>3. PICK p \in T : \A q \in T : ~ (<<q, p>> \in R)
  BY <1>1, <1>2, WFMin
<1>4. \A q \in T : p <= q
  <2> SUFFICES ASSUME NEW q \in T PROVE p <= q
    OBVIOUS
  <2>1. p \in Nat /\ q \in Nat
    BY <1>1
  <2>2. ~ (<<q, p>> \in R)
    BY <1>3
  <2>3. ~ (q < p)
    BY <2>1, <2>2 DEF R, OpToRel
  <2> QED BY <2>1, <2>3, SMT
<1> QED BY <1>3, <1>4 DEF FirstFreePage

(* Handing out a free page keeps the counters exact. *)
LEMMA ReuseExact ==
  ASSUME NEW h \in FileHeader, ExactHeader(h), NEW p \in ClearBits(h)
  PROVE  ReusePage(h, p) \in FileHeader /\ ExactHeader(ReusePage(h, p))
<1>1. /\ IsFiniteSet(h.bitmap)
      /\ Cardinality(h.bitmap \cup {p}) = Cardinality(h.bitmap) + 1
      /\ Cardinality(h.bitmap) \in Nat
  BY PageNumFinite, FS_AddElement DEF FileHeader, ClearBits
<1>2. ReusePage(h, p) \in FileHeader
  BY SMT DEF FileHeader, ReusePage, ClearBits
<1>3. /\ ReusePage(h, p).page_count = h.page_count
      /\ ReusePage(h, p).allocated_pages = h.allocated_pages + 1
      /\ ReusePage(h, p).bitmap = h.bitmap \cup {p}
  BY DEF ReusePage, FileHeader
<1>4. p \in 0 .. h.page_count - 1
  BY MaxPageNumAssumption, SMT DEF ClearBits, PageNum, FileHeader
<1> QED BY <1>1, <1>2, <1>3, <1>4 DEF ExactHeader

(* Extending the file keeps the counters exact, and the new page is not    *)
(* one of the pages the file had.                                          *)
LEMMA ExtendExact ==
  ASSUME NEW h \in FileHeader, ExactHeader(h), ~ FileIsFull(h)
  PROVE  /\ ExtendFile(h) \in FileHeader /\ ExactHeader(ExtendFile(h))
         /\ h.page_count \in PageNum \ h.bitmap
<1>1. h.page_count \in PageNum /\ h.page_count \notin h.bitmap
  BY MaxPageNumAssumption, SMT DEF FileHeader, ExactHeader, FileIsFull, PageNum
<1>2. /\ IsFiniteSet(h.bitmap)
      /\ Cardinality(h.bitmap \cup {h.page_count}) = Cardinality(h.bitmap) + 1
      /\ Cardinality(h.bitmap) \in Nat
  BY <1>1, PageNumFinite, FS_AddElement DEF FileHeader
<1>3. /\ ExtendFile(h).page_count = h.page_count + 1
      /\ ExtendFile(h).allocated_pages = h.allocated_pages + 1
      /\ ExtendFile(h).bitmap = h.bitmap \cup {h.page_count}
  BY DEF ExtendFile
<1>4. h.page_count + 1 <= MaxPageNum
  BY MaxPageNumAssumption, SMT DEF FileHeader, FileIsFull
<1>5. ExactHeader(ExtendFile(h))
  BY <1>1, <1>2, <1>3, <1>4, MaxPageNumAssumption, SMT
     DEF FileHeader, ExactHeader, PageNum, HeaderPage
<1>6. ExtendFile(h) \in FileHeader
  BY <1>1, SMT DEF ExtendFile, FileHeader
<1> QED BY <1>1, <1>5, <1>6

(* Disposing of an allocated page keeps the counters exact.  The           *)
(* hypothesis that the page is allocated is the caller's to keep.          *)
LEMMA ReleaseExact ==
  ASSUME NEW h \in FileHeader, ExactHeader(h), NEW p \in h.bitmap \ {HeaderPage}
  PROVE  ReleasePage(h, p) \in FileHeader /\ ExactHeader(ReleasePage(h, p))
<1>1. /\ IsFiniteSet(h.bitmap)
      /\ Cardinality(h.bitmap \ {p}) = Cardinality(h.bitmap) - 1
      /\ Cardinality(h.bitmap) \in Nat
  BY PageNumFinite, FS_RemoveElement DEF FileHeader
<1>2. ReleasePage(h, p) \in FileHeader
  BY SMT DEF FileHeader, ReleasePage
<1>3. /\ ReleasePage(h, p).page_count = h.page_count
      /\ ReleasePage(h, p).allocated_pages = h.allocated_pages - 1
      /\ ReleasePage(h, p).bitmap = h.bitmap \ {p}
  BY DEF ReleasePage, FileHeader
<1> QED BY <1>1, <1>2, <1>3 DEF ExactHeader

(* Replaying the page at the end of the file keeps the counters exact.     *)
LEMMA RecoverInOrderExact ==
  ASSUME NEW h \in FileHeader, ExactHeader(h), NEW p \in PageNum,
         p = h.page_count
  PROVE  /\ RecoverPageBit(h, p) \in FileHeader
         /\ ExactHeader(RecoverPageBit(h, p))
<1>1. ~ FileIsFull(h)
  BY MaxPageNumAssumption, SMT DEF FileHeader, FileIsFull, PageNum
<1>2. p \notin h.bitmap
  BY <1>1, ExtendExact
<1>3. RecoverPageBit(h, p) = ExtendFile(h)
  BY <1>2 DEF RecoverPageBit, ExtendFile
<1> QED BY <1>1, <1>3, ExtendExact

(* Every header operation gives a header again, exact or not. *)
LEMMA HeaderTypes ==
  ASSUME NEW h \in FileHeader, NEW p \in PageNum
  PROVE  /\ ReusePage(h, p) \in FileHeader
         /\ p # HeaderPage => ReleasePage(h, p) \in FileHeader
         /\ RecoverPageBit(h, p) \in FileHeader
BY SMT DEF FileHeader, ReusePage, ReleasePage, RecoverPageBit

LEMMA ExtendType ==
  ASSUME NEW h \in FileHeader, ~ FileIsFull(h)
  PROVE  /\ h.page_count \in PageNum \ {HeaderPage}
         /\ ExtendFile(h) \in FileHeader
<1>1. h.page_count \in PageNum \ {HeaderPage}
  BY MaxPageNumAssumption, SMT DEF FileHeader, FileIsFull, PageNum, HeaderPage
<1> QED BY <1>1, SMT DEF FileHeader, ExtendFile

(* A new file's header is exact. *)
LEMMA NewHeaderExact ==
  NewHeader \in FileHeader /\ ExactHeader(NewHeader)
<1>1. Cardinality({HeaderPage}) = 1
  BY FS_Singleton
<1> QED BY <1>1, MaxPageNumAssumption, SMT
        DEF NewHeader, FileHeader, ExactHeader, PageNum, HeaderPage

-----------------------------------------------------------------------------
(* The invariant of the pool. *)

(* A cached page belongs to an open file whose header page is on disk, and *)
(* the header frame of an open file is cached and pinned.  Eviction takes  *)
(* unpinned frames only, so it never takes a header.                       *)
Backed ==
  \A id \in Cached : id[1] \in opened /\ disk[HdrId(id[1])] # Absent

HdrPinned ==
  \A f \in opened : HdrId(f) \in Cached /\ frame[HdrId(f)].pin > 0

TypeInv == PagesOK /\ Backed /\ HdrPinned

LEMMA FrameIdFinite ==
  ASSUME NEW S \in SUBSET FrameId
  PROVE  IsFiniteSet(S) /\ Cardinality(S) \in Nat
<1>1. IsFiniteSet(FrameId)
  BY PoolAssumption, PageNumFinite, FS_Product DEF FrameId
<1> QED BY <1>1, FS_Subset, FS_CardinalityType

LEMMA RankedType ==
  ASSUME NEW kept \in SUBSET FrameId, NEW a
  PROVE  Ranked(kept, a) \in [FrameId -> Nat]
<1>1. ASSUME NEW id \in FrameId
      PROVE  Cardinality({x \in kept : a[x] < a[id]}) \in Nat
  BY FrameIdFinite
<1> QED BY <1>1 DEF Ranked

LEMMA TouchedType ==
  ASSUME NEW id PROVE Touched(id) \in [FrameId -> Nat]
BY RankedType DEF Touched, Cached

LEMMA HdrIdType ==
  ASSUME NEW f \in Files
  PROVE  HdrId(f) \in FrameId /\ HdrId(f)[1] = f /\ HdrId(f)[2] = HeaderPage
BY MaxPageNumAssumption, SMT DEF HdrId, FrameId, PageNum, HeaderPage

(* Evicted frames are unpinned cached frames. *)
LEMMA RoomIsEvictable ==
  ASSUME NEW gone \in RoomChoices
  PROVE  gone \subseteq Evictable /\ gone \subseteq Cached /\ gone \subseteq FrameId
BY DEF RoomChoices, IsVictim, Evictable, Cached

(* Writing frames back gives files again, with headers in page 0. *)
LEMMA WriteBackType ==
  ASSUME TypeInv, NEW ids \in SUBSET Cached
  PROVE  /\ WriteBack(ids) \in [FrameId -> PageData \cup {Absent, Hole}]
         /\ \A f \in Files :
              /\ WriteBack(ids)[HdrId(f)] \in FileHeader \cup {Absent}
              /\ disk[HdrId(f)] # Absent => WriteBack(ids)[HdrId(f)] # Absent
<1>1. \A id \in ids : id \in FrameId /\ frame[id] \in Frame /\ frame[id].data \in PageData
  BY DEF TypeInv, PagesOK, Cached, Frame
<1>2. WriteBack(ids) \in [FrameId -> PageData \cup {Absent, Hole}]
  BY <1>1 DEF WriteBack, TypeInv, PagesOK, PageData
<1>3. ASSUME NEW f \in Files
      PROVE  /\ WriteBack(ids)[HdrId(f)] \in FileHeader \cup {Absent}
             /\ disk[HdrId(f)] # Absent => WriteBack(ids)[HdrId(f)] # Absent
  <2>1. HdrId(f) \in FrameId /\ HdrId(f)[1] = f
    BY HdrIdType
  <2>2. CASE HdrId(f) \in ids
    <3>1. WriteBack(ids)[HdrId(f)] = frame[HdrId(f)].data
      BY <2>1, <2>2 DEF WriteBack
    <3>2. frame[HdrId(f)] # NoFrame
      BY <2>2 DEF Cached
    <3>3. frame[HdrId(f)].data \in FileHeader
      BY <3>2 DEF TypeInv, PagesOK, HdrId
    <3> QED BY <3>1, <3>3, ValuesAssumption
  <2>3. CASE HdrId(f) \notin ids
    <3>1. ~ (disk[HdrId(f)] = Absent /\ \E x \in ids : x[1] = f)
      BY DEF TypeInv, Backed
    <3>2. WriteBack(ids)[HdrId(f)] = disk[HdrId(f)]
      BY <2>1, <2>3, <3>1 DEF WriteBack
    <3> QED BY <3>2 DEF TypeInv, PagesOK, HdrId
  <2> QED BY <2>2, <2>3
<1> QED BY <1>2, <1>3

(* The frames an action builds are frames. *)
LEMMA FrameTypes ==
  ASSUME TypeInv, NEW id \in Cached
  PROVE  /\ frame[id] \in Frame
         /\ \A v \in PageData : Modified(id, v) \in Frame
         /\ Cleaned(id) \in Frame
         /\ Repinned(id, 1) \in Frame
         /\ frame[id].pin >= 1 => Repinned(id, -1) \in Frame
<1>1. frame[id] \in Frame
  BY DEF TypeInv, PagesOK, Cached
<1> QED BY <1>1, SMT DEF Frame, Modified, Cleaned, Repinned

LEMMA PinnedFrameType ==
  ASSUME NEW d \in PageData
  PROVE  PinnedFrame(d) \in Frame /\ PinnedFrame(d).pin > 0 /\ PinnedFrame(d).data = d
BY SMT DEF PinnedFrame, Frame

LEMMA FrameIsNotNoFrame == NoFrame \notin Frame
BY ValuesAssumption DEF Frame, PageData

(* Freeing frames that are not pinned headers leaves a frame table. *)
LEMMA FreedType ==
  ASSUME TypeInv, NEW gone \in SUBSET FrameId
  PROVE  /\ FreedFrames(gone) \in [FrameId -> Frame \cup {NoFrame}]
         /\ \A id \in FrameId :
              FreedFrames(gone)[id] = IF id \in gone THEN NoFrame ELSE frame[id]
BY DEF FreedFrames, TypeInv, PagesOK

(* The header of an open file. *)
LEMMA OpenHeader ==
  ASSUME TypeInv, NEW f \in opened
  PROVE  /\ f \in Files
         /\ HdrId(f) \in Cached
         /\ Hdr(f) \in FileHeader
         /\ disk[HdrId(f)] # Absent
         /\ \A h \in FileHeader :
              /\ HdrFrame(f, h) \in Frame
              /\ HdrFrame(f, h).data = h
              /\ HdrFrame(f, h).pin > 0
<1>1. f \in Files /\ HdrId(f) \in Cached
  BY DEF TypeInv, PagesOK, HdrPinned
<1>2. Hdr(f) \in FileHeader
  BY <1>1 DEF TypeInv, PagesOK, Hdr, HdrId, Cached
<1>3. disk[HdrId(f)] # Absent
  BY <1>1, HdrIdType DEF TypeInv, Backed
<1>4. frame[HdrId(f)] \in Frame /\ frame[HdrId(f)].pin > 0
  BY <1>1 DEF TypeInv, PagesOK, HdrPinned, Cached
<1> QED BY <1>1, <1>2, <1>3, <1>4, SMT
        DEF HdrFrame, Modified, Frame, PageData

(* A step assembled from a new frame table, LRU list and files keeps       *)
(* TypeInv if no frame appears outside the open files, no header frame is  *)
(* dropped or unpinned, and headers stay headers.                          *)
LEMMA KeepsTypeInv ==
  ASSUME TypeInv,
         frame' \in [FrameId -> Frame \cup {NoFrame}],
         age' \in [FrameId -> Nat],
         disk' \in [FrameId -> PageData \cup {Absent, Hole}],
         opened' \subseteq Files,
         disposed' \in [Files -> SUBSET PageNum],
         \A f \in Files :
           /\ disk'[HdrId(f)] \in FileHeader \cup {Absent}
           /\ frame'[HdrId(f)] = NoFrame \/ frame'[HdrId(f)].data \in FileHeader,
         \A f \in opened' :
           /\ disk'[HdrId(f)] # Absent
           /\ frame'[HdrId(f)] # NoFrame
           /\ frame'[HdrId(f)].pin > 0,
         \A id \in FrameId : frame'[id] # NoFrame => id[1] \in opened'
  PROVE  TypeInv'
<1>1. PagesOK'
  BY DEF PagesOK, HdrId
<1>2. Backed'
  BY DEF Backed, Cached, HdrId
<1>3. HdrPinned'
  BY HdrIdType DEF HdrPinned, Cached, HdrId
<1> QED BY <1>1, <1>2, <1>3 DEF TypeInv

(* The files after frames were purged, with what KeepsTypeInv asks of them. *)
LEMMA EvictionDisk ==
  ASSUME TypeInv, NEW ids \in SUBSET Cached, disk' = WriteBack(DirtyOf(ids))
  PROVE  /\ disk' \in [FrameId -> PageData \cup {Absent, Hole}]
         /\ \A f \in Files : disk'[HdrId(f)] \in FileHeader \cup {Absent}
         /\ \A f \in opened : disk'[HdrId(f)] # Absent
<1>1. DirtyOf(ids) \in SUBSET Cached
  BY DEF DirtyOf
<1> QED BY <1>1, WriteBackType, OpenHeader

LEMMA HeadersOnDisk ==
  ASSUME TypeInv
  PROVE  /\ opened \subseteq Files
         /\ \A f \in Files : disk[HdrId(f)] \in FileHeader \cup {Absent}
         /\ \A f \in opened : disk[HdrId(f)] # Absent
BY OpenHeader DEF TypeInv, PagesOK, HdrId

(* The files after a victim was written, to its own file or to another:    *)
(* no header is a victim, so every header on disk is what it was.          *)
LEMMA EvictedHeaders ==
  ASSUME TypeInv, NEW gone \in RoomChoices, NEW d \in EvictedDisks(gone)
  PROVE  /\ d \in [FrameId -> PageData \cup {Absent, Hole}]
         /\ \A f \in Files : d[HdrId(f)] = disk[HdrId(f)]
<1>1. /\ gone \subseteq Evictable /\ gone \subseteq Cached /\ gone \subseteq FrameId
      /\ DirtyOf(gone) \in SUBSET Cached /\ DirtyOf(gone) \subseteq gone
  BY RoomIsEvictable DEF DirtyOf
<1>2. ASSUME NEW x \in gone PROVE x[2] # HeaderPage /\ x[2] \in PageNum
  <2>1. x \in FrameId /\ x[1] \in opened /\ frame[x].pin = 0
    BY <1>1 DEF TypeInv, Backed, Evictable
  <2>2. x = <<x[1], x[2]>> /\ x[2] \in PageNum
    BY <2>1 DEF FrameId
  <2>3. frame[HdrId(x[1])].pin > 0 /\ frame[HdrId(x[1])] \in Frame
    BY <2>1 DEF TypeInv, PagesOK, HdrPinned, Cached
  <2> QED BY <2>1, <2>2, <2>3, SMT DEF HdrId, Frame
<1>3. CASE d = WriteBack(DirtyOf(gone))
  <2>1. d \in [FrameId -> PageData \cup {Absent, Hole}]
    BY <1>1, <1>3, WriteBackType
  <2>2. ASSUME NEW f \in Files PROVE d[HdrId(f)] = disk[HdrId(f)]
    <3>1. HdrId(f) \in FrameId /\ HdrId(f)[1] = f /\ HdrId(f) \notin DirtyOf(gone)
      BY <1>1, <1>2, HdrIdType
    <3>2. ~ (disk[HdrId(f)] = Absent /\ \E x \in DirtyOf(gone) : x[1] = f)
      BY <1>1 DEF TypeInv, Backed
    <3> QED BY <1>3, <3>1, <3>2 DEF WriteBack
  <2> QED BY <2>1, <2>2
<1>4. CASE d # WriteBack(DirtyOf(gone))
  <2>1. PICK v \in DirtyOf(gone), g \in opened : d = Written(disk, <<g, v[2]>>, frame[v].data)
    BY <1>4 DEF EvictedDisks
  <2>2. frame[v].data \in PageData /\ v[2] # HeaderPage /\ v[2] \in PageNum
    BY <1>1, <1>2 DEF TypeInv, PagesOK, Cached, Frame
  <2>3. d \in [FrameId -> PageData \cup {Absent, Hole}]
    BY <2>1, <2>2 DEF Written, TypeInv, PagesOK
  <2>4. ASSUME NEW f \in Files PROVE d[HdrId(f)] = disk[HdrId(f)]
    <3>1. HdrId(f) \in FrameId /\ HdrId(f)[1] = f /\ HdrId(f) # <<g, v[2]>>
      BY <2>2, HdrIdType
    <3>2. ~ (disk[HdrId(f)] = Absent /\ f = g)
      BY OpenHeader
    <3> QED BY <2>1, <3>1, <3>2 DEF Written
  <2> QED BY <2>3, <2>4
<1> QED BY <1>3, <1>4

(* get_this_page on a page that is not cached, with the header frame set   *)
(* to another header frame or left as it is.                               *)
LEMMA LoadPageType ==
  ASSUME TypeInv, NEW f \in opened, NEW p \in PageNum, p # HeaderPage,
         NEW hdr \in Frame, hdr.data \in FileHeader, hdr.pin > 0,
         LoadPage(f, p, hdr), UNCHANGED <<opened, disposed>>
  PROVE  TypeInv'
<1> DEFINE id == <<f, p>>
<1>0. f \in Files /\ opened \subseteq Files
  BY DEF TypeInv, PagesOK
<1>1. id \in FrameId /\ id[1] = f /\ \A g \in Files : HdrId(g) # id
  BY <1>0 DEF FrameId, HdrId
<1>2. PICK gone \in RoomChoices : \E d \in EvictedDisks(gone) :
        /\ disk' = d
        /\ \/ /\ disk'[id] \notin {Absent, Hole}
              /\ frame' = [FreedFrames(gone) EXCEPT
                             ![id] = PinnedFrame(disk'[id]), ![HdrId(f)] = hdr]
              /\ age' = Ranked((Cached \ gone) \cup {id}, ToFront(id))
           \/ /\ frame' = [FreedFrames(gone) EXCEPT ![HdrId(f)] = hdr]
              /\ age' = Ranked(Cached \ gone, age)
  BY DEF LoadPage
<1>3. /\ gone \subseteq Evictable /\ gone \subseteq Cached /\ gone \subseteq FrameId
  BY RoomIsEvictable
<1>4. /\ disk' \in [FrameId -> PageData \cup {Absent, Hole}]
      /\ \A g \in Files : disk'[HdrId(g)] \in FileHeader \cup {Absent}
      /\ \A g \in opened : disk'[HdrId(g)] # Absent
  BY <1>2, EvictedHeaders, HeadersOnDisk
<1>5. /\ FreedFrames(gone) \in [FrameId -> Frame \cup {NoFrame}]
      /\ \A x \in FrameId :
           FreedFrames(gone)[x] = IF x \in gone THEN NoFrame ELSE frame[x]
  BY <1>3, FreedType
<1>6. \A g \in opened : HdrId(g) \notin gone
  BY <1>3, SMT DEF TypeInv, HdrPinned, Evictable
<1>7. HdrId(f) \in FrameId
  BY <1>0, HdrIdType
<1>8. age' \in [FrameId -> Nat]
  <2>1. (Cached \ gone) \cup {id} \in SUBSET FrameId /\ Cached \ gone \in SUBSET FrameId
    BY <1>1 DEF Cached
  <2> QED BY <1>2, <2>1, RankedType
<1>9. frame' \in [FrameId -> Frame \cup {NoFrame}]
  BY <1>1, <1>2, <1>4, <1>5, <1>7, PinnedFrameType
<1>10. \A x \in FrameId : x # id /\ x # HdrId(f) =>
          frame'[x] = IF x \in gone THEN NoFrame ELSE frame[x]
  BY <1>1, <1>2, <1>5, <1>7
<1>11. frame'[HdrId(f)] = hdr
  BY <1>1, <1>0, <1>2, <1>5, <1>7
<1>12. \A g \in Files :
          frame'[HdrId(g)] = NoFrame \/ frame'[HdrId(g)].data \in FileHeader
  <2> SUFFICES ASSUME NEW g \in Files, g # f
               PROVE  frame'[HdrId(g)] = NoFrame \/ frame'[HdrId(g)].data \in FileHeader
    BY <1>11
  <2>1. HdrId(g) \in FrameId /\ HdrId(g) # id /\ HdrId(g) # HdrId(f)
    BY <1>0, <1>1, HdrIdType
  <2>2. frame[HdrId(g)] = NoFrame \/ frame[HdrId(g)].data \in FileHeader
    BY DEF TypeInv, PagesOK, HdrId
  <2> QED BY <2>1, <2>2, <1>10
<1>13. \A g \in opened : frame'[HdrId(g)] # NoFrame /\ frame'[HdrId(g)].pin > 0
  <2> SUFFICES ASSUME NEW g \in opened, g # f
               PROVE  frame'[HdrId(g)] # NoFrame /\ frame'[HdrId(g)].pin > 0
    BY <1>11, FrameIsNotNoFrame
  <2>1. HdrId(g) \in FrameId /\ HdrId(g) # id /\ HdrId(g) # HdrId(f)
    BY <1>0, <1>1, HdrIdType
  <2>2. frame'[HdrId(g)] = frame[HdrId(g)]
    BY <2>1, <1>6, <1>10
  <2> QED BY <2>2 DEF TypeInv, HdrPinned, Cached
<1>14. \A x \in FrameId : frame'[x] # NoFrame => x[1] \in opened
  BY <1>0, <1>1, <1>10, HdrIdType DEF TypeInv, Backed, Cached
<1>15. opened' = opened /\ disposed' \in [Files -> SUBSET PageNum]
  BY DEF TypeInv, PagesOK
<1> QED
  BY <1>0, <1>4, <1>8, <1>9, <1>12, <1>13, <1>14, <1>15, KeepsTypeInv

(* Steps that change no file: the LRU list and the frames of pages other   *)
(* than headers, or a header frame replaced by a header frame.             *)
LEMMA SetFrameType ==
  ASSUME TypeInv, NEW id \in Cached, NEW fr \in Frame,
         frame' = [frame EXCEPT ![id] = fr],
         id[2] = HeaderPage => fr.data \in FileHeader /\ fr.pin > 0,
         age' \in [FrameId -> Nat],
         disk' \in [FrameId -> PageData \cup {Absent, Hole}],
         \A f \in Files : disk'[HdrId(f)] \in FileHeader \cup {Absent},
         \A f \in opened : disk'[HdrId(f)] # Absent,
         disposed' \in [Files -> SUBSET PageNum],
         UNCHANGED opened
  PROVE  TypeInv'
<1>1. /\ id \in FrameId /\ id[1] \in opened /\ opened \subseteq Files
      /\ frame \in [FrameId -> Frame \cup {NoFrame}]
  BY DEF TypeInv, PagesOK, Backed, Cached
<1>2. frame' \in [FrameId -> Frame \cup {NoFrame}]
  BY <1>1
<1>3. \A x \in FrameId : frame'[x] = IF x = id THEN fr ELSE frame[x]
  BY <1>1
<1>4. \A f \in Files : HdrId(f) \in FrameId /\ HdrId(f)[2] = HeaderPage
  BY HdrIdType
<1>5. \A f \in Files :
        frame'[HdrId(f)] = NoFrame \/ frame'[HdrId(f)].data \in FileHeader
  BY <1>3, <1>4 DEF TypeInv, PagesOK, HdrId
<1>6. \A f \in opened : frame'[HdrId(f)] # NoFrame /\ frame'[HdrId(f)].pin > 0
  BY <1>1, <1>3, <1>4, FrameIsNotNoFrame DEF TypeInv, HdrPinned, Cached
<1>7. \A x \in FrameId : frame'[x] # NoFrame => x[1] \in opened'
  BY <1>1, <1>3 DEF TypeInv, Backed, Cached
<1> QED BY <1>1, <1>2, <1>5, <1>6, <1>7, KeepsTypeInv

(* A step that leaves the files alone meets what is asked of them. *)
LEMMA DiskUnchanged ==
  ASSUME TypeInv, UNCHANGED disk
  PROVE  /\ disk' \in [FrameId -> PageData \cup {Absent, Hole}]
         /\ \A f \in Files : disk'[HdrId(f)] \in FileHeader \cup {Absent}
         /\ \A f \in opened : disk'[HdrId(f)] # Absent
BY OpenHeader DEF TypeInv, PagesOK, HdrId

LEMMA GetThisPageType ==
  ASSUME TypeInv, NEW f \in Files, NEW p \in PageNum, GetThisPage(f, p)
  PROVE  TypeInv'
<1> DEFINE id == <<f, p>>
<1>1. f \in opened /\ p # HeaderPage /\ UNCHANGED <<opened, disposed>>
  BY DEF GetThisPage
<1>2. disposed' \in [Files -> SUBSET PageNum]
  BY <1>1 DEF TypeInv, PagesOK
<1>3. CASE id \in Cached /\ frame' = [frame EXCEPT ![id] = Repinned(id, 1)]
           /\ age' = Touched(id) /\ UNCHANGED disk
  <2>1. age' \in [FrameId -> Nat]
    BY <1>3, TouchedType
  <2>2. Repinned(id, 1) \in Frame
    BY <1>3, FrameTypes
  <2> QED BY <1>1, <1>2, <1>3, <2>1, <2>2, DiskUnchanged, SetFrameType
<1>4. CASE LoadPage(f, p, frame[HdrId(f)])
  <2>1. HdrId(f) \in Cached /\ frame[HdrId(f)].pin > 0
    BY <1>1 DEF TypeInv, HdrPinned
  <2>2. frame[HdrId(f)] \in Frame
    BY <2>1, FrameTypes
  <2>3. frame[HdrId(f)].data \in FileHeader
    BY <1>1, OpenHeader DEF Hdr
  <2> QED BY <1>1, <1>4, <2>1, <2>2, <2>3, LoadPageType
<1> QED BY <1>3, <1>4 DEF GetThisPage

LEMMA ReuseFreePageType ==
  ASSUME TypeInv, NEW f \in Files, ReuseFreePage(f)
  PROVE  TypeInv'
<1> DEFINE p == FirstFreePage(Hdr(f))
           hdr == HdrFrame(f, ReusePage(Hdr(f), p))
<1>1. f \in opened /\ HasFreePage(Hdr(f)) /\ UNCHANGED <<opened, disposed>>
  BY DEF ReuseFreePage
<1>2. Hdr(f) \in FileHeader /\ HdrId(f) \in Cached
  BY <1>1, OpenHeader
<1>3. p \in ClearBits(Hdr(f)) /\ p \in PageNum /\ p # HeaderPage
  BY <1>1, <1>2, FirstFreePageIsFree DEF ClearBits, FileHeader
<1>4. ReusePage(Hdr(f), p) \in FileHeader
  BY <1>2, <1>3, HeaderTypes
<1>5. hdr \in Frame /\ hdr.data \in FileHeader /\ hdr.pin > 0
  BY <1>1, <1>4, OpenHeader
<1>6. disposed' \in [Files -> SUBSET PageNum]
  BY <1>1 DEF TypeInv, PagesOK
<1>7. CASE LoadPage(f, p, hdr)
  BY <1>1, <1>3, <1>5, <1>7, LoadPageType
<1>8. CASE frame' = [frame EXCEPT ![HdrId(f)] = hdr] /\ UNCHANGED <<age, disk>>
  <2>1. age' \in [FrameId -> Nat]
    BY <1>8 DEF TypeInv, PagesOK
  <2> QED BY <1>1, <1>2, <1>5, <1>6, <1>8, <2>1, DiskUnchanged, SetFrameType
<1> QED BY <1>7, <1>8 DEF ReuseFreePage

(* A step that frees frames, none of them the header of a file that stays  *)
(* open.                                                                   *)
LEMMA FreeFramesType ==
  ASSUME TypeInv, NEW gone \in SUBSET FrameId, NEW closed \in SUBSET opened,
         frame' = FreedFrames(gone),
         \A id \in Cached : id[1] \in closed => id \in gone,
         \A f \in opened \ closed : HdrId(f) \notin gone,
         age' \in [FrameId -> Nat],
         disk' \in [FrameId -> PageData \cup {Absent, Hole}],
         \A f \in Files : disk'[HdrId(f)] \in FileHeader \cup {Absent},
         \A f \in opened : disk'[HdrId(f)] # Absent,
         disposed' \in [Files -> SUBSET PageNum],
         opened' = opened \ closed
  PROVE  TypeInv'
<1>1. /\ frame' \in [FrameId -> Frame \cup {NoFrame}]
      /\ \A x \in FrameId : frame'[x] = IF x \in gone THEN NoFrame ELSE frame[x]
  BY FreedType
<1>2. opened' \subseteq Files /\ opened \subseteq Files
  BY DEF TypeInv, PagesOK
<1>3. \A f \in Files : HdrId(f) \in FrameId
  BY HdrIdType
<1>4. \A f \in Files :
        frame'[HdrId(f)] = NoFrame \/ frame'[HdrId(f)].data \in FileHeader
  BY <1>1, <1>3 DEF TypeInv, PagesOK, HdrId
<1>5. \A f \in opened' : frame'[HdrId(f)] # NoFrame /\ frame'[HdrId(f)].pin > 0
  BY <1>1, <1>2, <1>3 DEF TypeInv, HdrPinned, Cached
<1>6. \A x \in FrameId : frame'[x] # NoFrame => x[1] \in opened'
  BY <1>1 DEF TypeInv, Backed, Cached
<1>7. \A f \in opened' : disk'[HdrId(f)] # Absent
  OBVIOUS
<1> QED BY <1>1, <1>2, <1>4, <1>5, <1>6, <1>7, KeepsTypeInv

(* dispose_page after the purge. *)
LEMMA ReleaseType ==
  ASSUME TypeInv, NEW f \in opened, NEW p \in PageNum, p # HeaderPage,
         Release(f, p), UNCHANGED opened,
         disposed' \in [Files -> SUBSET PageNum]
  PROVE  TypeInv'
<1> DEFINE id == <<f, p>>
           hdr == HdrFrame(f, ReleasePage(Hdr(f), p))
<1>0. f \in Files /\ opened \subseteq Files
  BY DEF TypeInv, PagesOK
<1>1. id \in FrameId /\ \A g \in Files : HdrId(g) # id
  BY <1>0 DEF FrameId, HdrId
<1>2. /\ disk' = WriteBack(DirtyOf({id} \cap Cached))
      /\ frame' = [FreedFrames({id}) EXCEPT ![HdrId(f)] = hdr]
      /\ age' = Ranked(Cached \ {id}, age)
  BY DEF Release
<1>3. /\ disk' \in [FrameId -> PageData \cup {Absent, Hole}]
      /\ \A g \in Files : disk'[HdrId(g)] \in FileHeader \cup {Absent}
      /\ \A g \in opened : disk'[HdrId(g)] # Absent
  BY <1>2, EvictionDisk
<1>4. hdr \in Frame /\ hdr.data \in FileHeader /\ hdr.pin > 0
  BY HeaderTypes, OpenHeader
<1>5. age' \in [FrameId -> Nat]
  BY <1>2, RankedType DEF Cached
<1>6. HdrId(f) \in FrameId
  BY <1>0, HdrIdType
<1>7. /\ frame' \in [FrameId -> Frame \cup {NoFrame}]
      /\ \A x \in FrameId :
           frame'[x] = IF x = HdrId(f) THEN hdr
                       ELSE IF x = id THEN NoFrame ELSE frame[x]
  BY <1>1, <1>2, <1>4, <1>6, FreedType
<1>8. \A g \in Files :
        frame'[HdrId(g)] = NoFrame \/ frame'[HdrId(g)].data \in FileHeader
  BY <1>1, <1>4, <1>7, HdrIdType DEF TypeInv, PagesOK, HdrId
<1>9. \A g \in opened : frame'[HdrId(g)] # NoFrame /\ frame'[HdrId(g)].pin > 0
  BY <1>0, <1>1, <1>4, <1>7, HdrIdType, FrameIsNotNoFrame
     DEF TypeInv, HdrPinned, Cached
<1>10. \A x \in FrameId : frame'[x] # NoFrame => x[1] \in opened
  BY <1>0, <1>7, HdrIdType DEF TypeInv, Backed, Cached
<1> QED
  BY <1>0, <1>3, <1>5, <1>7, <1>8, <1>9, <1>10, KeepsTypeInv

LEMMA DisposePageType ==
  ASSUME TypeInv, NEW f \in Files, NEW p \in PageNum, DisposePage(f, p)
  PROVE  TypeInv'
<1> DEFINE id == <<f, p>>
<1>1. f \in opened /\ p # HeaderPage /\ UNCHANGED opened
  BY DEF DisposePage
<1>2. disposed' \in [Files -> SUBSET PageNum]
  BY DEF DisposePage, TypeInv, PagesOK
<1>3. CASE Release(f, p)
  BY <1>1, <1>2, <1>3, ReleaseType
<1>4. CASE id \in Cached /\ age' = Touched(id) /\ UNCHANGED <<frame, disk>>
  <2>1. age' \in [FrameId -> Nat]
    BY <1>4, TouchedType
  <2> QED BY <1>1, <1>2, <1>4, <2>1
          DEF TypeInv, PagesOK, Backed, HdrPinned, Cached, HdrId
<1> QED BY <1>3, <1>4 DEF DisposePage

LEMMA UnpinPageType ==
  ASSUME TypeInv, NEW f \in Files, NEW p \in PageNum, UnpinPage(f, p)
  PROVE  TypeInv'
<1> DEFINE id == <<f, p>>
<1>1. f \in opened /\ p # HeaderPage /\ UNCHANGED opened /\ id \in Cached
      /\ frame[id].pin >= 1 /\ id[2] # HeaderPage
  BY DEF UnpinPage
<1>2. disposed' \in [Files -> SUBSET PageNum]
  BY DEF UnpinPage, TypeInv, PagesOK
<1>3. Repinned(id, -1) \in Frame
  BY <1>1, FrameTypes
<1>4. CASE Release(f, p)
  BY <1>1, <1>2, <1>4, ReleaseType
<1>5. CASE frame' = [frame EXCEPT ![id] = Repinned(id, -1)]
           /\ (age' = age \/ age' = Touched(id)) /\ UNCHANGED disk
  <2>1. age' \in [FrameId -> Nat]
    BY <1>5, TouchedType DEF TypeInv, PagesOK
  <2> QED BY <1>1, <1>2, <1>3, <1>5, <2>1, DiskUnchanged, SetFrameType
<1> QED BY <1>4, <1>5 DEF UnpinPage

LEMMA ExtendWithPageType ==
  ASSUME TypeInv, NEW f \in Files, ExtendWithPage(f)
  PROVE  TypeInv'
<1> DEFINE id == <<f, Hdr(f).page_count>>
           hdr == HdrFrame(f, ExtendFile(Hdr(f)))
<1>0. /\ f \in opened /\ opened \subseteq Files /\ UNCHANGED <<opened, disposed>>
      /\ ~ FileIsFull(Hdr(f))
  BY DEF ExtendWithPage, TypeInv, PagesOK
<1>1. PICK gone \in RoomChoices : \E d \in EvictedDisks(gone) :
        /\ frame' = [FreedFrames(gone) EXCEPT
                       ![id] = PinnedFrame(Zero), ![HdrId(f)] = hdr]
        /\ age' = Ranked((Cached \ gone) \cup {id}, ToFront(id))
        /\ disk' = Written(d, id, Zero) \/ disk' = d
  BY DEF ExtendWithPage
<1>2. gone \subseteq Evictable /\ gone \subseteq Cached /\ gone \subseteq FrameId
  BY RoomIsEvictable
<1>3. /\ Hdr(f) \in FileHeader
      /\ Hdr(f).page_count \in PageNum \ {HeaderPage}
      /\ ExtendFile(Hdr(f)) \in FileHeader
  BY <1>0, OpenHeader, ExtendType
<1>4. hdr \in Frame /\ hdr.data \in FileHeader /\ hdr.pin > 0
  BY <1>0, <1>3, OpenHeader
<1>5. id \in FrameId /\ id[1] = f
  BY <1>3 DEF FrameId
<1>6. /\ HdrId(f) \in FrameId
      /\ \A g \in Files : HdrId(g) # id
      /\ \A g \in Files : g # f => HdrId(g) # HdrId(f)
  BY HdrIdType, <1>3
<1>7. PICK d \in EvictedDisks(gone) : disk' = Written(d, id, Zero) \/ disk' = d
  BY <1>1
<1>8. PinnedFrame(Zero) \in Frame
  BY PinnedFrameType DEF PageData
<1>9. /\ frame' \in [FrameId -> Frame \cup {NoFrame}]
      /\ \A x \in FrameId :
           frame'[x] = IF x = HdrId(f) THEN hdr
                       ELSE IF x = id THEN PinnedFrame(Zero)
                       ELSE IF x \in gone THEN NoFrame ELSE frame[x]
  BY <1>1, <1>2, <1>4, <1>5, <1>6, <1>8, FreedType
<1>10. age' \in [FrameId -> Nat]
  <2>1. (Cached \ gone) \cup {id} \in SUBSET FrameId
    BY <1>5 DEF Cached
  <2> QED BY <1>1, <2>1, RankedType
<1>11. /\ disk' \in [FrameId -> PageData \cup {Absent, Hole}]
       /\ \A g \in Files : disk'[HdrId(g)] \in FileHeader \cup {Absent}
       /\ \A g \in opened : disk'[HdrId(g)] # Absent
  <2>1. /\ d \in [FrameId -> PageData \cup {Absent, Hole}]
        /\ \A g \in Files : d[HdrId(g)] = disk[HdrId(g)]
    BY EvictedHeaders
  <2>2. disk' \in [FrameId -> PageData \cup {Absent, Hole}]
    BY <1>7, <2>1 DEF Written, PageData
  <2>3. ASSUME NEW g \in Files PROVE disk'[HdrId(g)] = disk[HdrId(g)]
    <3>1. HdrId(g) \in FrameId /\ HdrId(g)[1] = g /\ HdrId(g) # id
      BY HdrIdType, <1>6
    <3>2. disk[HdrId(f)] # Absent
      BY <1>0, HeadersOnDisk
    <3> QED BY <1>5, <1>7, <2>1, <3>1, <3>2 DEF Written
  <2> QED BY <1>0, <2>2, <2>3, HeadersOnDisk
<1>12. \A g \in opened : HdrId(g) \notin gone
  BY <1>2, SMT DEF TypeInv, HdrPinned, Evictable
<1>13. \A g \in Files :
         frame'[HdrId(g)] = NoFrame \/ frame'[HdrId(g)].data \in FileHeader
  BY <1>4, <1>6, <1>9, HdrIdType DEF TypeInv, PagesOK, HdrId
<1>14. \A g \in opened : frame'[HdrId(g)] # NoFrame /\ frame'[HdrId(g)].pin > 0
  BY <1>0, <1>4, <1>6, <1>9, <1>12, HdrIdType, FrameIsNotNoFrame
     DEF TypeInv, HdrPinned, Cached
<1>15. \A x \in FrameId : frame'[x] # NoFrame => x[1] \in opened
  BY <1>0, <1>5, <1>9, HdrIdType DEF TypeInv, Backed, Cached
<1>16. disposed' \in [Files -> SUBSET PageNum]
  BY <1>0 DEF TypeInv, PagesOK
<1> QED
  BY <1>0, <1>9, <1>10, <1>11, <1>13, <1>14, <1>15, <1>16, KeepsTypeInv

LEMMA RecoverPageType ==
  ASSUME TypeInv, NEW f \in Files, NEW p \in PageNum, RecoverPage(f, p)
  PROVE  TypeInv'
<1>1. /\ f \in opened /\ p \notin Hdr(f).bitmap /\ UNCHANGED <<opened, disposed>>
      /\ LoadPage(f, p, HdrFrame(f, RecoverPageBit(Hdr(f), p)))
  BY DEF RecoverPage
<1>2. Hdr(f) \in FileHeader /\ RecoverPageBit(Hdr(f), p) \in FileHeader
  BY <1>1, OpenHeader, HeaderTypes
<1>3. p # HeaderPage
  BY <1>1, <1>2 DEF FileHeader
<1> QED BY <1>1, <1>2, <1>3, OpenHeader, LoadPageType

LEMMA OpenFileType ==
  ASSUME TypeInv, NEW f \in Files, OpenFile(f)
  PROVE  TypeInv'
<1> DEFINE id == HdrId(f)
<1>1. f \notin opened /\ disk[id] # Absent /\ opened' = opened \cup {f} /\ UNCHANGED disposed
  BY DEF OpenFile
<1>2. PICK gone \in RoomChoices :
        /\ frame' = [FreedFrames(gone) EXCEPT ![id] = PinnedFrame(disk[id])]
        /\ age' = Ranked((Cached \ gone) \cup {id}, ToFront(id))
        /\ disk' \in EvictedDisks(gone)
  BY DEF OpenFile
<1>3. gone \subseteq Evictable /\ gone \subseteq Cached /\ gone \subseteq FrameId
  BY RoomIsEvictable
<1>4. id \in FrameId /\ disk[id] \in FileHeader /\ opened \subseteq Files
  BY <1>1, HdrIdType DEF TypeInv, PagesOK, HdrId
<1>5. PinnedFrame(disk[id]) \in Frame /\ PinnedFrame(disk[id]).pin > 0
      /\ PinnedFrame(disk[id]).data \in FileHeader
  BY <1>4, PinnedFrameType DEF PageData
<1>6. /\ disk' \in [FrameId -> PageData \cup {Absent, Hole}]
      /\ \A g \in Files : disk'[HdrId(g)] \in FileHeader \cup {Absent}
      /\ \A g \in opened' : disk'[HdrId(g)] # Absent
  BY <1>1, <1>2, <1>4, EvictedHeaders, HeadersOnDisk
<1>7. age' \in [FrameId -> Nat]
  <2>1. (Cached \ gone) \cup {id} \in SUBSET FrameId
    BY <1>4 DEF Cached
  <2> QED BY <1>2, <2>1, RankedType
<1>8. /\ frame' \in [FrameId -> Frame \cup {NoFrame}]
      /\ \A x \in FrameId :
           frame'[x] = IF x = id THEN PinnedFrame(disk[id])
                       ELSE IF x \in gone THEN NoFrame ELSE frame[x]
  BY <1>2, <1>3, <1>4, <1>5, FreedType
<1>9. \A g \in opened : HdrId(g) \notin gone
  BY <1>3, SMT DEF TypeInv, HdrPinned, Evictable
<1>10. \A g \in Files :
         frame'[HdrId(g)] = NoFrame \/ frame'[HdrId(g)].data \in FileHeader
  BY <1>5, <1>8, HdrIdType DEF TypeInv, PagesOK, HdrId
<1>11. \A g \in opened' : frame'[HdrId(g)] # NoFrame /\ frame'[HdrId(g)].pin > 0
  BY <1>1, <1>4, <1>5, <1>8, <1>9, HdrIdType, FrameIsNotNoFrame
     DEF TypeInv, HdrPinned, Cached
<1>12. \A x \in FrameId : frame'[x] # NoFrame => x[1] \in opened'
  BY <1>1, <1>8, HdrIdType DEF TypeInv, Backed, Cached
<1>13. opened' \subseteq Files /\ disposed' \in [Files -> SUBSET PageNum]
  BY <1>1 DEF TypeInv, PagesOK
<1> QED
  BY <1>6, <1>7, <1>8, <1>10, <1>11, <1>12, <1>13, KeepsTypeInv

LEMMA CloseFileType ==
  ASSUME TypeInv, NEW f \in Files, Closed(f)
  PROVE  TypeInv'
<1>1. /\ {f} \in SUBSET opened /\ opened' = opened \ {f}
      /\ frame' = FreedFrames(FileFrames(f)) /\ UNCHANGED disk
      /\ age' = Ranked(Cached \ FileFrames(f), age)
  BY DEF Closed
<1>2. FileFrames(f) \in SUBSET FrameId /\ Cached \ FileFrames(f) \in SUBSET FrameId
  BY DEF FileFrames, Cached
<1>3. \A id \in Cached : id[1] \in {f} => id \in FileFrames(f)
  BY DEF FileFrames
<1>4. \A g \in opened \ {f} : HdrId(g) \notin FileFrames(f)
  BY HdrIdType DEF FileFrames, TypeInv, PagesOK
<1>5. disposed' \in [Files -> SUBSET PageNum]
  BY DEF Closed, TypeInv, PagesOK
<1>6. age' \in [FrameId -> Nat]
  BY <1>1, <1>2, RankedType
<1> QED
  BY <1>1, <1>2, <1>3, <1>4, <1>5, <1>6, DiskUnchanged, FreeFramesType

(* purge_page and purge_all_pages free unpinned frames, written if dirty. *)
LEMMA PurgeType ==
  ASSUME TypeInv, NEW done \in SUBSET Evictable,
         frame' = FreedFrames(done),
         age' = Ranked(Cached \ done, age),
         disk' = WriteBack(DirtyOf(done)),
         UNCHANGED <<opened, disposed>>
  PROVE  TypeInv'
<1>1. done \in SUBSET Cached /\ done \in SUBSET FrameId /\ Cached \ done \in SUBSET FrameId
  BY DEF Evictable, Cached
<1>2. PICK closed \in SUBSET opened : closed = {}
  OBVIOUS
<1>3. \A g \in opened \ closed : HdrId(g) \notin done
  BY SMT DEF TypeInv, HdrPinned, Evictable
<1>4. disposed' \in [Files -> SUBSET PageNum]
  BY DEF TypeInv, PagesOK
<1>5. age' \in [FrameId -> Nat]
  BY <1>1, RankedType
<1>6. /\ opened' = opened \ closed
      /\ \A id \in Cached : id[1] \in closed => id \in done
  BY <1>2
<1>7. /\ disk' \in [FrameId -> PageData \cup {Absent, Hole}]
      /\ \A f \in Files : disk'[HdrId(f)] \in FileHeader \cup {Absent}
      /\ \A f \in opened : disk'[HdrId(f)] # Absent
  BY <1>1, EvictionDisk
<1> QED
  BY <1>1, <1>3, <1>4, <1>5, <1>6, <1>7, FreeFramesType

LEMMA FlushPageType ==
  ASSUME TypeInv, NEW f \in Files, NEW p \in PageNum, FlushPage(f, p)
  PROVE  TypeInv'
<1> DEFINE id == <<f, p>>
<1>1. /\ id \in Cached /\ id[2] # HeaderPage /\ UNCHANGED <<age, opened, disposed>>
      /\ frame' = [frame EXCEPT ![id] = Cleaned(id)] /\ disk' = WriteBack({id})
  BY DEF FlushPage
<1>2. Cleaned(id) \in Frame
  BY <1>1, FrameTypes
<1>3. /\ disk' \in [FrameId -> PageData \cup {Absent, Hole}]
      /\ \A g \in Files : disk'[HdrId(g)] \in FileHeader \cup {Absent}
      /\ \A g \in opened : disk'[HdrId(g)] # Absent
  BY <1>1, WriteBackType, OpenHeader
<1>4. age' \in [FrameId -> Nat] /\ disposed' \in [Files -> SUBSET PageNum]
  BY <1>1 DEF TypeInv, PagesOK
<1> QED BY <1>1, <1>2, <1>3, <1>4, SetFrameType

(* What either loop has been through is a set of the frames it goes over.  *)
LEMMA LoopedOverSubset ==
  ASSUME NEW ids, NEW written, NEW done \in LoopedOver(ids, written)
  PROVE  done \subseteq ids
BY DEF LoopedOver

LEMMA FlushAllPagesType ==
  ASSUME TypeInv, NEW f \in Files, FlushAllPages(f)
  PROVE  TypeInv'
<1>1. PICK done \in LoopedOver(FileFrames(f), FileFrames(f)) :
        /\ frame' = [id \in FrameId |->
                       IF id \in done THEN Cleaned(id) ELSE frame[id]]
        /\ disk' = WriteBack(done)
  BY DEF FlushAllPages
<1>2. done \in SUBSET Cached
  BY LoopedOverSubset DEF FileFrames
<1>3. /\ disk' \in [FrameId -> PageData \cup {Absent, Hole}]
      /\ \A g \in Files : disk'[HdrId(g)] \in FileHeader \cup {Absent}
      /\ \A g \in opened : disk'[HdrId(g)] # Absent
  BY <1>1, <1>2, WriteBackType, OpenHeader
<1>4. \A id \in Cached : /\ Cleaned(id) \in Frame
                         /\ Cleaned(id).pin = frame[id].pin
                         /\ Cleaned(id).data = frame[id].data
  BY FrameTypes DEF Cleaned
<1>5. frame' \in [FrameId -> Frame \cup {NoFrame}]
  BY <1>1, <1>2, <1>4 DEF TypeInv, PagesOK
<1>6. \A id \in FrameId :
        /\ frame'[id] = NoFrame <=> frame[id] = NoFrame
        /\ frame[id] # NoFrame => frame'[id].pin = frame[id].pin
                                  /\ frame'[id].data = frame[id].data
  BY <1>1, <1>2, <1>4, FrameIsNotNoFrame DEF Cached
<1>7. /\ age' \in [FrameId -> Nat] /\ disposed' \in [Files -> SUBSET PageNum]
      /\ opened' = opened /\ opened \subseteq Files
  BY DEF FlushAllPages, TypeInv, PagesOK
<1>8. \A g \in Files :
        frame'[HdrId(g)] = NoFrame \/ frame'[HdrId(g)].data \in FileHeader
  BY <1>6, HdrIdType DEF TypeInv, PagesOK, HdrId
<1>9. \A g \in opened : frame'[HdrId(g)] # NoFrame /\ frame'[HdrId(g)].pin > 0
  BY <1>6, <1>7, HdrIdType DEF TypeInv, HdrPinned, Cached
<1>10. \A x \in FrameId : frame'[x] # NoFrame => x[1] \in opened
  BY <1>6 DEF TypeInv, Backed, Cached
<1> QED
  BY <1>3, <1>5, <1>7, <1>8, <1>9, <1>10, KeepsTypeInv

LEMMA CreateFileType ==
  ASSUME TypeInv, NEW f \in Files, CreateFile(f)
  PROVE  TypeInv'
<1>1. /\ disk' = [disk EXCEPT ![HdrId(f)] = NewHeader]
      /\ UNCHANGED <<frame, age, opened, disposed>>
  BY DEF CreateFile
<1>2. HdrId(f) \in FrameId /\ NewHeader \in FileHeader
  BY HdrIdType, NewHeaderExact
<1>3. disk' \in [FrameId -> PageData \cup {Absent, Hole}]
  BY <1>1, <1>2 DEF TypeInv, PagesOK, PageData
<1>4. \A g \in Files :
        disk'[HdrId(g)] = IF g = f THEN NewHeader ELSE disk[HdrId(g)]
  BY <1>1, <1>2, HdrIdType DEF TypeInv, PagesOK
<1>5. NewHeader # Absent
  BY <1>2, ValuesAssumption
<1>6. PagesOK'
  BY <1>1, <1>2, <1>3, <1>4 DEF TypeInv, PagesOK, HdrId
<1>7. Backed'
  <2>1. \A id \in Cached : id[1] \in Files
    BY DEF TypeInv, PagesOK, Backed
  <2> QED BY <1>1, <1>4, <1>5, <2>1 DEF TypeInv, Backed, Cached, HdrId
<1>8. HdrPinned'
  BY <1>1 DEF TypeInv, HdrPinned, Cached, HdrId
<1> QED BY <1>6, <1>7, <1>8 DEF TypeInv

LEMMA WritePageType ==
  ASSUME TypeInv, NEW f \in Files, NEW p \in PageNum, NEW v \in Val, WritePage(f, p, v)
  PROVE  TypeInv'
<1> DEFINE id == <<f, p>>
<1>1. /\ id \in Cached /\ id[2] # HeaderPage /\ UNCHANGED <<age, disk, opened, disposed>>
      /\ frame' = [frame EXCEPT ![id] = Modified(id, v)]
  BY DEF WritePage
<1>2. Modified(id, v) \in Frame
  BY <1>1, FrameTypes DEF PageData
<1>3. age' \in [FrameId -> Nat] /\ disposed' \in [Files -> SUBSET PageNum]
  BY <1>1 DEF TypeInv, PagesOK
<1> QED BY <1>1, <1>2, <1>3, DiskUnchanged, SetFrameType

LEMMA TypeInvInit == Init => TypeInv
<1> SUFFICES ASSUME Init PROVE TypeInv
  OBVIOUS
<1>1. \A f \in Files : HdrId(f) \in FrameId
  BY HdrIdType
<1>2. PagesOK
  BY <1>1 DEF Init, PagesOK, HdrId
<1>3. Backed /\ HdrPinned
  BY DEF Init, Backed, HdrPinned, Cached
<1> QED BY <1>2, <1>3 DEF TypeInv

LEMMA TypeInvNext == TypeInv /\ [Next]_vars => TypeInv'
<1> SUFFICES ASSUME TypeInv, [Next]_vars PROVE TypeInv'
  OBVIOUS
<1>1. CASE UNCHANGED vars
  BY <1>1 DEF vars, TypeInv, PagesOK, Backed, HdrPinned, Cached, HdrId
<1>2. ASSUME NEW f \in Files, CreateFile(f) PROVE TypeInv'
  BY <1>2, CreateFileType
<1>3. ASSUME NEW f \in Files, OpenFile(f) PROVE TypeInv'
  BY <1>3, OpenFileType
<1>4. ASSUME NEW f \in Files, Closed(f) PROVE TypeInv'
  BY <1>4, CloseFileType
<1>5. ASSUME NEW f \in Files, ReuseFreePage(f) PROVE TypeInv'
  BY <1>5, ReuseFreePageType
<1>6. ASSUME NEW f \in Files, ExtendWithPage(f) PROVE TypeInv'
  BY <1>6, ExtendWithPageType
<1>7. ASSUME NEW f \in Files, PurgeAllPages(f) PROVE TypeInv'
  <2>1. PICK done \in LoopedOver(UnpinnedOf(f), DirtyOf(UnpinnedOf(f))) :
          /\ frame' = FreedFrames(done)
          /\ age' = Ranked(Cached \ done, age)
          /\ disk' = WriteBack(DirtyOf(done))
    BY <1>7 DEF PurgeAllPages
  <2>2. done \in SUBSET Evictable
    BY LoopedOverSubset DEF UnpinnedOf
  <2>3. UNCHANGED <<opened, disposed>>
    BY <1>7 DEF PurgeAllPages
  <2> QED BY <2>1, <2>2, <2>3, PurgeType
<1>8. ASSUME NEW f \in Files, FlushAllPages(f) PROVE TypeInv'
  BY <1>8, FlushAllPagesType
<1>9. ASSUME NEW f \in Files, NEW p \in PageNum, GetThisPage(f, p) PROVE TypeInv'
  BY <1>9, GetThisPageType
<1>10. ASSUME NEW f \in Files, NEW p \in PageNum, NEW v \in Val, WritePage(f, p, v)
       PROVE  TypeInv'
  BY <1>10, WritePageType
<1>11. ASSUME NEW f \in Files, NEW p \in PageNum, UnpinPage(f, p) PROVE TypeInv'
  BY <1>11, UnpinPageType
<1>12. ASSUME NEW f \in Files, NEW p \in PageNum, DisposePage(f, p) PROVE TypeInv'
  BY <1>12, DisposePageType
<1>13. ASSUME NEW f \in Files, NEW p \in PageNum, PurgePage(f, p) PROVE TypeInv'
  <2>1. {<<f, p>>} \in SUBSET Evictable
    BY <1>13 DEF PurgePage, Evictable
  <2> QED BY <1>13, <2>1, PurgeType DEF PurgePage
<1>14. ASSUME NEW f \in Files, NEW p \in PageNum, FlushPage(f, p) PROVE TypeInv'
  BY <1>14, FlushPageType
<1>15. ASSUME NEW f \in Files, NEW p \in PageNum, RecoverPage(f, p) PROVE TypeInv'
  BY <1>15, RecoverPageType
<1> QED
  BY <1>1, <1>2, <1>3, <1>4, <1>5, <1>6, <1>7, <1>8, <1>9, <1>10, <1>11, <1>12,
     <1>13, <1>14, <1>15 DEF Next, Step, CloseFile, CloseByManager

(* The descriptors: every open file has one of its own. *)
LEMMA FdsOKNext == TypeInv /\ FdsOK /\ [Next]_vars => FdsOK'
<1> SUFFICES ASSUME TypeInv, FdsOK, [Next]_vars PROVE FdsOK'
  OBVIOUS
<1>1. CASE UNCHANGED <<opened, file_desc, dangling>> /\ astray' \in BOOLEAN
  BY <1>1 DEF FdsOK
<1>2. ASSUME NEW f \in Files, OpenFile(f) PROVE FdsOK'
  <2>1. PICK fd \in Fds \ {file_desc[g] : g \in opened} :
          file_desc' = [file_desc EXCEPT ![f] = fd]
    BY <1>2 DEF OpenFile
  <2>2. /\ opened' = opened \cup {f} /\ dangling' = dangling /\ astray' \in BOOLEAN
    BY <1>2 DEF OpenFile, WentAstray
  <2>3. fd # NoFd /\ fd \in Fds
    BY <2>1, PoolAssumption
  <2>4. \A g \in Files : file_desc'[g] = IF g = f THEN fd ELSE file_desc[g]
    BY <2>1 DEF FdsOK
  <2>5. file_desc' \in [Files -> Fds \cup {NoFd}]
    BY <2>1, <2>3 DEF FdsOK
  <2>6. \A g \in opened : g \in Files /\ file_desc[g] # fd
    BY <2>1, HeadersOnDisk
  <2> QED BY <2>2, <2>3, <2>4, <2>5, <2>6 DEF FdsOK
<1>3. ASSUME NEW f \in Files, Closed(f), dangling' \subseteq dangling \cup {file_desc[f]}
      PROVE  FdsOK'
  <2>1. /\ f \in opened /\ opened' = opened \ {f} /\ UNCHANGED astray
        /\ file_desc' = [file_desc EXCEPT ![f] = NoFd]
        /\ opened \subseteq Files
    BY <1>3, HeadersOnDisk DEF Closed
  <2>2. \A g \in Files : file_desc'[g] = IF g = f THEN NoFd ELSE file_desc[g]
    BY <2>1 DEF FdsOK
  <2>3. dangling' \subseteq Fds
    BY <1>3, <2>1 DEF FdsOK
  <2> QED BY <2>1, <2>2, <2>3 DEF FdsOK
<1>4. ASSUME NEW f \in Files, CloseFile(f) \/ CloseByManager(f) PROVE FdsOK'
  BY <1>3, <1>4 DEF CloseFile, CloseByManager
<1>5. ASSUME NEW f \in Files, NEW p, NEW hdr, LoadPage(f, p, hdr) PROVE astray' \in BOOLEAN
  BY <1>5 DEF LoadPage
<1>6. astray \in BOOLEAN
  BY DEF FdsOK
<1>7. CASE UNCHANGED vars
  BY <1>1, <1>6, <1>7 DEF vars
<1>8. ASSUME NEW f \in Files, ReuseFreePage(f) \/ ExtendWithPage(f) PROVE FdsOK'
  BY <1>1, <1>5, <1>6, <1>8 DEF ReuseFreePage, ExtendWithPage, WentAstray
<1>9. ASSUME NEW f \in Files, NEW p \in PageNum, GetThisPage(f, p) \/ RecoverPage(f, p)
      PROVE  FdsOK'
  <2>1. UNCHANGED <<opened, file_desc, dangling>>
    BY <1>9 DEF GetThisPage, RecoverPage
  <2>2. UNCHANGED astray \/ \E hdr : LoadPage(f, p, hdr)
    BY <1>9 DEF GetThisPage, RecoverPage
  <2> QED BY <1>1, <1>5, <1>6, <2>1, <2>2
<1>10. CASE UNCHANGED <<opened, fdvars>>
  BY <1>1, <1>6, <1>10 DEF fdvars
<1>11. ASSUME NEW f \in Files, CreateFile(f) \/ PurgeAllPages(f) \/ FlushAllPages(f)
       PROVE  FdsOK'
  BY <1>10, <1>11 DEF CreateFile, PurgeAllPages, FlushAllPages
<1>12. ASSUME NEW f \in Files, NEW p \in PageNum,
              \/ UnpinPage(f, p) \/ DisposePage(f, p) \/ PurgePage(f, p)
              \/ FlushPage(f, p) \/ \E v \in Val : WritePage(f, p, v)
       PROVE  FdsOK'
  BY <1>10, <1>12 DEF WritePage, UnpinPage, DisposePage, PurgePage, FlushPage
<1> QED BY <1>2, <1>4, <1>7, <1>8, <1>9, <1>11, <1>12 DEF Next, Step

(* The state of the pool always has its type: every frame is a frame of    *)
(* the pool or none, headers stay headers in memory and on disk, whatever  *)
(* the pool size, the files, failing writes and the order of replay.       *)
THEOREM PoolTypeCorrect == Spec => []TypeOK
<1>1. Spec => []TypeInv
  BY TypeInvInit, TypeInvNext, PTL DEF Spec
<1>2. Init => FdsOK
  BY DEF Init, FdsOK
<1>3. TypeInv /\ FdsOK /\ [Next]_vars => FdsOK'
  BY FdsOKNext
<1>4. TypeInv /\ FdsOK => TypeOK
  BY DEF TypeInv, TypeOK
<1> QED BY <1>1, <1>2, <1>3, <1>4, PTL DEF Spec

-----------------------------------------------------------------------------
(***************************************************************************)
(* The allocation map is exact and the buffer holds allocated pages only,  *)
(* provided replay meets the pages in the order they were allocated.       *)
(***************************************************************************)

SafeInv == TypeInv /\ HeaderExact /\ CachedAllocated

(* A header on disk is exact after any write-back. *)
LEMMA WriteBackExact ==
  ASSUME SafeInv, NEW ids \in SUBSET Cached, NEW f \in Files,
         WriteBack(ids)[HdrId(f)] # Absent
  PROVE  ExactHeader(WriteBack(ids)[HdrId(f)])
<1>1. HdrId(f) \in FrameId /\ HdrId(f)[1] = f
  BY HdrIdType
<1>2. CASE HdrId(f) \in ids
  <2>1. WriteBack(ids)[HdrId(f)] = Hdr(f)
    BY <1>1, <1>2 DEF WriteBack, Hdr
  <2>2. f \in opened
    BY <1>1, <1>2 DEF SafeInv, CachedAllocated
  <2> QED BY <2>1, <2>2 DEF SafeInv, HeaderExact
<1>3. CASE HdrId(f) \notin ids
  <2>1. ~ (disk[HdrId(f)] = Absent /\ \E x \in ids : x[1] = f)
    BY DEF SafeInv, TypeInv, Backed
  <2>2. WriteBack(ids)[HdrId(f)] = disk[HdrId(f)]
    BY <1>1, <1>3, <2>1 DEF WriteBack
  <2> QED BY <2>2 DEF SafeInv, HeaderExact
<1> QED BY <1>2, <1>3

(* A step keeps both properties if the headers it leaves are exact and     *)
(* each frame it leaves is of a page its file has.                         *)
LEMMA KeepsSafeInv ==
  ASSUME TypeInv',
         \A f \in opened' : ExactHeader(frame'[HdrId(f)].data),
         \A f \in Files : disk'[HdrId(f)] # Absent => ExactHeader(disk'[HdrId(f)]),
         \A id \in FrameId : frame'[id] # NoFrame =>
           id[1] \in opened' /\ id[2] \in frame'[HdrId(id[1])].data.bitmap
  PROVE  SafeInv'
<1>1. HeaderExact'
  BY DEF HeaderExact, Hdr, HdrId, TypeInv, PagesOK
<1>2. CachedAllocated'
  BY DEF CachedAllocated, Cached, Hdr, HdrId
<1> QED BY <1>1, <1>2 DEF SafeInv

(* Loading a page with a header that has it. *)
LEMMA LoadPageSafe ==
  ASSUME SafeInv, NEW f \in opened, NEW p \in PageNum, p # HeaderPage,
         NEW hdr, hdr.data \in FileHeader, ExactHeader(hdr.data),
         Hdr(f).bitmap \cup {p} \subseteq hdr.data.bitmap,
         LoadPage(f, p, hdr), UNCHANGED opened, TypeInv'
  PROVE  SafeInv'
<1> DEFINE id == <<f, p>>
<1>0. f \in Files /\ opened \subseteq Files /\ frame \in [FrameId -> Frame \cup {NoFrame}]
  BY DEF SafeInv, TypeInv, PagesOK
<1>1. id \in FrameId /\ id[1] = f /\ id[2] = p /\ \A g \in Files : HdrId(g) # id
  BY <1>0 DEF FrameId, HdrId
<1>2. PICK gone \in RoomChoices :
        /\ disk' \in EvictedDisks(gone)
        /\ \/ frame' = [FreedFrames(gone) EXCEPT
                             ![id] = PinnedFrame(disk'[id]), ![HdrId(f)] = hdr]
           \/ frame' = [FreedFrames(gone) EXCEPT ![HdrId(f)] = hdr]
  BY DEF LoadPage
<1>3. gone \subseteq Evictable /\ gone \subseteq Cached /\ gone \subseteq FrameId
  BY RoomIsEvictable
<1>4. \A g \in Files : HdrId(g) \in FrameId /\ HdrId(g)[1] = g /\ HdrId(g)[2] = HeaderPage
  BY HdrIdType
<1>5. /\ frame'[HdrId(f)] = hdr
      /\ \A x \in FrameId : x # id /\ x # HdrId(f) /\ frame'[x] # NoFrame =>
            frame'[x] = frame[x]
  BY <1>0, <1>1, <1>2, <1>4 DEF FreedFrames
<1>6. \A g \in opened : HdrId(g) \notin gone
  BY <1>3, SMT DEF SafeInv, TypeInv, HdrPinned, Evictable
<1>7. \A g \in opened : g # f => frame'[HdrId(g)] = frame[HdrId(g)]
  <2> SUFFICES ASSUME NEW g \in opened, g # f PROVE frame'[HdrId(g)] = frame[HdrId(g)]
    OBVIOUS
  <2>1. HdrId(g) \in FrameId /\ HdrId(g) # id /\ HdrId(g) # HdrId(f)
    BY <1>0, <1>1, <1>4
  <2> QED BY <1>0, <1>1, <1>2, <1>4, <1>6, <2>1 DEF FreedFrames
<1>8. \A g \in opened' : ExactHeader(frame'[HdrId(g)].data)
  BY <1>0, <1>5, <1>7 DEF SafeInv, HeaderExact, Hdr
<1>9. \A g \in Files : disk'[HdrId(g)] # Absent => ExactHeader(disk'[HdrId(g)])
  BY <1>2, EvictedHeaders DEF SafeInv, HeaderExact
<1>10. ASSUME NEW x \in FrameId, frame'[x] # NoFrame
       PROVE  x[1] \in opened' /\ x[2] \in frame'[HdrId(x[1])].data.bitmap
  <2>1. CASE x = id
    BY <1>1, <1>5, <2>1
  <2>2. CASE x = HdrId(f)
    BY <1>0, <1>4, <1>5, <2>2 DEF FileHeader
  <2>3. CASE x # id /\ x # HdrId(f)
    <3>1. x \in Cached
      BY <1>5, <1>10, <2>3 DEF Cached
    <3>2. x[1] \in opened /\ x[2] \in Hdr(x[1]).bitmap
      BY <3>1 DEF SafeInv, CachedAllocated
    <3> QED BY <1>5, <1>7, <3>2 DEF Hdr
  <2> QED BY <2>1, <2>2, <2>3
<1> QED BY <1>8, <1>9, <1>10, KeepsSafeInv

(* Steps that change no header in memory and bring in no frame. *)
LEMMA HeadersKeptSafe ==
  ASSUME SafeInv, TypeInv', opened' \subseteq opened,
         \A f \in opened' : frame'[HdrId(f)].data = frame[HdrId(f)].data,
         \A id \in FrameId : frame'[id] # NoFrame =>
           id \in Cached /\ id[1] \in opened',
         \/ UNCHANGED disk
         \/ \E ids \in SUBSET Cached : disk' = WriteBack(ids)
  PROVE  SafeInv'
<1>1. opened \subseteq Files
  BY DEF SafeInv, TypeInv, PagesOK
<1>2. \A f \in opened' : ExactHeader(frame'[HdrId(f)].data)
  BY <1>1 DEF SafeInv, HeaderExact, Hdr
<1>3. \A f \in Files : disk'[HdrId(f)] # Absent => ExactHeader(disk'[HdrId(f)])
  BY WriteBackExact DEF SafeInv, HeaderExact
<1>4. \A id \in FrameId : frame'[id] # NoFrame =>
        id[1] \in opened' /\ id[2] \in frame'[HdrId(id[1])].data.bitmap
  BY DEF SafeInv, CachedAllocated, Hdr
<1> QED BY <1>2, <1>3, <1>4, KeepsSafeInv

(* Replacing the frame of a page that is not a header. *)
LEMMA SetFrameSafe ==
  ASSUME SafeInv, TypeInv', NEW id \in Cached, NEW fr,
         id[2] # HeaderPage, frame' = [frame EXCEPT ![id] = fr],
         UNCHANGED opened,
         \/ UNCHANGED disk
         \/ \E ids \in SUBSET Cached : disk' = WriteBack(ids)
  PROVE  SafeInv'
<1>1. opened \subseteq Files /\ frame \in [FrameId -> Frame \cup {NoFrame}]
  BY DEF SafeInv, TypeInv, PagesOK
<1>2. \A f \in opened : HdrId(f) \in FrameId /\ HdrId(f) # id
  BY <1>1, HdrIdType
<1>3. \A f \in opened' : frame'[HdrId(f)].data = frame[HdrId(f)].data
  BY <1>1, <1>2
<1>4. \A x \in FrameId : frame'[x] # NoFrame => x \in Cached /\ x[1] \in opened'
  BY <1>1 DEF SafeInv, CachedAllocated, Cached
<1> QED BY <1>3, <1>4, HeadersKeptSafe

(* Freeing frames, none the header of a file that stays open. *)
LEMMA FreeFramesSafe ==
  ASSUME SafeInv, TypeInv', NEW gone, frame' = FreedFrames(gone),
         opened' \subseteq opened,
         \A f \in opened' : HdrId(f) \notin gone,
         \A id \in Cached : id[1] \notin opened' => id \in gone,
         \/ UNCHANGED disk
         \/ \E ids \in SUBSET Cached : disk' = WriteBack(ids)
  PROVE  SafeInv'
<1>1. opened \subseteq Files /\ \A f \in Files : HdrId(f) \in FrameId
  BY HdrIdType DEF SafeInv, TypeInv, PagesOK
<1>2. \A f \in opened' : frame'[HdrId(f)].data = frame[HdrId(f)].data
  BY <1>1 DEF FreedFrames
<1>3. \A x \in FrameId : frame'[x] # NoFrame => x \in Cached /\ x[1] \in opened'
  BY DEF FreedFrames, Cached
<1> QED BY <1>2, <1>3, HeadersKeptSafe

(* dispose_page of an allocated page. *)
LEMMA ReleaseSafe ==
  ASSUME SafeInv, TypeInv', NEW f \in opened, NEW p \in Hdr(f).bitmap \ {HeaderPage},
         Release(f, p), UNCHANGED opened
  PROVE  SafeInv'
<1> DEFINE id == <<f, p>>
           h == ReleasePage(Hdr(f), p)
<1>0. f \in Files /\ opened \subseteq Files /\ frame \in [FrameId -> Frame \cup {NoFrame}]
  BY DEF SafeInv, TypeInv, PagesOK
<1>1. Hdr(f) \in FileHeader /\ ExactHeader(Hdr(f))
  BY <1>0, OpenHeader DEF SafeInv, HeaderExact
<1>2. h \in FileHeader /\ ExactHeader(h) /\ h.bitmap = Hdr(f).bitmap \ {p}
  BY <1>1, ReleaseExact DEF ReleasePage
<1>3. HdrFrame(f, h).data = h
  BY DEF HdrFrame, Modified
<1>4. \A g \in Files : HdrId(g) \in FrameId /\ HdrId(g)[1] = g /\ HdrId(g) # id
  BY HdrIdType
<1>5. \A x \in FrameId :
        frame'[x] = IF x = HdrId(f) THEN HdrFrame(f, h)
                    ELSE IF x = id THEN NoFrame ELSE frame[x]
  BY <1>0, <1>4 DEF Release, FreedFrames
<1>6. \A g \in opened' : ExactHeader(frame'[HdrId(g)].data)
  BY <1>0, <1>2, <1>3, <1>4, <1>5 DEF SafeInv, HeaderExact, Hdr
<1>7. \A g \in Files : disk'[HdrId(g)] # Absent => ExactHeader(disk'[HdrId(g)])
  <2>1. DirtyOf({id} \cap Cached) \in SUBSET Cached
    BY DEF DirtyOf
  <2> QED BY <2>1, WriteBackExact DEF Release
<1>8. ASSUME NEW x \in FrameId, frame'[x] # NoFrame
      PROVE  x[1] \in opened' /\ x[2] \in frame'[HdrId(x[1])].data.bitmap
  <2>1. CASE x = HdrId(f)
    BY <1>0, <1>2, <1>3, <1>4, <1>5, <2>1, HdrIdType DEF FileHeader
  <2>2. CASE x # HdrId(f)
    <3>1. x # id /\ x \in Cached
      BY <1>5, <1>8, <2>2 DEF Cached
    <3>2. x[1] \in opened /\ x[2] \in Hdr(x[1]).bitmap
      BY <3>1 DEF SafeInv, CachedAllocated
    <3>3. CASE x[1] = f
      <4>1. x = <<x[1], x[2]>>
        BY DEF FrameId
      <4>2. x[2] # p
        BY <3>1, <3>3, <4>1
      <4> QED BY <1>2, <1>3, <1>4, <1>0, <1>5, <3>2, <3>3, <4>2
    <3>4. CASE x[1] # f
      <4>1. HdrId(x[1]) \in FrameId /\ HdrId(x[1]) # HdrId(f) /\ HdrId(x[1]) # id
        BY <1>0, <1>4, <3>2, <3>4
      <4> QED BY <1>5, <3>2, <4>1 DEF Hdr
    <3> QED BY <3>3, <3>4
  <2> QED BY <2>1, <2>2
<1> QED BY <1>6, <1>7, <1>8, KeepsSafeInv

LEMMA ReuseFreePageSafe ==
  ASSUME SafeInv, TypeInv', NEW f \in Files, ReuseFreePage(f)
  PROVE  SafeInv'
<1> DEFINE p == FirstFreePage(Hdr(f))
           h == ReusePage(Hdr(f), p)
           hdr == HdrFrame(f, h)
<1>1. f \in opened /\ HasFreePage(Hdr(f)) /\ UNCHANGED opened
  BY DEF ReuseFreePage
<1>2. Hdr(f) \in FileHeader /\ HdrId(f) \in Cached /\ ExactHeader(Hdr(f))
  BY <1>1, OpenHeader DEF SafeInv, HeaderExact
<1>3. p \in ClearBits(Hdr(f)) /\ p \in PageNum /\ p # HeaderPage
  BY <1>1, <1>2, FirstFreePageIsFree DEF ClearBits, FileHeader
<1>4. h \in FileHeader /\ ExactHeader(h) /\ h.bitmap = Hdr(f).bitmap \cup {p}
  BY <1>2, <1>3, ReuseExact DEF ReusePage
<1>5. hdr.data = h
  BY DEF HdrFrame, Modified
<1>6. CASE LoadPage(f, p, hdr)
  BY <1>1, <1>3, <1>4, <1>5, <1>6, LoadPageSafe
<1>7. CASE frame' = [frame EXCEPT ![HdrId(f)] = hdr] /\ UNCHANGED disk
  <2>0. opened \subseteq Files /\ frame \in [FrameId -> Frame \cup {NoFrame}]
    BY DEF SafeInv, TypeInv, PagesOK
  <2>1. \A g \in Files : HdrId(g) \in FrameId /\ HdrId(g)[1] = g
    BY HdrIdType
  <2>2. \A x \in FrameId : frame'[x] = IF x = HdrId(f) THEN hdr ELSE frame[x]
    BY <1>7, <2>0
  <2>3. \A g \in opened' : ExactHeader(frame'[HdrId(g)].data)
    BY <1>1, <1>4, <1>5, <2>0, <2>1, <2>2 DEF SafeInv, HeaderExact, Hdr
  <2>4. \A g \in Files : disk'[HdrId(g)] # Absent => ExactHeader(disk'[HdrId(g)])
    BY <1>7 DEF SafeInv, HeaderExact
  <2>5. ASSUME NEW x \in FrameId, frame'[x] # NoFrame
        PROVE  x[1] \in opened' /\ x[2] \in frame'[HdrId(x[1])].data.bitmap
    <3>1. x \in Cached
      BY <1>2, <2>2, <2>5 DEF Cached
    <3>2. x[1] \in opened /\ x[2] \in Hdr(x[1]).bitmap
      BY <3>1 DEF SafeInv, CachedAllocated
    <3> QED BY <1>1, <1>4, <1>5, <2>0, <2>1, <2>2, <3>2 DEF Hdr
  <2> QED BY <2>3, <2>4, <2>5, KeepsSafeInv
<1> QED BY <1>6, <1>7 DEF ReuseFreePage

LEMMA ExtendWithPageSafe ==
  ASSUME SafeInv, TypeInv', NEW f \in Files, ExtendWithPage(f)
  PROVE  SafeInv'
<1> DEFINE id == <<f, Hdr(f).page_count>>
           h == ExtendFile(Hdr(f))
           hdr == HdrFrame(f, h)
<1>0. /\ f \in opened /\ opened \subseteq Files /\ UNCHANGED opened
      /\ ~ FileIsFull(Hdr(f)) /\ frame \in [FrameId -> Frame \cup {NoFrame}]
  BY DEF ExtendWithPage, SafeInv, TypeInv, PagesOK
<1>1. PICK gone \in RoomChoices : \E d \in EvictedDisks(gone) :
        /\ frame' = [FreedFrames(gone) EXCEPT
                       ![id] = PinnedFrame(Zero), ![HdrId(f)] = hdr]
        /\ disk' = Written(d, id, Zero) \/ disk' = d
  BY DEF ExtendWithPage
<1>2. /\ gone \subseteq Evictable /\ gone \subseteq Cached /\ gone \subseteq FrameId
      /\ DirtyOf(gone) \in SUBSET Cached
  BY RoomIsEvictable DEF DirtyOf
<1>3. Hdr(f) \in FileHeader /\ ExactHeader(Hdr(f)) /\ disk[HdrId(f)] # Absent
  BY <1>0, OpenHeader DEF SafeInv, HeaderExact
<1>4. /\ h \in FileHeader /\ ExactHeader(h)
      /\ h.bitmap = Hdr(f).bitmap \cup {Hdr(f).page_count}
      /\ Hdr(f).page_count \in PageNum \ {HeaderPage}
  BY <1>0, <1>3, ExtendExact, ExtendType DEF ExtendFile
<1>5. hdr.data = h
  BY DEF HdrFrame, Modified
<1>6. id \in FrameId /\ id[1] = f /\ id[2] = Hdr(f).page_count
  BY <1>4 DEF FrameId
<1>7. \A g \in Files : /\ HdrId(g) \in FrameId /\ HdrId(g)[1] = g
                       /\ HdrId(g)[2] = HeaderPage /\ HdrId(g) # id
  BY <1>4, HdrIdType
<1>8. \A x \in FrameId :
        frame'[x] = IF x = HdrId(f) THEN hdr
                    ELSE IF x = id THEN PinnedFrame(Zero)
                    ELSE IF x \in gone THEN NoFrame ELSE frame[x]
  BY <1>0, <1>1, <1>6, <1>7 DEF FreedFrames
<1>9. \A g \in opened : HdrId(g) \notin gone
  BY <1>2, SMT DEF SafeInv, TypeInv, HdrPinned, Evictable
<1>10. \A g \in opened' : ExactHeader(frame'[HdrId(g)].data)
  BY <1>0, <1>4, <1>5, <1>7, <1>8, <1>9 DEF SafeInv, HeaderExact, Hdr
<1>11. ASSUME NEW g \in Files, disk'[HdrId(g)] # Absent
       PROVE  ExactHeader(disk'[HdrId(g)])
  <2>1. PICK d \in EvictedDisks(gone) : disk' = Written(d, id, Zero) \/ disk' = d
    BY <1>1
  <2>2. d[HdrId(g)] = disk[HdrId(g)] /\ d[HdrId(f)] = disk[HdrId(f)]
    BY EvictedHeaders DEF SafeInv
  <2>3. disk'[HdrId(g)] = disk[HdrId(g)]
    BY <1>3, <1>6, <1>7, <2>1, <2>2 DEF Written
  <2> QED BY <1>11, <2>3 DEF SafeInv, HeaderExact
<1>12. ASSUME NEW x \in FrameId, frame'[x] # NoFrame
       PROVE  x[1] \in opened' /\ x[2] \in frame'[HdrId(x[1])].data.bitmap
  <2>1. CASE x = id
    BY <1>0, <1>4, <1>5, <1>6, <1>7, <1>8, <2>1
  <2>2. CASE x = HdrId(f)
    BY <1>0, <1>4, <1>5, <1>7, <1>8, <2>2 DEF FileHeader
  <2>3. CASE x # id /\ x # HdrId(f)
    <3>1. x \in Cached
      BY <1>8, <1>12, <2>3 DEF Cached
    <3>2. x[1] \in opened /\ x[2] \in Hdr(x[1]).bitmap
      BY <3>1 DEF SafeInv, CachedAllocated
    <3>3. CASE x[1] = f
      BY <1>0, <1>4, <1>5, <1>7, <1>8, <3>2, <3>3
    <3>4. CASE x[1] # f
      <4>1. HdrId(x[1]) \in FrameId /\ HdrId(x[1]) # HdrId(f) /\ HdrId(x[1]) # id
        BY <1>0, <1>7, <3>2, <3>4
      <4> QED BY <1>0, <1>8, <1>9, <3>2, <4>1 DEF Hdr
    <3> QED BY <3>3, <3>4
  <2> QED BY <2>1, <2>2, <2>3
<1> QED BY <1>10, <1>11, <1>12, KeepsSafeInv

(* The one place where the order of replay matters. *)
LEMMA RecoverPageSafe ==
  ASSUME SafeInv, TypeInv', InOrderReplay,
         NEW f \in Files, NEW p \in PageNum, RecoverPage(f, p)
  PROVE  SafeInv'
<1> DEFINE h == RecoverPageBit(Hdr(f), p)
<1>1. /\ f \in opened /\ p \notin Hdr(f).bitmap /\ UNCHANGED opened
      /\ p = Hdr(f).page_count /\ LoadPage(f, p, HdrFrame(f, h))
  BY DEF RecoverPage
<1>2. Hdr(f) \in FileHeader /\ ExactHeader(Hdr(f))
  BY <1>1, OpenHeader DEF SafeInv, HeaderExact
<1>3. h \in FileHeader /\ ExactHeader(h) /\ h.bitmap = Hdr(f).bitmap \cup {p}
  BY <1>1, <1>2, RecoverInOrderExact DEF RecoverPageBit
<1>4. HdrFrame(f, h).data = h
  BY DEF HdrFrame, Modified
<1>5. p # HeaderPage
  BY <1>1, <1>2 DEF FileHeader
<1> QED BY <1>1, <1>3, <1>4, <1>5, LoadPageSafe

LEMMA OpenFileSafe ==
  ASSUME SafeInv, TypeInv', NEW f \in Files, OpenFile(f)
  PROVE  SafeInv'
<1> DEFINE id == HdrId(f)
<1>0. opened \subseteq Files /\ frame \in [FrameId -> Frame \cup {NoFrame}]
  BY DEF SafeInv, TypeInv, PagesOK
<1>1. f \notin opened /\ disk[id] # Absent /\ opened' = opened \cup {f}
  BY DEF OpenFile
<1>2. PICK gone \in RoomChoices :
        /\ frame' = [FreedFrames(gone) EXCEPT ![id] = PinnedFrame(disk[id])]
        /\ disk' \in EvictedDisks(gone)
  BY DEF OpenFile
<1>3. /\ gone \subseteq Evictable /\ gone \subseteq FrameId
      /\ DirtyOf(gone) \in SUBSET Cached
  BY RoomIsEvictable DEF DirtyOf
<1>4. \A g \in Files : /\ HdrId(g) \in FrameId /\ HdrId(g)[1] = g
                       /\ HdrId(g)[2] = HeaderPage
  BY HdrIdType
<1>5. /\ disk[id] \in FileHeader /\ ExactHeader(disk[id])
      /\ PinnedFrame(disk[id]).data = disk[id]
  BY <1>1 DEF SafeInv, TypeInv, PagesOK, HeaderExact, HdrId, PinnedFrame
<1>6. \A x \in FrameId :
        frame'[x] = IF x = id THEN PinnedFrame(disk[id])
                    ELSE IF x \in gone THEN NoFrame ELSE frame[x]
  BY <1>0, <1>2, <1>4 DEF FreedFrames
<1>7. \A g \in opened : HdrId(g) \notin gone
  BY <1>3, SMT DEF SafeInv, TypeInv, HdrPinned, Evictable
<1>8. \A g \in opened : frame'[HdrId(g)] = frame[HdrId(g)]
  BY <1>0, <1>1, <1>4, <1>6, <1>7
<1>9. \A g \in opened' : ExactHeader(frame'[HdrId(g)].data)
  BY <1>0, <1>1, <1>4, <1>5, <1>6, <1>8 DEF SafeInv, HeaderExact, Hdr
<1>10. \A g \in Files : disk'[HdrId(g)] # Absent => ExactHeader(disk'[HdrId(g)])
  BY <1>2, EvictedHeaders DEF SafeInv, HeaderExact
<1>11. ASSUME NEW x \in FrameId, frame'[x] # NoFrame
       PROVE  x[1] \in opened' /\ x[2] \in frame'[HdrId(x[1])].data.bitmap
  <2>1. CASE x = id
    BY <1>1, <1>4, <1>5, <1>6, <2>1 DEF FileHeader
  <2>2. CASE x # id
    <3>1. x \in Cached
      BY <1>6, <1>11, <2>2 DEF Cached
    <3>2. x[1] \in opened /\ x[2] \in Hdr(x[1]).bitmap
      BY <3>1 DEF SafeInv, CachedAllocated
    <3> QED BY <1>1, <1>8, <3>2 DEF Hdr
  <2> QED BY <2>1, <2>2
<1> QED BY <1>9, <1>10, <1>11, KeepsSafeInv

LEMMA CreateFileSafe ==
  ASSUME SafeInv, TypeInv', NEW f \in Files, CreateFile(f)
  PROVE  SafeInv'
<1>1. /\ disk' = [disk EXCEPT ![HdrId(f)] = NewHeader]
      /\ UNCHANGED <<frame, opened>>
  BY DEF CreateFile
<1>2. \A g \in Files :
        disk'[HdrId(g)] = IF g = f THEN NewHeader ELSE disk[HdrId(g)]
  BY <1>1, HdrIdType DEF SafeInv, TypeInv, PagesOK
<1>3. \A g \in Files : disk'[HdrId(g)] # Absent => ExactHeader(disk'[HdrId(g)])
  BY <1>2, NewHeaderExact DEF SafeInv, HeaderExact
<1>4. \A g \in opened' : ExactHeader(frame'[HdrId(g)].data)
  BY <1>1 DEF SafeInv, HeaderExact, Hdr, TypeInv, PagesOK
<1>5. \A x \in FrameId : frame'[x] # NoFrame =>
        x[1] \in opened' /\ x[2] \in frame'[HdrId(x[1])].data.bitmap
  BY <1>1 DEF SafeInv, CachedAllocated, Cached, Hdr
<1> QED BY <1>3, <1>4, <1>5, KeepsSafeInv

LEMMA GetThisPageSafe ==
  ASSUME SafeInv, TypeInv', NEW f \in Files, NEW p \in PageNum, GetThisPage(f, p)
  PROVE  SafeInv'
<1> DEFINE id == <<f, p>>
<1>1. f \in opened /\ p # HeaderPage /\ p \in Hdr(f).bitmap /\ UNCHANGED opened
  BY DEF GetThisPage
<1>2. CASE id \in Cached /\ frame' = [frame EXCEPT ![id] = Repinned(id, 1)]
           /\ UNCHANGED disk
  <2>1. id[2] # HeaderPage
    BY <1>1
  <2> QED BY <1>1, <1>2, <2>1, SetFrameSafe
<1>3. CASE LoadPage(f, p, frame[HdrId(f)])
  <2>1. frame[HdrId(f)].data \in FileHeader /\ ExactHeader(frame[HdrId(f)].data)
    BY <1>1, OpenHeader DEF SafeInv, HeaderExact, Hdr
  <2>2. Hdr(f).bitmap \cup {p} \subseteq frame[HdrId(f)].data.bitmap
    BY <1>1 DEF Hdr
  <2> QED BY <1>1, <1>3, <2>1, <2>2, LoadPageSafe
<1> QED BY <1>2, <1>3 DEF GetThisPage

(* Putting a disposal off changes only the list of pages to dispose of. *)
LEMMA DisposePageSafe ==
  ASSUME SafeInv, TypeInv', NEW f \in Files, NEW p \in PageNum, DisposePage(f, p)
  PROVE  SafeInv'
<1>1. f \in opened /\ p \in Hdr(f).bitmap \ {HeaderPage} /\ UNCHANGED opened
  BY DEF DisposePage
<1>2. CASE Release(f, p)
  BY <1>1, <1>2, ReleaseSafe
<1>3. CASE UNCHANGED <<frame, disk>>
  BY <1>1, <1>3 DEF SafeInv, HeaderExact, CachedAllocated, Cached, Hdr, HdrId
<1> QED BY <1>2, <1>3 DEF DisposePage

LEMMA UnpinPageSafe ==
  ASSUME SafeInv, TypeInv', NEW f \in Files, NEW p \in PageNum, UnpinPage(f, p)
  PROVE  SafeInv'
<1> DEFINE id == <<f, p>>
<1>1. /\ f \in opened /\ p # HeaderPage /\ UNCHANGED opened /\ id \in Cached
      /\ id[1] = f /\ id[2] = p
  BY DEF UnpinPage
<1>2. p \in Hdr(f).bitmap
  BY <1>1 DEF SafeInv, CachedAllocated
<1>3. CASE Release(f, p)
  BY <1>1, <1>2, <1>3, ReleaseSafe
<1>4. CASE frame' = [frame EXCEPT ![id] = Repinned(id, -1)] /\ UNCHANGED disk
  BY <1>1, <1>4, SetFrameSafe
<1> QED BY <1>3, <1>4 DEF UnpinPage

(* purge_page and purge_all_pages. *)
LEMMA PurgeSafe ==
  ASSUME SafeInv, TypeInv', NEW done \in SUBSET Evictable,
         frame' = FreedFrames(done), disk' = WriteBack(DirtyOf(done)),
         UNCHANGED opened
  PROVE  SafeInv'
<1>1. \A f \in opened' : HdrId(f) \notin done
  BY SMT DEF SafeInv, TypeInv, HdrPinned, Evictable
<1>2. DirtyOf(done) \in SUBSET Cached
  BY DEF DirtyOf, Evictable
<1>3. \A id \in Cached : id[1] \in opened'
  BY DEF SafeInv, CachedAllocated
<1> QED BY <1>1, <1>2, <1>3, FreeFramesSafe

LEMMA FlushAllPagesSafe ==
  ASSUME SafeInv, TypeInv', NEW f \in Files, FlushAllPages(f)
  PROVE  SafeInv'
<1>1. PICK done \in LoopedOver(FileFrames(f), FileFrames(f)) :
        /\ frame' = [id \in FrameId |->
                       IF id \in done THEN Cleaned(id) ELSE frame[id]]
        /\ disk' = WriteBack(done)
  BY DEF FlushAllPages
<1>2. done \in SUBSET Cached /\ UNCHANGED opened /\ opened \subseteq Files
  BY LoopedOverSubset DEF FileFrames, FlushAllPages, SafeInv, TypeInv, PagesOK
<1>3. \A g \in opened' : frame'[HdrId(g)].data = frame[HdrId(g)].data
  BY <1>1, <1>2, HdrIdType DEF Cleaned
<1>4. \A x \in FrameId : frame'[x] # NoFrame => x \in Cached /\ x[1] \in opened'
  BY <1>1, <1>2 DEF Cached, SafeInv, CachedAllocated
<1> QED BY <1>1, <1>2, <1>3, <1>4, HeadersKeptSafe

LEMMA SafeInvInit == Init => SafeInv
<1> SUFFICES ASSUME Init PROVE SafeInv
  OBVIOUS
<1>1. TypeInv
  BY TypeInvInit
<1>2. HeaderExact /\ CachedAllocated
  BY HdrIdType DEF Init, HeaderExact, CachedAllocated, Cached
<1> QED BY <1>1, <1>2 DEF SafeInv

LEMMA SafeInvNext == InOrderReplay /\ SafeInv /\ [Next]_vars => SafeInv'
<1> SUFFICES ASSUME InOrderReplay, SafeInv, [Next]_vars PROVE SafeInv'
  OBVIOUS
<1>0. TypeInv'
  BY TypeInvNext DEF SafeInv
<1>1. CASE UNCHANGED vars
  BY <1>0, <1>1 DEF vars, SafeInv, HeaderExact, CachedAllocated, Cached, Hdr, HdrId
<1>2. ASSUME NEW f \in Files, CreateFile(f) PROVE SafeInv'
  BY <1>0, <1>2, CreateFileSafe
<1>3. ASSUME NEW f \in Files, OpenFile(f) PROVE SafeInv'
  BY <1>0, <1>3, OpenFileSafe
<1>4. ASSUME NEW f \in Files, Closed(f) PROVE SafeInv'
  <2>1. \A g \in opened' : HdrId(g) \notin FileFrames(f)
    BY <1>4, HdrIdType DEF Closed, FileFrames, SafeInv, TypeInv, PagesOK
  <2>2. \A id \in Cached : id[1] \notin opened' => id \in FileFrames(f)
    BY <1>4 DEF Closed, FileFrames, SafeInv, CachedAllocated
  <2>3. frame' = FreedFrames(FileFrames(f)) /\ opened' \subseteq opened /\ UNCHANGED disk
    BY <1>4 DEF Closed
  <2> QED BY <1>0, <2>1, <2>2, <2>3, FreeFramesSafe
<1>5. ASSUME NEW f \in Files, ReuseFreePage(f) PROVE SafeInv'
  BY <1>0, <1>5, ReuseFreePageSafe
<1>6. ASSUME NEW f \in Files, ExtendWithPage(f) PROVE SafeInv'
  BY <1>0, <1>6, ExtendWithPageSafe
<1>7. ASSUME NEW f \in Files, PurgeAllPages(f) PROVE SafeInv'
  <2>1. PICK done \in LoopedOver(UnpinnedOf(f), DirtyOf(UnpinnedOf(f))) :
          /\ frame' = FreedFrames(done)
          /\ disk' = WriteBack(DirtyOf(done))
    BY <1>7 DEF PurgeAllPages
  <2>2. done \in SUBSET Evictable /\ UNCHANGED opened
    BY <1>7, LoopedOverSubset DEF UnpinnedOf, PurgeAllPages
  <2> QED BY <1>0, <2>1, <2>2, PurgeSafe
<1>8. ASSUME NEW f \in Files, FlushAllPages(f) PROVE SafeInv'
  BY <1>0, <1>8, FlushAllPagesSafe
<1>9. ASSUME NEW f \in Files, NEW p \in PageNum, GetThisPage(f, p) PROVE SafeInv'
  BY <1>0, <1>9, GetThisPageSafe
<1>10. ASSUME NEW f \in Files, NEW p \in PageNum, NEW v \in Val, WritePage(f, p, v)
       PROVE  SafeInv'
  <2> DEFINE id == <<f, p>>
  <2>1. /\ id \in Cached /\ id[2] # HeaderPage /\ UNCHANGED <<disk, opened>>
        /\ frame' = [frame EXCEPT ![id] = Modified(id, v)]
    BY <1>10 DEF WritePage
  <2> QED BY <1>0, <2>1, SetFrameSafe
<1>11. ASSUME NEW f \in Files, NEW p \in PageNum, UnpinPage(f, p) PROVE SafeInv'
  BY <1>0, <1>11, UnpinPageSafe
<1>12. ASSUME NEW f \in Files, NEW p \in PageNum, DisposePage(f, p) PROVE SafeInv'
  BY <1>0, <1>12, DisposePageSafe
<1>13. ASSUME NEW f \in Files, NEW p \in PageNum, PurgePage(f, p) PROVE SafeInv'
  <2>1. {<<f, p>>} \in SUBSET Evictable
    BY <1>13 DEF PurgePage, Evictable
  <2> QED BY <1>0, <1>13, <2>1, PurgeSafe DEF PurgePage
<1>14. ASSUME NEW f \in Files, NEW p \in PageNum, FlushPage(f, p) PROVE SafeInv'
  <2> DEFINE id == <<f, p>>
  <2>1. /\ id \in Cached /\ id[2] # HeaderPage /\ UNCHANGED opened
        /\ frame' = [frame EXCEPT ![id] = Cleaned(id)] /\ disk' = WriteBack({id})
    BY <1>14 DEF FlushPage
  <2> QED BY <1>0, <2>1, SetFrameSafe
<1>15. ASSUME NEW f \in Files, NEW p \in PageNum, RecoverPage(f, p) PROVE SafeInv'
  BY <1>0, <1>15, RecoverPageSafe
<1> QED
  BY <1>1, <1>2, <1>3, <1>4, <1>5, <1>6, <1>7, <1>8, <1>9, <1>10, <1>11, <1>12,
     <1>13, <1>14, <1>15 DEF Next, Step, CloseFile, CloseByManager

(* When replay meets pages in the order allocate_page handed them out, the *)
(* counters of every file header stay equal to its bitmap through          *)
(* allocation, disposal, eviction, failing writes, close and replay:       *)
(* allocate_page never hands out a page in use and never misses a free     *)
(* one.                                                                    *)
THEOREM HeaderExactCorrect ==
  ASSUME InOrderReplay PROVE Spec => []HeaderExact
<1>1. SafeInv /\ [Next]_vars => SafeInv'
  BY SafeInvNext
<1>2. Spec => []SafeInv
  BY <1>1, SafeInvInit, PTL DEF Spec
<1>3. SafeInv => HeaderExact
  BY DEF SafeInv
<1> QED BY <1>2, <1>3, PTL

(* Under the same condition the buffer never keeps a frame of a page that  *)
(* was disposed of, or of a closed file.                                   *)
THEOREM CachedAllocatedCorrect ==
  ASSUME InOrderReplay PROVE Spec => []CachedAllocated
<1>1. SafeInv /\ [Next]_vars => SafeInv'
  BY SafeInvNext
<1>2. Spec => []SafeInv
  BY <1>1, SafeInvInit, PTL DEF Spec
<1>3. SafeInv => CachedAllocated
  BY DEF SafeInv
<1> QED BY <1>2, <1>3, PTL

-----------------------------------------------------------------------------
(* What a step may never do, in any order of replay: free a frame that is  *)
(* in use, or one whose content is not on disk, unless the map of          *)
(* descriptors led the write of a victim astray.                           *)

(* The frame of id may be freed: nobody holds it, or its last holder gives *)
(* it up and its page is to be disposed of.                                *)
Unheld(id) ==
  frame[id].pin = 0 \/ (frame[id].pin = 1 /\ id[2] \in disposed[id[1]])

FreesSafely ==
  \A id \in Cached : frame'[id] = NoFrame =>
    \/ id[1] \notin opened'
    \/ /\ Unheld(id)
       /\ frame[id].dirty =>
            disk'[id] = frame[id].data \/ (Stale(id[1]) /\ astray')

(* A step that changes the frames of some pages and frees none. *)
LEMMA FreesNone ==
  ASSUME \A id \in Cached : frame'[id] # NoFrame
  PROVE  FreesSafely
BY DEF FreesSafely

LEMMA SetFrameFreesNone ==
  ASSUME TypeInv, NEW id \in Cached, NEW fr \in Frame,
         frame' = [frame EXCEPT ![id] = fr]
  PROVE  FreesSafely
<1>1. frame \in [FrameId -> Frame \cup {NoFrame}]
  BY DEF TypeInv, PagesOK
<1>2. \A x \in Cached : frame'[x] # NoFrame
  BY <1>1, FrameIsNotNoFrame DEF Cached
<1> QED BY <1>2, FreesNone

(* Frames that are written back first when they are dirty. *)
LEMMA WrittenBack ==
  ASSUME TypeInv, NEW gone \in SUBSET Cached, NEW id \in gone, frame[id].dirty
  PROVE  WriteBack(DirtyOf(gone))[id] = frame[id].data /\ frame[id].data # Absent
<1>1. id \in FrameId /\ id \in DirtyOf(gone)
  BY DEF Cached, DirtyOf
<1>2. frame[id] \in Frame
  BY DEF TypeInv, PagesOK, Cached
<1>3. frame[id].data # Absent
  BY <1>2, ValuesAssumption DEF Frame, PageData
<1> QED BY <1>1, <1>3 DEF WriteBack

(* A step that frees only the unheld frames of `gone`, written back. *)
LEMMA GoneFreesSafely ==
  ASSUME TypeInv, NEW gone \in SUBSET Cached,
         \A id \in gone : Unheld(id),
         \A id \in Cached : frame'[id] = NoFrame => id \in gone,
         \A id \in gone : frame'[id] = NoFrame /\ frame[id].dirty =>
                            \/ disk'[id] = WriteBack(DirtyOf(gone))[id]
                            \/ Stale(id[1]) /\ astray'
  PROVE  FreesSafely
BY WrittenBack DEF FreesSafely

(* A victim that was written elsewhere belongs to a file whose descriptor  *)
(* leads to a deleted pool.                                                *)
LEMMA StrayIsStale ==
  ASSUME NEW gone \in RoomChoices, NEW d \in EvictedDisks(gone), WentAstray(gone, d)
  PROVE  \A x \in gone : Stale(x[1])
<1>1. PICK v \in DirtyOf(gone) : Stale(v[1])
  BY DEF EvictedDisks, WentAstray
<1>2. \A x \in gone : x = v
  BY <1>1 DEF RoomChoices, DirtyOf
<1> QED BY <1>1, <1>2

LEMMA LoadPageFrees ==
  ASSUME TypeInv, NEW f \in opened, NEW p \in PageNum, NEW hdr \in Frame,
         LoadPage(f, p, hdr)
  PROVE  FreesSafely
<1> DEFINE id == <<f, p>>
<1>1. PICK gone \in RoomChoices :
        /\ disk' \in EvictedDisks(gone)
        /\ astray' = (WentAstray(gone, disk') \/ disk'[id] = Hole)
        /\ \/ /\ disk'[id] \notin {Absent, Hole}
              /\ frame' = [FreedFrames(gone) EXCEPT
                             ![id] = PinnedFrame(disk'[id]), ![HdrId(f)] = hdr]
           \/ frame' = [FreedFrames(gone) EXCEPT ![HdrId(f)] = hdr]
  BY DEF LoadPage
<1>2. gone \subseteq Evictable /\ gone \subseteq Cached
  BY RoomIsEvictable
<1>3. \A x \in gone : Unheld(x)
  BY <1>2 DEF Evictable, Unheld
<1>4. f \in Files /\ id \in FrameId /\ HdrId(f) \in FrameId
  BY HdrIdType DEF TypeInv, PagesOK, FrameId
<1>5. disk' \in [FrameId -> PageData \cup {Absent, Hole}]
  BY <1>1, EvictedHeaders
<1>6. \A x \in FrameId : FreedFrames(gone)[x] = IF x \in gone THEN NoFrame ELSE frame[x]
  BY <1>2, FreedType DEF Cached
<1>7. \A x \in Cached : frame'[x] = NoFrame => x \in gone
  <2>1. hdr # NoFrame
    BY FrameIsNotNoFrame
  <2>2. disk'[id] \notin {Absent, Hole} => PinnedFrame(disk'[id]) # NoFrame
    BY <1>4, <1>5, PinnedFrameType, FrameIsNotNoFrame
  <2>3. DOMAIN FreedFrames(gone) = FrameId
    BY DEF FreedFrames
  <2> QED BY <1>1, <1>4, <1>6, <2>1, <2>2, <2>3 DEF Cached
<1>8. disk' = WriteBack(DirtyOf(gone)) \/ (astray' /\ \A x \in gone : Stale(x[1]))
  BY <1>1, StrayIsStale DEF WentAstray
<1> QED BY <1>2, <1>3, <1>7, <1>8, GoneFreesSafely

LEMMA FreedFreesSafely ==
  ASSUME TypeInv, NEW gone \in SUBSET Evictable,
         frame' = FreedFrames(gone), disk' = WriteBack(DirtyOf(gone))
  PROVE  FreesSafely
<1>1. gone \subseteq Cached /\ \A x \in gone : Unheld(x)
  BY DEF Evictable, Unheld
<1>2. \A x \in Cached : frame'[x] = NoFrame => x \in gone
  BY <1>1, FreedType DEF Cached
<1> QED BY <1>1, <1>2, GoneFreesSafely

LEMMA ReleaseFrees ==
  ASSUME TypeInv, NEW f \in opened, NEW p \in PageNum, p # HeaderPage,
         Release(f, p), <<f, p>> \in Cached => Unheld(<<f, p>>)
  PROVE  FreesSafely
<1> DEFINE id == <<f, p>>
           gone == {id} \cap Cached
<1>1. f \in Files /\ id \in FrameId /\ HdrId(f) \in FrameId
  BY HdrIdType DEF TypeInv, PagesOK, FrameId
<1>2. ReleasePage(Hdr(f), p) \in FileHeader
  BY OpenHeader, HeaderTypes
<1>3. HdrFrame(f, ReleasePage(Hdr(f), p)) # NoFrame
  BY <1>2, OpenHeader, FrameIsNotNoFrame
<1>4. \A x \in Cached : frame'[x] = NoFrame => x \in gone
  <2>1. \A x \in FrameId : FreedFrames({id})[x] = IF x = id THEN NoFrame ELSE frame[x]
    BY <1>1, FreedType
  <2>2. DOMAIN FreedFrames({id}) = FrameId
    BY DEF FreedFrames
  <2> QED BY <1>1, <1>3, <2>1, <2>2 DEF Release, Cached
<1>5. disk' = WriteBack(DirtyOf(gone))
  BY DEF Release
<1> QED BY <1>4, <1>5, GoneFreesSafely

LEMMA OpenFileFrees ==
  ASSUME TypeInv, NEW f \in Files, OpenFile(f)
  PROVE  FreesSafely
<1>1. PICK gone \in RoomChoices :
        /\ frame' = [FreedFrames(gone) EXCEPT ![HdrId(f)] = PinnedFrame(disk[HdrId(f)])]
        /\ disk' \in EvictedDisks(gone)
        /\ astray' = WentAstray(gone, disk')
  BY DEF OpenFile
<1>2. gone \subseteq Evictable /\ gone \subseteq Cached
  BY RoomIsEvictable
<1>3. HdrId(f) \in FrameId /\ disk[HdrId(f)] \in PageData
  BY HdrIdType, HeadersOnDisk DEF OpenFile, PageData
<1>4. PinnedFrame(disk[HdrId(f)]) # NoFrame
  BY <1>3, PinnedFrameType, FrameIsNotNoFrame
<1>5. \A x \in Cached : frame'[x] = NoFrame => x \in gone
  <2>1. \A x \in FrameId : FreedFrames(gone)[x] = IF x \in gone THEN NoFrame ELSE frame[x]
    BY <1>2, FreedType DEF Cached
  <2>2. DOMAIN FreedFrames(gone) = FrameId
    BY DEF FreedFrames
  <2> QED BY <1>1, <1>3, <1>4, <2>1, <2>2 DEF Cached
<1>6. \A x \in gone : Unheld(x)
  BY <1>2 DEF Evictable, Unheld
<1>7. disk' = WriteBack(DirtyOf(gone)) \/ (astray' /\ \A x \in gone : Stale(x[1]))
  BY <1>1, StrayIsStale DEF WentAstray
<1> QED BY <1>2, <1>5, <1>6, <1>7, GoneFreesSafely

(* The frame of the new page replaces whatever was cached under its        *)
(* number; the other victims are in the file before it is extended.        *)
LEMMA ExtendFrees ==
  ASSUME TypeInv, NEW f \in Files, ExtendWithPage(f)
  PROVE  FreesSafely
<1> DEFINE id == <<f, Hdr(f).page_count>>
           hdr == HdrFrame(f, ExtendFile(Hdr(f)))
<1>0. PICK gone \in RoomChoices, ok \in ExtendResults : \E d \in EvictedDisks(gone) :
        /\ frame' = [FreedFrames(gone) EXCEPT ![id] = PinnedFrame(Zero), ![HdrId(f)] = hdr]
        /\ disk' = IF ok THEN Written(d, id, Zero) ELSE d
        /\ astray' = WentAstray(gone, d)
  BY DEF ExtendWithPage
<1>1. PICK d \in EvictedDisks(gone) :
        /\ frame' = [FreedFrames(gone) EXCEPT ![id] = PinnedFrame(Zero), ![HdrId(f)] = hdr]
        /\ disk' = IF ok THEN Written(d, id, Zero) ELSE d
        /\ astray' = WentAstray(gone, d)
  BY <1>0
<1>2. gone \subseteq Evictable /\ gone \subseteq Cached
  BY RoomIsEvictable
<1>3. f \in opened /\ Hdr(f) \in FileHeader
  BY OpenHeader DEF ExtendWithPage
<1>4. Hdr(f).page_count \in PageNum /\ ExtendFile(Hdr(f)) \in FileHeader
  BY <1>3, ExtendType DEF ExtendWithPage
<1>5. id \in FrameId /\ HdrId(f) \in FrameId
  BY <1>4, HdrIdType DEF FrameId
<1>6. PinnedFrame(Zero) # NoFrame /\ hdr # NoFrame
  BY <1>3, <1>4, OpenHeader, PinnedFrameType, FrameIsNotNoFrame DEF PageData
<1>7. \A x \in Cached : frame'[x] = NoFrame => x \in gone /\ x # id
  <2>1. \A x \in FrameId : FreedFrames(gone)[x] = IF x \in gone THEN NoFrame ELSE frame[x]
    BY <1>2, FreedType DEF Cached
  <2>2. DOMAIN FreedFrames(gone) = FrameId
    BY DEF FreedFrames
  <2> QED BY <1>1, <1>5, <1>6, <2>1, <2>2 DEF Cached
<1>8. ASSUME NEW x \in gone, frame'[x] = NoFrame, frame[x].dirty
      PROVE  \/ disk'[x] = WriteBack(DirtyOf(gone))[x]
             \/ Stale(x[1]) /\ astray'
  <2>1. x \in FrameId /\ x # id
    BY <1>2, <1>7, <1>8 DEF Cached
  <2>2. WriteBack(DirtyOf(gone))[x] # Absent
    BY <1>2, <1>8, WrittenBack
  <2>3. CASE d = WriteBack(DirtyOf(gone))
    BY <1>1, <2>1, <2>2, <2>3 DEF Written
  <2>4. CASE d # WriteBack(DirtyOf(gone))
    BY <1>1, <1>8, <2>4, StrayIsStale DEF WentAstray
  <2> QED BY <2>3, <2>4
<1>9. \A x \in gone : Unheld(x)
  BY <1>2 DEF Evictable, Unheld
<1> QED BY <1>2, <1>7, <1>8, <1>9, GoneFreesSafely

LEMMA ReuseFrees ==
  ASSUME TypeInv, NEW f \in Files, ReuseFreePage(f)
  PROVE  FreesSafely
<1> DEFINE p == FirstFreePage(Hdr(f))
           hdr == HdrFrame(f, ReusePage(Hdr(f), p))
<1>1. f \in opened /\ Hdr(f) \in FileHeader /\ HdrId(f) \in Cached
  BY OpenHeader DEF ReuseFreePage
<1>2. p \in PageNum
  BY <1>1, FirstFreePageIsFree DEF ReuseFreePage, ClearBits
<1>3. hdr \in Frame
  BY <1>1, <1>2, HeaderTypes, OpenHeader
<1>4. CASE LoadPage(f, p, hdr)
  BY <1>1, <1>2, <1>3, <1>4, LoadPageFrees
<1>5. CASE frame' = [frame EXCEPT ![HdrId(f)] = hdr]
  BY <1>1, <1>3, <1>5, SetFrameFreesNone
<1> QED BY <1>4, <1>5 DEF ReuseFreePage

LEMMA GetThisPageFrees ==
  ASSUME TypeInv, NEW f \in Files, NEW p \in PageNum, GetThisPage(f, p)
  PROVE  FreesSafely
<1> DEFINE id == <<f, p>>
<1>1. CASE id \in Cached /\ frame' = [frame EXCEPT ![id] = Repinned(id, 1)]
  BY <1>1, FrameTypes, SetFrameFreesNone
<1>2. CASE LoadPage(f, p, frame[HdrId(f)])
  <2>1. f \in opened /\ HdrId(f) \in Cached
    BY OpenHeader DEF GetThisPage
  <2> QED BY <1>2, <2>1, FrameTypes, LoadPageFrees
<1> QED BY <1>1, <1>2 DEF GetThisPage

LEMMA UnpinFrees ==
  ASSUME TypeInv, NEW f \in Files, NEW p \in PageNum, UnpinPage(f, p)
  PROVE  FreesSafely
<1> DEFINE id == <<f, p>>
<1>1. f \in opened /\ p # HeaderPage /\ id \in Cached /\ frame[id].pin >= 1
  BY DEF UnpinPage
<1>2. CASE frame' = [frame EXCEPT ![id] = Repinned(id, -1)]
  BY <1>1, <1>2, FrameTypes, SetFrameFreesNone
<1>3. CASE frame[id].pin = 1 /\ p \in disposed[f] /\ Release(f, p)
  BY <1>1, <1>3, ReleaseFrees DEF Unheld
<1> QED BY <1>2, <1>3 DEF UnpinPage

LEMMA DisposeFrees ==
  ASSUME TypeInv, NEW f \in Files, NEW p \in PageNum, DisposePage(f, p)
  PROVE  FreesSafely
<1>1. f \in opened /\ p # HeaderPage
  BY DEF DisposePage
<1>2. CASE Release(f, p) /\ (<<f, p>> \in Cached => frame[<<f, p>>].pin = 0)
  BY <1>1, <1>2, ReleaseFrees DEF Unheld
<1>3. CASE UNCHANGED frame
  BY <1>3, FreesNone DEF Cached
<1> QED BY <1>2, <1>3 DEF DisposePage

LEMMA FlushAllFrees ==
  ASSUME TypeInv, NEW f \in Files, FlushAllPages(f)
  PROVE  FreesSafely
<1>1. PICK done \in LoopedOver(FileFrames(f), FileFrames(f)) :
        frame' = [id \in FrameId |-> IF id \in done THEN Cleaned(id) ELSE frame[id]]
  BY DEF FlushAllPages
<1>2. \A id \in Cached : Cleaned(id) # NoFrame
  BY FrameTypes, FrameIsNotNoFrame
<1>3. \A id \in Cached : frame'[id] # NoFrame
  BY <1>1, <1>2 DEF Cached
<1> QED BY <1>3, FreesNone

LEMMA NextFreesSafely == TypeInv /\ [Next]_vars => FreesSafely
<1> SUFFICES ASSUME TypeInv, [Next]_vars PROVE FreesSafely
  OBVIOUS
<1>1. CASE UNCHANGED vars
  BY <1>1, FreesNone DEF vars, Cached
<1>2. ASSUME NEW f \in Files, CreateFile(f) PROVE FreesSafely
  BY <1>2, FreesNone DEF CreateFile, Cached
<1>3. ASSUME NEW f \in Files, OpenFile(f) PROVE FreesSafely
  BY <1>3, OpenFileFrees
<1>4. ASSUME NEW f \in Files, Closed(f) PROVE FreesSafely
  <2>1. \A id \in Cached : frame'[id] = NoFrame => id[1] = f
    BY <1>4 DEF Closed, FreedFrames, FileFrames, Cached
  <2> QED BY <1>4, <2>1 DEF Closed, FreesSafely
<1>5. ASSUME NEW f \in Files, ReuseFreePage(f) PROVE FreesSafely
  BY <1>5, ReuseFrees
<1>6. ASSUME NEW f \in Files, ExtendWithPage(f) PROVE FreesSafely
  BY <1>6, ExtendFrees
<1>7. ASSUME NEW f \in Files, PurgeAllPages(f) PROVE FreesSafely
  <2>1. PICK done \in LoopedOver(UnpinnedOf(f), DirtyOf(UnpinnedOf(f))) :
          frame' = FreedFrames(done) /\ disk' = WriteBack(DirtyOf(done))
    BY <1>7 DEF PurgeAllPages
  <2>2. done \subseteq Evictable
    BY LoopedOverSubset DEF UnpinnedOf
  <2> QED BY <2>1, <2>2, FreedFreesSafely
<1>8. ASSUME NEW f \in Files, FlushAllPages(f) PROVE FreesSafely
  BY <1>8, FlushAllFrees
<1>9. ASSUME NEW f \in Files, NEW p \in PageNum, GetThisPage(f, p) PROVE FreesSafely
  BY <1>9, GetThisPageFrees
<1>10. ASSUME NEW f \in Files, NEW p \in PageNum, NEW v \in Val, WritePage(f, p, v)
       PROVE  FreesSafely
  BY <1>10, FrameTypes, SetFrameFreesNone DEF WritePage, PageData
<1>11. ASSUME NEW f \in Files, NEW p \in PageNum, UnpinPage(f, p) PROVE FreesSafely
  BY <1>11, UnpinFrees
<1>12. ASSUME NEW f \in Files, NEW p \in PageNum, DisposePage(f, p) PROVE FreesSafely
  BY <1>12, DisposeFrees
<1>13. ASSUME NEW f \in Files, NEW p \in PageNum, PurgePage(f, p) PROVE FreesSafely
  <2>1. {<<f, p>>} \subseteq Evictable
    BY <1>13 DEF PurgePage, Evictable
  <2> QED BY <1>13, <2>1, FreedFreesSafely DEF PurgePage
<1>14. ASSUME NEW f \in Files, NEW p \in PageNum, FlushPage(f, p) PROVE FreesSafely
  BY <1>14, FrameTypes, SetFrameFreesNone DEF FlushPage
<1>15. ASSUME NEW f \in Files, NEW p \in PageNum, RecoverPage(f, p) PROVE FreesSafely
  <2>1. f \in opened /\ Hdr(f) \in FileHeader
    BY <1>15, OpenHeader DEF RecoverPage
  <2>2. HdrFrame(f, RecoverPageBit(Hdr(f), p)) \in Frame
    BY <2>1, OpenHeader, HeaderTypes
  <2> QED BY <1>15, <2>1, <2>2, LoadPageFrees DEF RecoverPage
<1> QED BY <1>1, <1>2, <1>3, <1>4, <1>5, <1>6, <1>7, <1>8, <1>9, <1>10, <1>11,
           <1>12, <1>13, <1>14, <1>15 DEF Next, Step, CloseFile, CloseByManager

(* A pinned page leaves the buffer only when its file is closed, or when   *)
(* its last holder unpins a page that was disposed of: no eviction, purge, *)
(* flush or replay, of this file or another, takes a frame from its        *)
(* holder (purge_frame and begin_purge look at pin_count_).                *)
THEOREM PinnedStaysCorrect == Spec => PinnedStays
<1>1. FreesSafely =>
        \A id \in Cached :
          frame[id].pin > 0 /\ frame'[id] = NoFrame =>
            \/ id[1] \notin opened'
            \/ frame[id].pin = 1 /\ id[2] \in disposed[id[1]]
  BY SMT DEF FreesSafely, Unheld
<1>2. Spec => []TypeInv
  BY TypeInvInit, TypeInvNext, PTL DEF Spec
<1> QED BY <1>1, <1>2, NextFreesSafely, PTL DEF Spec, PinnedStays

(* A modified page leaves the buffer of an open file only when its content *)
(* is on disk, even when writes fail (purge_frame flushes before it frees, *)
(* and keeps the frame when the flush fails), with one exception: it was   *)
(* evicted, and fd_buffer_pools_ led from the descriptor of its file to a  *)
(* deleted pool.                                                           *)
THEOREM DirtyWrittenBackCorrect == Spec => DirtyWrittenBack
<1>1. FreesSafely =>
        \A id \in Cached :
          frame[id].dirty /\ frame'[id] = NoFrame /\ id[1] \in opened' =>
            \/ disk'[id] = frame[id].data
            \/ Stale(id[1]) /\ astray'
  BY DEF FreesSafely
<1>2. Spec => []TypeInv
  BY TypeInvInit, TypeInvNext, PTL DEF Spec
<1> QED BY <1>1, <1>2, NextFreesSafely, PTL DEF Spec, DirtyWrittenBack

-----------------------------------------------------------------------------
(* The pool implements PageStore up to the step in which a page goes       *)
(* astray, provided the write that extends a file succeeds (otherwise a    *)
(* clean frame is left that the file does not back) and replay meets the   *)
(* pages in the order they were allocated.  Any other write may fail.      *)

(* A clean frame equals the page in the file, so that it can be dropped.   *)
CleanOnDisk ==
  \A id \in Cached : ~ frame[id].dirty => disk[id] = frame[id].data

(* Every page a header counts, the one in memory or the one on disk, is in *)
(* the file, so that no write leaves a gap to be filled with zeros.        *)
CountedInFile ==
  \A f \in Files : \A p \in PageNum :
    /\ f \in opened /\ p < Hdr(f).page_count => disk[<<f, p>>] # Absent
    /\ disk[HdrId(f)] # Absent /\ p < disk[HdrId(f)].page_count => disk[<<f, p>>] # Absent

RefInv == SafeInv /\ CleanOnDisk /\ CountedInFile

-----------------------------------------------------------------------------
(* The operators of PageFile are the same in the instance. *)
LEMMA InstanceOperators ==
  /\ PS!PageId = FrameId
  /\ PS!PageNum = PageNum
  /\ PS!HeaderPage = HeaderPage
  /\ PS!NewHeader = NewHeader
  /\ \A h : /\ PS!HasFreePage(h) <=> HasFreePage(h)
            /\ PS!FirstFreePage(h) = FirstFreePage(h)
            /\ PS!FileIsFull(h) <=> FileIsFull(h)
            /\ PS!ExtendFile(h) = ExtendFile(h)
            /\ \A p : /\ PS!ReusePage(h, p) = ReusePage(h, p)
                      /\ PS!ReleasePage(h, p) = ReleasePage(h, p)
                      /\ PS!RecoverPageBit(h, p) = RecoverPageBit(h, p)
  BY DEF PS!PageId, PS!PageNum, PS!HeaderPage, PS!NewHeader, PS!HasFreePage,
         PS!FirstFreePage, PS!ClearBits, PS!FileIsFull, PS!ExtendFile, PS!ReusePage,
         PS!ReleasePage, PS!RecoverPageBit, FrameId, PageNum, HeaderPage, NewHeader,
         HasFreePage, FirstFreePage, ClearBits, FileIsFull, ExtendFile, ReusePage,
         ReleasePage, RecoverPageBit

LEMMA ContentIs ==
  /\ Content = [id \in FrameId |-> Content[id]]
  /\ \A id \in FrameId :
       Content[id] = IF frame[id] # NoFrame THEN frame[id].data ELSE disk[id]
  /\ Content' = [id \in FrameId |-> Content'[id]]
  /\ \A id \in FrameId :
       Content'[id] = IF frame'[id] # NoFrame THEN frame'[id].data ELSE disk'[id]
  BY DEF Content

(* What a caller reads of the header is what file_header_ points to. *)
LEMMA HeaderIs ==
  ASSUME RefInv, NEW f \in opened
  PROVE  PS!Header(f) = Hdr(f) /\ Content[HdrId(f)] = Hdr(f)
<1>1. HdrId(f) \in FrameId /\ frame[HdrId(f)] # NoFrame
  BY OpenHeader DEF RefInv, SafeInv, Cached
<1> QED BY <1>1, InstanceOperators, ContentIs DEF PS!Header, Hdr, HdrId

(* Cached pages are pages their header counts, and have data. *)
LEMMA CachedFacts ==
  ASSUME RefInv, NEW id \in Cached
  PROVE  /\ id \in FrameId /\ id = <<id[1], id[2]>> /\ id[1] \in opened
         /\ id[2] \in PageNum /\ id[2] < Hdr(id[1]).page_count
         /\ frame[id] \in Frame /\ frame[id].data \in PageData
         /\ frame[id].data # Absent
         /\ disk[id] # Absent
<1>1. id \in FrameId /\ id[1] \in opened /\ id[2] \in Hdr(id[1]).bitmap
  BY DEF RefInv, SafeInv, CachedAllocated, Cached
<1>2. id = <<id[1], id[2]>> /\ id[1] \in Files /\ id[2] \in PageNum
  BY <1>1 DEF FrameId
<1>3. frame[id] \in Frame /\ frame[id].data \in PageData
  BY <1>1 DEF RefInv, SafeInv, TypeInv, PagesOK, Cached, Frame
<1>4. ExactHeader(Hdr(id[1])) /\ Hdr(id[1]) \in FileHeader
  BY <1>1, <1>2, OpenHeader DEF RefInv, SafeInv, HeaderExact
<1>5. id[2] < Hdr(id[1]).page_count
  BY <1>1, <1>2, <1>4, SMT DEF ExactHeader, FileHeader, PageNum
<1>6. disk[id] # Absent
  BY <1>1, <1>2, <1>5 DEF RefInv, CountedInFile
<1>7. frame[id].data # Absent
  BY <1>3, ValuesAssumption DEF PageData
<1> QED BY <1>1, <1>2, <1>3, <1>5, <1>6, <1>7

(* Writing cached frames back fills no gap. *)
LEMMA WriteBackIs ==
  ASSUME RefInv, NEW ids \in SUBSET Cached
  PROVE  \A x \in FrameId :
           WriteBack(ids)[x] = IF x \in ids THEN frame[x].data ELSE disk[x]
<1> SUFFICES ASSUME NEW x \in FrameId, x \notin ids, disk[x] = Absent,
                    NEW y \in ids, y[1] = x[1], x[2] < y[2]
             PROVE  FALSE
  BY DEF WriteBack
<1>1. y[1] \in opened /\ y[2] \in PageNum /\ y[2] < Hdr(y[1]).page_count
  BY CachedFacts
<1>2. x = <<x[1], x[2]>> /\ x[1] \in Files /\ x[2] \in PageNum
  BY DEF FrameId
<1>3. Hdr(x[1]) \in FileHeader
  BY <1>1, OpenHeader DEF RefInv, SafeInv
<1>4. x[2] < Hdr(x[1]).page_count
  BY <1>1, <1>2, <1>3, MaxPageNumAssumption, SMT DEF PageNum, FileHeader
<1> QED BY <1>1, <1>2, <1>4 DEF RefInv, CountedInFile

(* After an eviction the file holds what the freed frames held, the dirty  *)
(* ones because they were written, the clean ones because they matched.    *)
LEMMA EvictedIs ==
  ASSUME RefInv, NEW gone \in SUBSET Cached
  PROVE  \A x \in FrameId :
           WriteBack(DirtyOf(gone))[x] = IF x \in gone THEN frame[x].data ELSE disk[x]
<1>1. DirtyOf(gone) \in SUBSET Cached
  BY DEF DirtyOf
<1> QED BY <1>1, WriteBackIs DEF DirtyOf, RefInv, CleanOnDisk

-----------------------------------------------------------------------------
(* What a step must do to keep CountedInFile: no page leaves the file, a   *)
(* header in memory counts what it did or one page more that is in the     *)
(* file, and a header on disk is the old one or the one in memory.         *)
LEMMA KeepsCounted ==
  ASSUME RefInv,
         \A x \in FrameId : disk[x] # Absent => disk'[x] # Absent,
         \A f \in opened' : f \in Files /\
           \/ f \in opened /\ frame'[HdrId(f)].data.page_count = Hdr(f).page_count
           \/ f \in opened /\ frame'[HdrId(f)].data.page_count = Hdr(f).page_count + 1
              /\ disk'[<<f, Hdr(f).page_count>>] # Absent
           \/ disk[HdrId(f)] # Absent /\ frame'[HdrId(f)].data = disk[HdrId(f)],
         \A f \in Files :
           \/ disk'[HdrId(f)] = disk[HdrId(f)]
           \/ f \in opened /\ disk'[HdrId(f)] = Hdr(f)
  PROVE  CountedInFile'
<1> SUFFICES ASSUME NEW f \in Files, NEW p \in PageNum
             PROVE  /\ f \in opened' /\ p < frame'[HdrId(f)].data.page_count =>
                         disk'[<<f, p>>] # Absent
                    /\ disk'[HdrId(f)] # Absent /\ p < disk'[HdrId(f)].page_count =>
                         disk'[<<f, p>>] # Absent
  BY DEF CountedInFile, Hdr, HdrId
<1>1. <<f, p>> \in FrameId
  BY DEF FrameId
<1>2. /\ f \in opened /\ p < Hdr(f).page_count => disk'[<<f, p>>] # Absent
      /\ disk[HdrId(f)] # Absent /\ p < disk[HdrId(f)].page_count => disk'[<<f, p>>] # Absent
  BY <1>1 DEF RefInv, CountedInFile
<1>3. f \in opened => Hdr(f).page_count \in Nat
  BY OpenHeader DEF RefInv, SafeInv, FileHeader
<1>4. p \in Nat
  BY MaxPageNumAssumption, SMT DEF PageNum
<1>5. f \in opened /\ p < Hdr(f).page_count + 1 =>
        p < Hdr(f).page_count \/ p = Hdr(f).page_count
  BY <1>3, <1>4, SMT
<1> QED BY <1>2, <1>5

LEMMA KeepsClean ==
  ASSUME \A id \in FrameId :
           frame'[id] # NoFrame /\ ~ frame'[id].dirty => disk'[id] = frame'[id].data
  PROVE  CleanOnDisk'
  BY DEF CleanOnDisk, Cached

(* The two shapes most steps have: the content stays, and some of it may   *)
(* become durable; ...                                                     *)
LEMMA SaveStep ==
  ASSUME opened' = opened,
         \A x \in FrameId : Content'[x] = Content[x],
         \A x \in FrameId : disk'[x] \in {disk[x], Content[x]}
  PROVE  PS!Step
<1>1. Content' = Content
  BY ContentIs
<1> QED BY <1>1, InstanceOperators DEF PS!Step, PS!Save, PS!SomeSaved

(* ... or the header of an open file changes and nothing else. *)
LEMMA HeaderStep ==
  ASSUME RefInv, NEW f \in opened, NEW h,
         \A x \in FrameId : Content'[x] = IF x = HdrId(f) THEN h ELSE Content[x],
         \A x \in FrameId : disk'[x] \in {disk[x], Content'[x]}
  PROVE  Content' = PS!WithHeader(Content, f, h) /\ PS!SomeSaved
<1>1. PS!WithHeader(Content, f, h) =
        [x \in FrameId |-> IF x = HdrId(f) THEN h ELSE Content[x]]
  BY InstanceOperators, ContentIs DEF PS!WithHeader, HdrId
<1>2. Content' = [x \in FrameId |-> IF x = HdrId(f) THEN h ELSE Content[x]]
  BY ContentIs
<1> QED BY <1>1, <1>2, InstanceOperators DEF PS!SomeSaved

-----------------------------------------------------------------------------
(* The frame table as a function on the pages. *)
LEMMA StateFacts ==
  ASSUME RefInv
  PROVE  /\ frame \in [FrameId -> Frame \cup {NoFrame}]
         /\ opened \subseteq Files
         /\ \A f \in Files : HdrId(f) \in FrameId /\ HdrId(f)[1] = f
         /\ \A f \in Files : \A p \in PageNum :
              <<f, p>> \in FrameId /\ (p # HeaderPage => \A g \in Files : HdrId(g) # <<f, p>>)
         /\ \A f \in opened : HdrId(f) \notin Evictable
<1>1. \A f \in opened : HdrId(f) \notin Evictable
  BY SMT DEF RefInv, SafeInv, TypeInv, HdrPinned, Evictable
<1> QED BY <1>1, HdrIdType DEF RefInv, SafeInv, TypeInv, PagesOK, FrameId, HdrId

(* The disk after an eviction of unpinned frames: nothing is lost, and the *)
(* headers of the open files are as they were.                             *)
LEMMA EvictionKeeps ==
  ASSUME RefInv, NEW gone \in SUBSET Evictable, disk' = WriteBack(DirtyOf(gone))
  PROVE  /\ \A x \in FrameId : disk'[x] = IF x \in gone THEN frame[x].data ELSE disk[x]
         /\ \A x \in FrameId : disk[x] # Absent => disk'[x] # Absent
         /\ \A x \in FrameId : disk[x] # disk'[x] => x \in gone
         /\ \A f \in Files : HdrId(f) \notin gone
<1>1. gone \in SUBSET Cached
  BY DEF Evictable
<1>2. \A x \in FrameId : disk'[x] = IF x \in gone THEN frame[x].data ELSE disk[x]
  BY <1>1, EvictedIs
<1>3. \A f \in Files : HdrId(f) \notin gone
  BY <1>1, CachedFacts, StateFacts
<1> QED BY <1>1, <1>2, <1>3, CachedFacts

(* get_this_page on a page that is not cached, when the header frame stays *)
(* or becomes dirty.                                                       *)
LEMMA LoadPageRef ==
  ASSUME RefInv, NEW f \in opened, NEW p \in PageNum, p # HeaderPage, <<f, p>> \notin Cached,
         NEW hdr \in Frame, hdr.dirty \/ hdr = frame[HdrId(f)],
         LoadPage(f, p, hdr), ~ astray', UNCHANGED opened,
         \/ hdr.data.page_count = Hdr(f).page_count
         \/ /\ hdr.data.page_count = Hdr(f).page_count + 1
            /\ p = Hdr(f).page_count /\ disk[<<f, p>>] # Absent
  PROVE  /\ CleanOnDisk' /\ CountedInFile'
         /\ \A x \in FrameId : Content'[x] = IF x = HdrId(f) THEN hdr.data ELSE Content[x]
         /\ \A x \in FrameId : disk'[x] \in {disk[x], Content'[x]}
<1> DEFINE id == <<f, p>>
<1>1. PICK gone \in RoomChoices :
        /\ disk' = WriteBack(DirtyOf(gone)) /\ disk'[id] # Hole
        /\ \/ /\ disk'[id] # Absent
              /\ frame' = [FreedFrames(gone) EXCEPT
                             ![id] = PinnedFrame(disk'[id]), ![HdrId(f)] = hdr]
           \/ /\ disk'[id] = Absent
              /\ frame' = [FreedFrames(gone) EXCEPT ![HdrId(f)] = hdr]
  BY DEF LoadPage, WentAstray
<1>2. gone \in SUBSET Evictable /\ gone \subseteq Cached
  BY RoomIsEvictable
<1>3. /\ f \in Files /\ id \in FrameId /\ HdrId(f) \in FrameId
      /\ \A g \in Files : HdrId(g) \in FrameId /\ HdrId(g) # id
      /\ \A g \in Files : g # f => HdrId(g) # HdrId(f)
  BY StateFacts
<1>4. /\ \A x \in FrameId : disk'[x] = IF x \in gone THEN frame[x].data ELSE disk[x]
      /\ \A x \in FrameId : disk[x] # Absent => disk'[x] # Absent
      /\ \A g \in Files : HdrId(g) \notin gone
  BY <1>1, <1>2, EvictionKeeps
<1>5. \/ PinnedFrame(disk'[id]).data = disk'[id] /\ PinnedFrame(disk'[id]) # NoFrame
      \/ disk'[id] = Absent
  <2>1. disk'[id] = disk[id]
    BY <1>2, <1>3, <1>4
  <2>2. disk[id] \in PageData \cup {Absent, Hole}
    BY <1>3 DEF RefInv, SafeInv, TypeInv, PagesOK
  <2>3. disk'[id] \in PageData \/ disk'[id] = Absent
    BY <1>1, <2>1, <2>2
  <2> QED BY <2>3, PinnedFrameType, FrameIsNotNoFrame
<1>6. \A x \in FrameId :
        frame'[x] = IF x = HdrId(f) THEN hdr
                    ELSE IF x = id /\ disk'[id] # Absent THEN PinnedFrame(disk'[id])
                    ELSE IF x \in gone THEN NoFrame ELSE frame[x]
  BY <1>1, <1>3 DEF FreedFrames
<1>7. hdr # NoFrame /\ frame[id] = NoFrame /\ id \notin gone /\ frame[HdrId(f)] # NoFrame
  BY <1>2, <1>3, FrameIsNotNoFrame, OpenHeader DEF Cached, RefInv, SafeInv
<1>8. CleanOnDisk'
  <2> SUFFICES ASSUME NEW x \in FrameId, frame'[x] # NoFrame, ~ frame'[x].dirty
               PROVE  disk'[x] = frame'[x].data
    BY KeepsClean
  <2>1. CASE x = HdrId(f)
    BY <1>3, <1>4, <1>6, <1>7, <2>1 DEF RefInv, CleanOnDisk, Cached
  <2>2. CASE x = id /\ disk'[id] # Absent
    BY <1>3, <1>5, <1>6, <2>2
  <2>3. CASE x # HdrId(f) /\ ~ (x = id /\ disk'[id] # Absent)
    BY <1>4, <1>6, <2>3 DEF RefInv, CleanOnDisk, Cached
  <2> QED BY <2>1, <2>2, <2>3
<1>9. CountedInFile'
  <2>1. \A g \in opened : g \in Files
    BY StateFacts
  <2>2. frame'[HdrId(f)].data = hdr.data
    BY <1>3, <1>6
  <2>3. \A g \in opened : g # f => frame'[HdrId(g)].data = Hdr(g)
    BY <1>3, <1>4, <1>6, <2>1 DEF Hdr
  <2>4. hdr.data.page_count = Hdr(f).page_count + 1 /\ p = Hdr(f).page_count /\ disk[id] # Absent
          => disk'[<<f, Hdr(f).page_count>>] # Absent
    BY <1>3, <1>4
  <2>5. \A g \in Files : disk'[HdrId(g)] = disk[HdrId(g)]
    BY <1>3, <1>4
  <2> QED BY <1>4, <2>1, <2>2, <2>3, <2>4, <2>5, KeepsCounted
<1>10. \A x \in FrameId : Content'[x] = IF x = HdrId(f) THEN hdr.data ELSE Content[x]
  <2> SUFFICES ASSUME NEW x \in FrameId
               PROVE  Content'[x] = IF x = HdrId(f) THEN hdr.data ELSE Content[x]
    OBVIOUS
  <2>1. CASE x = HdrId(f)
    BY <1>6, <1>7, <2>1, ContentIs
  <2>2. CASE x = id /\ disk'[id] # Absent
    BY <1>3, <1>4, <1>5, <1>6, <1>7, <2>2, ContentIs
  <2>3. CASE x # HdrId(f) /\ ~ (x = id /\ disk'[id] # Absent)
    BY <1>2, <1>4, <1>6, <2>3, ContentIs DEF Cached
  <2> QED BY <2>1, <2>2, <2>3
<1>11. \A x \in FrameId : disk'[x] \in {disk[x], Content'[x]}
  BY <1>2, <1>3, <1>4, <1>10, ContentIs DEF Cached
<1> QED BY <1>8, <1>9, <1>10, <1>11

(* One frame is replaced by a dirty one, or only its pin count changes. *)
LEMMA SetFrameRef ==
  ASSUME RefInv, NEW id \in Cached, NEW fr \in Frame,
         frame' = [frame EXCEPT ![id] = fr], UNCHANGED <<disk, opened>>,
         \/ fr.dirty
         \/ fr.data = frame[id].data /\ fr.dirty = frame[id].dirty,
         id[2] = HeaderPage => fr.data.page_count = frame[id].data.page_count
  PROVE  /\ CleanOnDisk' /\ CountedInFile'
         /\ \A x \in FrameId : Content'[x] = IF x = id THEN fr.data ELSE Content[x]
<1>1. \A x \in FrameId : frame'[x] = IF x = id THEN fr ELSE frame[x]
  BY StateFacts
<1>2. id \in FrameId /\ frame[id] # NoFrame /\ fr # NoFrame
  BY FrameIsNotNoFrame DEF Cached
<1>3. CleanOnDisk'
  BY <1>1, <1>2, KeepsClean DEF RefInv, CleanOnDisk, Cached
<1>4. CountedInFile'
  <2>1. \A g \in opened : g \in Files /\ HdrId(g) \in FrameId /\ HdrId(g)[2] = HeaderPage
    BY StateFacts, HdrIdType
  <2>2. \A g \in opened : frame'[HdrId(g)].data.page_count = Hdr(g).page_count
    BY <1>1, <2>1 DEF Hdr
  <2> QED BY <2>1, <2>2, KeepsCounted
<1> QED BY <1>1, <1>2, <1>3, <1>4, ContentIs

(* Unpinned frames are freed, written if dirty: the pool as its callers    *)
(* see it stays the same.                                                  *)
LEMMA PurgeRef ==
  ASSUME RefInv, NEW gone \in SUBSET Evictable,
         frame' = FreedFrames(gone), disk' = WriteBack(DirtyOf(gone)), UNCHANGED opened
  PROVE  CleanOnDisk' /\ CountedInFile' /\ PS!Step
<1>1. /\ \A x \in FrameId : disk'[x] = IF x \in gone THEN frame[x].data ELSE disk[x]
      /\ \A x \in FrameId : disk[x] # Absent => disk'[x] # Absent
      /\ \A g \in Files : HdrId(g) \notin gone
  BY EvictionKeeps
<1>2. \A x \in FrameId : frame'[x] = IF x \in gone THEN NoFrame ELSE frame[x]
  BY DEF FreedFrames
<1>3. gone \subseteq Cached
  BY DEF Evictable
<1>4. CleanOnDisk'
  BY <1>1, <1>2, KeepsClean DEF RefInv, CleanOnDisk, Cached
<1>5. CountedInFile'
  <2>1. \A g \in Files : HdrId(g) \in FrameId
    BY StateFacts
  <2>2. \A g \in opened : g \in Files /\ frame'[HdrId(g)].data = Hdr(g)
    BY <1>1, <1>2, <2>1, StateFacts DEF Hdr
  <2>3. \A g \in Files : disk'[HdrId(g)] = disk[HdrId(g)]
    BY <1>1, <2>1
  <2> QED BY <1>1, <2>2, <2>3, KeepsCounted
<1>6. \A x \in FrameId : Content'[x] = Content[x]
  BY <1>1, <1>2, <1>3, ContentIs DEF Cached
<1>7. \A x \in FrameId : disk'[x] \in {disk[x], Content[x]}
  BY <1>1, <1>3, ContentIs DEF Cached
<1> QED BY <1>4, <1>5, <1>6, <1>7, SaveStep

(* Frames are written and cleaned, and stay. *)
LEMMA FlushRef ==
  ASSUME RefInv, NEW done \in SUBSET Cached,
         \A x \in FrameId : frame'[x] = IF x \in done THEN Cleaned(x) ELSE frame[x],
         disk' = WriteBack(done), UNCHANGED opened
  PROVE  CleanOnDisk' /\ CountedInFile' /\ PS!Step
<1>1. \A x \in FrameId : disk'[x] = IF x \in done THEN frame[x].data ELSE disk[x]
  BY WriteBackIs
<1>2. \A x \in done : /\ x \in FrameId /\ frame[x] # NoFrame /\ frame[x].data # Absent
                      /\ Cleaned(x) # NoFrame /\ Cleaned(x).data = frame[x].data
  BY CachedFacts, FrameTypes, FrameIsNotNoFrame DEF Cached, Cleaned, RefInv, SafeInv
<1>3. CleanOnDisk'
  BY <1>1, <1>2, KeepsClean DEF RefInv, CleanOnDisk, Cached
<1>4. CountedInFile'
  <2>1. \A g \in Files : HdrId(g) \in FrameId /\ HdrId(g)[1] = g
    BY StateFacts
  <2>2. \A g \in opened : g \in Files /\ frame'[HdrId(g)].data = Hdr(g)
    BY <1>2, <2>1, StateFacts DEF Hdr
  <2>3. \A g \in Files : \/ disk'[HdrId(g)] = disk[HdrId(g)]
                         \/ g \in opened /\ disk'[HdrId(g)] = Hdr(g)
    BY <1>1, <2>1, CachedFacts DEF Hdr
  <2>4. \A x \in FrameId : disk[x] # Absent => disk'[x] # Absent
    BY <1>1, <1>2
  <2> QED BY <2>2, <2>3, <2>4, KeepsCounted
<1>5. \A x \in FrameId : Content'[x] = Content[x]
  BY <1>1, <1>2, ContentIs
<1>6. \A x \in FrameId : disk'[x] \in {disk[x], Content[x]}
  BY <1>1, <1>2, ContentIs
<1> QED BY <1>3, <1>4, <1>5, <1>6, SaveStep

(* dispose_page of an allocated page: the content of the page stays in the *)
(* file, and only the header changes.                                      *)
LEMMA ReleaseRef ==
  ASSUME RefInv, NEW f \in opened, NEW p \in Hdr(f).bitmap \ {HeaderPage},
         Release(f, p), UNCHANGED opened
  PROVE  CleanOnDisk' /\ CountedInFile' /\ PS!Step
<1> DEFINE id == <<f, p>>
           h == ReleasePage(Hdr(f), p)
           hdr == HdrFrame(f, h)
           gone == {id} \cap Cached
<1>1. f \in Files /\ Hdr(f) \in FileHeader /\ HdrId(f) \in Cached /\ p \in PageNum
  BY OpenHeader DEF RefInv, SafeInv, FileHeader
<1>2. h \in FileHeader /\ h.page_count = Hdr(f).page_count
  BY <1>1, HeaderTypes DEF ReleasePage
<1>3. hdr \in Frame /\ hdr.data = h /\ hdr.dirty /\ hdr # NoFrame
  BY <1>2, OpenHeader, FrameIsNotNoFrame DEF RefInv, SafeInv, HdrFrame, Modified
<1>4. /\ id \in FrameId
      /\ \A g \in Files : HdrId(g) \in FrameId /\ HdrId(g) # id
      /\ \A g \in Files : g # f => HdrId(g) # HdrId(f)
  BY <1>1, StateFacts
<1>5. \A x \in FrameId : disk'[x] = IF x \in gone THEN frame[x].data ELSE disk[x]
  BY EvictedIs DEF Release
<1>6. \A x \in FrameId :
        frame'[x] = IF x = HdrId(f) THEN hdr
                    ELSE IF x = id THEN NoFrame ELSE frame[x]
  BY <1>1, <1>4 DEF Release, FreedFrames
<1>7. \A x \in FrameId : disk[x] # Absent => disk'[x] # Absent
  BY <1>5, CachedFacts
<1>8. CleanOnDisk'
  <2> SUFFICES ASSUME NEW x \in FrameId, frame'[x] # NoFrame, ~ frame'[x].dirty
               PROVE  disk'[x] = frame'[x].data
    BY KeepsClean
  <2> QED BY <1>3, <1>5, <1>6 DEF RefInv, CleanOnDisk, Cached
<1>9. CountedInFile'
  <2>1. \A g \in opened : g \in Files /\
          frame'[HdrId(g)].data.page_count = Hdr(g).page_count
    BY <1>2, <1>3, <1>4, <1>6, StateFacts DEF Hdr
  <2>2. \A g \in Files : disk'[HdrId(g)] = disk[HdrId(g)]
    BY <1>4, <1>5
  <2> QED BY <1>7, <2>1, <2>2, KeepsCounted
<1>10. \A x \in FrameId : Content'[x] = IF x = HdrId(f) THEN h ELSE Content[x]
  BY <1>3, <1>4, <1>5, <1>6, ContentIs DEF Cached
<1>11. \A x \in FrameId : disk'[x] \in {disk[x], Content'[x]}
  <2>1. \A x \in gone : x \in FrameId /\ x # HdrId(f) /\ Content[x] = frame[x].data
    BY <1>1, <1>4, ContentIs DEF Cached
  <2> QED BY <1>5, <1>10, <2>1
<1>12. Content' = PS!WithHeader(Content, f, h) /\ PS!SomeSaved
  BY <1>10, <1>11, HeaderStep
<1>13. PS!Free(f, p)
  BY <1>12, HeaderIs, InstanceOperators DEF PS!Free
<1> QED BY <1>1, <1>8, <1>9, <1>13, InstanceOperators DEF PS!Step

-----------------------------------------------------------------------------
(* The operations, one by one. *)
LEMMA GetThisPageRef ==
  ASSUME RefInv, NEW f \in Files, NEW p \in PageNum, GetThisPage(f, p), ~ astray'
  PROVE  CleanOnDisk' /\ CountedInFile' /\ PS!Step
<1> DEFINE id == <<f, p>>
<1>1. f \in opened /\ p # HeaderPage /\ UNCHANGED opened
  BY DEF GetThisPage
<1>2. CASE id \in Cached /\ frame' = [frame EXCEPT ![id] = Repinned(id, 1)] /\ UNCHANGED disk
  <2>1. /\ Repinned(id, 1) \in Frame
        /\ Repinned(id, 1).data = frame[id].data
        /\ Repinned(id, 1).dirty = frame[id].dirty
    BY <1>2, FrameTypes DEF RefInv, SafeInv, Repinned
  <2>2. /\ CleanOnDisk' /\ CountedInFile'
        /\ \A x \in FrameId : Content'[x] = IF x = id THEN frame[id].data ELSE Content[x]
    BY <1>1, <1>2, <2>1, SetFrameRef
  <2>3. \A x \in FrameId : Content'[x] = Content[x]
    BY <1>2, <2>2, ContentIs DEF Cached
  <2> QED BY <1>1, <1>2, <2>2, <2>3, SaveStep
<1>3. CASE id \notin Cached /\ LoadPage(f, p, frame[HdrId(f)])
  <2>1. frame[HdrId(f)] \in Frame
    BY <1>1, OpenHeader, CachedFacts DEF RefInv, SafeInv
  <2>2. /\ CleanOnDisk' /\ CountedInFile'
        /\ \A x \in FrameId : Content'[x] = IF x = HdrId(f) THEN Hdr(f) ELSE Content[x]
        /\ \A x \in FrameId : disk'[x] \in {disk[x], Content'[x]}
    BY <1>1, <1>3, <2>1, LoadPageRef DEF Hdr
  <2>3. \A x \in FrameId : Content'[x] = Content[x]
    BY <1>1, <2>2, HeaderIs
  <2> QED BY <1>1, <2>2, <2>3, SaveStep
<1> QED BY <1>2, <1>3 DEF GetThisPage

LEMMA WritePageRef ==
  ASSUME RefInv, NEW f \in Files, NEW p \in PageNum, NEW v \in Val, WritePage(f, p, v)
  PROVE  CleanOnDisk' /\ CountedInFile' /\ PS!Step
<1> DEFINE id == <<f, p>>
<1>1. /\ f \in opened /\ p # HeaderPage /\ id \in Cached
      /\ frame' = [frame EXCEPT ![id] = Modified(id, v)] /\ UNCHANGED <<disk, opened>>
  BY DEF WritePage
<1>2. Modified(id, v) \in Frame /\ Modified(id, v).dirty /\ Modified(id, v).data = v
  <2>1. TypeInv /\ v \in PageData
    BY DEF PageData, RefInv, SafeInv
  <2>2. Modified(id, v) \in Frame
    BY <1>1, <2>1, FrameTypes
  <2>3. Modified(id, v).dirty = TRUE /\ Modified(id, v).data = v
    BY DEF Modified
  <2> QED BY <2>2, <2>3
<1>3. /\ CleanOnDisk' /\ CountedInFile'
      /\ \A x \in FrameId : Content'[x] = IF x = id THEN v ELSE Content[x]
  BY <1>1, <1>2, SetFrameRef
<1>4. Content' = [Content EXCEPT ![id] = v]
  BY <1>3, ContentIs
<1>5. p \in Hdr(f).bitmap
  BY <1>1 DEF RefInv, SafeInv, CachedAllocated
<1>6. PS!Write(f, p, v)
  BY <1>1, <1>4, <1>5, HeaderIs, InstanceOperators DEF PS!Write
<1> QED BY <1>3, <1>6, InstanceOperators DEF PS!Step

(* The page allocate_page hands out again is not cached, so it is loaded;  *)
(* when it cannot be, the bit is set all the same.                         *)
LEMMA ReuseFreePageRef ==
  ASSUME RefInv, NEW f \in Files, ReuseFreePage(f), ~ astray'
  PROVE  CleanOnDisk' /\ CountedInFile' /\ PS!Step
<1> DEFINE p == FirstFreePage(Hdr(f))
           h == ReusePage(Hdr(f), p)
           hdr == HdrFrame(f, h)
<1>1. f \in opened /\ HasFreePage(Hdr(f)) /\ UNCHANGED opened
  BY DEF ReuseFreePage
<1>2. Hdr(f) \in FileHeader /\ HdrId(f) \in Cached
  BY <1>1, OpenHeader DEF RefInv, SafeInv
<1>3. p \in PageNum /\ p \notin Hdr(f).bitmap /\ p # HeaderPage
  BY <1>1, <1>2, FirstFreePageIsFree DEF ClearBits, FileHeader
<1>4. h \in FileHeader /\ h.page_count = Hdr(f).page_count
  BY <1>2, <1>3, HeaderTypes DEF ReusePage
<1>5. hdr \in Frame /\ hdr.data = h /\ hdr.dirty
  BY <1>1, <1>4, OpenHeader DEF RefInv, SafeInv, HdrFrame, Modified
<1>6. <<f, p>> \notin Cached
  BY <1>3 DEF RefInv, SafeInv, CachedAllocated
<1>7. /\ CleanOnDisk' /\ CountedInFile'
      /\ \A x \in FrameId : Content'[x] = IF x = HdrId(f) THEN h ELSE Content[x]
      /\ \A x \in FrameId : disk'[x] \in {disk[x], Content'[x]}
  <2>1. CASE LoadPage(f, p, hdr)
    BY <1>1, <1>3, <1>4, <1>5, <1>6, <2>1, LoadPageRef
  <2>2. CASE frame' = [frame EXCEPT ![HdrId(f)] = hdr] /\ UNCHANGED disk
    <3>1. hdr.data.page_count = frame[HdrId(f)].data.page_count
      BY <1>4, <1>5 DEF Hdr
    <3> HIDE DEF hdr, h
    <3> QED BY <1>1, <1>2, <1>5, <2>2, <3>1, SetFrameRef
  <2> QED BY <2>1, <2>2 DEF ReuseFreePage
<1>8. Content' = PS!WithHeader(Content, f, h) /\ PS!SomeSaved
  BY <1>1, <1>7, HeaderStep
<1>9. PS!Reuse(f)
  BY <1>1, <1>8, HeaderIs, InstanceOperators DEF PS!Reuse
<1> QED BY <1>7, <1>9 DEF PS!Step

LEMMA RecoverPageRef ==
  ASSUME RefInv, InOrderReplay, NEW f \in Files, NEW p \in PageNum, RecoverPage(f, p), ~ astray'
  PROVE  CleanOnDisk' /\ CountedInFile' /\ PS!Step
<1> DEFINE h == RecoverPageBit(Hdr(f), p)
           hdr == HdrFrame(f, h)
<1>1. /\ f \in opened /\ disk[<<f, p>>] # Absent /\ p \notin Hdr(f).bitmap
      /\ p = Hdr(f).page_count /\ LoadPage(f, p, hdr) /\ UNCHANGED opened
  BY DEF RecoverPage
<1>2. Hdr(f) \in FileHeader
  BY <1>1, OpenHeader DEF RefInv, SafeInv
<1>3. p # HeaderPage /\ <<f, p>> \notin Cached
  BY <1>1, <1>2 DEF RefInv, SafeInv, CachedAllocated, FileHeader
<1>4. h \in FileHeader /\ h.page_count = Hdr(f).page_count + 1
  BY <1>1, <1>2, HeaderTypes DEF RecoverPageBit
<1>5. hdr \in Frame /\ hdr.data = h /\ hdr.dirty
  BY <1>1, <1>4, OpenHeader DEF RefInv, SafeInv, HdrFrame, Modified
<1> HIDE DEF h, hdr
<1>6. /\ CleanOnDisk' /\ CountedInFile'
      /\ \A x \in FrameId : Content'[x] = IF x = HdrId(f) THEN h ELSE Content[x]
      /\ \A x \in FrameId : disk'[x] \in {disk[x], Content'[x]}
  BY <1>1, <1>3, <1>4, <1>5, LoadPageRef
<1>7. Content' = PS!WithHeader(Content, f, h) /\ PS!SomeSaved
  BY <1>1, <1>6, HeaderStep
<1>8. PS!Recover(f, p)
  BY <1>1, <1>7, HeaderIs, InstanceOperators DEF PS!Recover, h
<1> QED BY <1>6, <1>8, InstanceOperators DEF PS!Step

LEMMA UnchangedRef ==
  ASSUME RefInv, UNCHANGED <<frame, disk, opened>>
  PROVE  CleanOnDisk' /\ CountedInFile' /\ PS!Step
<1>1. CleanOnDisk' /\ CountedInFile'
  BY DEF RefInv, CleanOnDisk, CountedInFile, Cached, Hdr, HdrId
<1>2. \A x \in FrameId : Content'[x] = Content[x]
  BY ContentIs
<1> QED BY <1>1, <1>2, SaveStep

LEMMA DisposePageRef ==
  ASSUME RefInv, NEW f \in Files, NEW p \in PageNum, DisposePage(f, p)
  PROVE  CleanOnDisk' /\ CountedInFile' /\ PS!Step
<1>1. f \in opened /\ p \in Hdr(f).bitmap \ {HeaderPage} /\ UNCHANGED opened
  BY DEF DisposePage
<1>2. CASE Release(f, p)
  BY <1>1, <1>2, ReleaseRef
<1>3. CASE UNCHANGED <<frame, disk>>
  BY <1>1, <1>3, UnchangedRef
<1> QED BY <1>2, <1>3 DEF DisposePage

LEMMA UnpinPageRef ==
  ASSUME RefInv, NEW f \in Files, NEW p \in PageNum, UnpinPage(f, p)
  PROVE  CleanOnDisk' /\ CountedInFile' /\ PS!Step
<1> DEFINE id == <<f, p>>
<1>1. /\ f \in opened /\ p # HeaderPage /\ id \in Cached /\ frame[id].pin >= 1
      /\ UNCHANGED opened
  BY DEF UnpinPage
<1>2. CASE frame' = [frame EXCEPT ![id] = Repinned(id, -1)] /\ UNCHANGED disk
  <2>1. /\ Repinned(id, -1) \in Frame
        /\ Repinned(id, -1).data = frame[id].data
        /\ Repinned(id, -1).dirty = frame[id].dirty
    BY <1>1, FrameTypes DEF RefInv, SafeInv, Repinned
  <2>2. /\ CleanOnDisk' /\ CountedInFile'
        /\ \A x \in FrameId : Content'[x] = IF x = id THEN frame[id].data ELSE Content[x]
    BY <1>1, <1>2, <2>1, SetFrameRef
  <2>3. \A x \in FrameId : Content'[x] = Content[x]
    BY <1>1, <2>2, ContentIs DEF Cached
  <2> QED BY <1>1, <1>2, <2>2, <2>3, SaveStep
<1>3. CASE Release(f, p)
  <2>1. p \in Hdr(f).bitmap
    BY <1>1 DEF RefInv, SafeInv, CachedAllocated
  <2> QED BY <1>1, <1>3, <2>1, ReleaseRef
<1> QED BY <1>2, <1>3 DEF UnpinPage

LEMMA PurgePageRef ==
  ASSUME RefInv, NEW f \in Files, NEW p \in PageNum, PurgePage(f, p)
  PROVE  CleanOnDisk' /\ CountedInFile' /\ PS!Step
<1>1. {<<f, p>>} \in SUBSET Evictable
  BY DEF PurgePage, Evictable
<1> QED BY <1>1, PurgeRef DEF PurgePage

LEMMA PurgeAllPagesRef ==
  ASSUME RefInv, NEW f \in Files, PurgeAllPages(f)
  PROVE  CleanOnDisk' /\ CountedInFile' /\ PS!Step
<1>1. PICK done \in LoopedOver(UnpinnedOf(f), DirtyOf(UnpinnedOf(f))) :
        frame' = FreedFrames(done) /\ disk' = WriteBack(DirtyOf(done))
  BY DEF PurgeAllPages
<1>2. done \in SUBSET Evictable
  BY LoopedOverSubset DEF UnpinnedOf
<1>3. UNCHANGED opened
  BY DEF PurgeAllPages
<1> QED BY <1>1, <1>2, <1>3, PurgeRef

LEMMA FlushPageRef ==
  ASSUME RefInv, NEW f \in Files, NEW p \in PageNum, FlushPage(f, p)
  PROVE  CleanOnDisk' /\ CountedInFile' /\ PS!Step
<1> DEFINE id == <<f, p>>
<1>1. /\ {id} \in SUBSET Cached /\ disk' = WriteBack({id}) /\ UNCHANGED opened
      /\ frame' = [frame EXCEPT ![id] = Cleaned(id)]
  BY DEF FlushPage
<1>2. \A x \in FrameId : frame'[x] = IF x \in {id} THEN Cleaned(x) ELSE frame[x]
  BY <1>1, StateFacts
<1> QED BY <1>1, <1>2, FlushRef

LEMMA FlushAllPagesRef ==
  ASSUME RefInv, NEW f \in Files, FlushAllPages(f)
  PROVE  CleanOnDisk' /\ CountedInFile' /\ PS!Step
<1>1. PICK done \in LoopedOver(FileFrames(f), FileFrames(f)) :
        /\ frame' = [id \in FrameId |-> IF id \in done THEN Cleaned(id) ELSE frame[id]]
        /\ disk' = WriteBack(done)
  BY DEF FlushAllPages
<1>2. done \in SUBSET Cached /\ UNCHANGED opened
  BY LoopedOverSubset DEF FileFrames, FlushAllPages
<1> QED BY <1>1, <1>2, FlushRef

(* close_file frees the frames without writing them: the callers are back  *)
(* at what the file holds.                                                 *)
LEMMA ClosedRef ==
  ASSUME RefInv, NEW f \in Files, Closed(f)
  PROVE  CleanOnDisk' /\ CountedInFile' /\ PS!Step
<1>1. f \in opened /\ opened' = opened \ {f} /\ UNCHANGED disk
  BY DEF Closed
<1>2. \A x \in FrameId : frame'[x] = IF x[1] = f THEN NoFrame ELSE frame[x]
  BY DEF Closed, FreedFrames, FileFrames, Cached
<1>3. CleanOnDisk'
  BY <1>1, <1>2, KeepsClean DEF RefInv, CleanOnDisk, Cached
<1>4. CountedInFile'
  <2>1. \A g \in opened' : g \in opened /\ g \in Files /\ frame'[HdrId(g)].data = Hdr(g)
    BY <1>1, <1>2, StateFacts DEF Hdr
  <2> QED BY <1>1, <2>1, KeepsCounted
<1>5. Content' = [x \in FrameId |-> IF x[1] = f THEN disk[x] ELSE Content[x]]
  BY <1>1, <1>2, ContentIs
<1>6. PS!Close(f)
  BY <1>1, <1>5, InstanceOperators DEF PS!Close
<1> QED BY <1>3, <1>4, <1>6 DEF PS!Step

LEMMA OpenFileRef ==
  ASSUME RefInv, NEW f \in Files, OpenFile(f), ~ astray'
  PROVE  CleanOnDisk' /\ CountedInFile' /\ PS!Step
<1> DEFINE id == HdrId(f)
           fr == PinnedFrame(disk[id])
<1>1. f \notin opened /\ disk[id] # Absent /\ opened' = opened \cup {f}
  BY DEF OpenFile
<1>2. PICK gone \in RoomChoices :
        /\ frame' = [FreedFrames(gone) EXCEPT ![id] = fr]
        /\ disk' = WriteBack(DirtyOf(gone))
  BY DEF OpenFile, WentAstray
<1>3. gone \in SUBSET Evictable /\ gone \subseteq Cached
  BY RoomIsEvictable
<1>4. \A g \in Files : HdrId(g) \in FrameId /\ HdrId(g)[1] = g
  BY StateFacts
<1>5. /\ \A x \in FrameId : disk'[x] = IF x \in gone THEN frame[x].data ELSE disk[x]
      /\ \A x \in FrameId : disk[x] # Absent => disk'[x] # Absent
      /\ \A g \in Files : HdrId(g) \notin gone
  BY <1>2, <1>3, EvictionKeeps
<1>6. fr # NoFrame /\ fr.data = disk[id]
  <2>1. disk[id] \in PageData \cup {Absent}
    BY HeadersOnDisk DEF RefInv, SafeInv, PageData
  <2> QED BY <1>1, <2>1, PinnedFrameType, FrameIsNotNoFrame
<1>7. \A x \in FrameId :
        frame'[x] = IF x = id THEN fr ELSE IF x \in gone THEN NoFrame ELSE frame[x]
  BY <1>2, <1>4 DEF FreedFrames
<1>8. frame[id] = NoFrame
  BY <1>1, <1>4, CachedFacts DEF Cached
<1> HIDE DEF fr
<1>9. CleanOnDisk'
  BY <1>4, <1>5, <1>6, <1>7, KeepsClean DEF RefInv, CleanOnDisk, Cached
<1>10. CountedInFile'
  <2>1. \A g \in opened' : g \in Files
    BY <1>1, StateFacts
  <2>2. frame'[HdrId(f)].data = disk[HdrId(f)]
    BY <1>4, <1>6, <1>7
  <2>3. \A g \in opened : frame'[HdrId(g)].data = Hdr(g)
    BY <1>1, <1>4, <1>5, <1>7, <2>1 DEF Hdr
  <2>4. \A g \in Files : disk'[HdrId(g)] = disk[HdrId(g)]
    BY <1>4, <1>5
  <2> QED BY <1>1, <1>5, <2>1, <2>2, <2>3, <2>4, KeepsCounted
<1>11. \A x \in FrameId : Content'[x] = Content[x]
  BY <1>3, <1>4, <1>5, <1>6, <1>7, <1>8, ContentIs DEF Cached
<1>12. \A x \in FrameId : disk'[x] \in {disk[x], Content'[x]}
  BY <1>3, <1>5, <1>11, ContentIs DEF Cached
<1>13. Content' = Content
  BY <1>11, ContentIs
<1>14. PS!Header(f) = disk[id]
  BY <1>4, <1>8, ContentIs, InstanceOperators DEF PS!Header, HdrId
<1>15. PS!Open(f)
  BY <1>1, <1>12, <1>13, <1>14, InstanceOperators DEF PS!Open, PS!SomeSaved
<1> QED BY <1>9, <1>10, <1>15 DEF PS!Step

LEMMA CreateFileRef ==
  ASSUME RefInv, NEW f \in Files, CreateFile(f)
  PROVE  CleanOnDisk' /\ CountedInFile' /\ PS!Step
<1> DEFINE id == HdrId(f)
<1>1. disk[id] = Absent /\ UNCHANGED <<frame, opened>> /\ f \in Files
  BY DEF CreateFile
<1>2. \A g \in Files : HdrId(g) \in FrameId /\ (g # f => HdrId(g) # id)
  BY StateFacts
<1>3. \A x \in FrameId : disk'[x] = IF x = id THEN NewHeader ELSE disk[x]
  BY <1>2 DEF CreateFile, RefInv, SafeInv, TypeInv, PagesOK
<1>4. f \notin opened /\ id \notin Cached /\ NewHeader # Absent /\ NewHeader.page_count = 1
  BY <1>1, OpenHeader, CachedFacts, NewHeaderExact, ValuesAssumption
     DEF RefInv, SafeInv, NewHeader
<1>5. CleanOnDisk'
  BY <1>1, <1>3, <1>4 DEF RefInv, CleanOnDisk, Cached
<1>6. CountedInFile'
  <2> SUFFICES ASSUME NEW g \in Files, NEW p \in PageNum
               PROVE  /\ g \in opened /\ p < Hdr(g).page_count => disk'[<<g, p>>] # Absent
                      /\ disk'[HdrId(g)] # Absent /\ p < disk'[HdrId(g)].page_count =>
                           disk'[<<g, p>>] # Absent
    BY <1>1 DEF CountedInFile, Hdr, HdrId
  <2>1. <<g, p>> \in FrameId /\ (disk[<<g, p>>] # Absent => disk'[<<g, p>>] # Absent)
    BY <1>3, <1>4 DEF FrameId
  <2>2. CASE g = f
    <3>1. p < 1 => <<g, p>> = id
      BY <2>2, MaxPageNumAssumption, SMT DEF PageNum, HeaderPage, HdrId
    <3> QED BY <1>2, <1>3, <1>4, <2>2, <3>1
  <2>3. CASE g # f
    <3>1. disk'[HdrId(g)] = disk[HdrId(g)]
      BY <1>2, <1>3, <2>3
    <3> QED BY <2>1, <3>1 DEF RefInv, CountedInFile
  <2> QED BY <2>2, <2>3
<1>7. disk' = PS!WithHeader(disk, f, NewHeader)
  BY InstanceOperators DEF CreateFile, PS!WithHeader, HdrId
<1>8. Content' = PS!WithHeader(Content, f, NewHeader)
  <2>1. \A x \in FrameId : Content'[x] = IF x = id THEN NewHeader ELSE Content[x]
    BY <1>1, <1>2, <1>3, <1>4, ContentIs DEF Cached
  <2>2. Content' = [Content EXCEPT ![id] = NewHeader]
    BY <1>2, <2>1, ContentIs
  <2> QED BY <2>2, InstanceOperators DEF PS!WithHeader, HdrId
<1>9. PS!Header(f) = Absent
  BY <1>1, <1>2, <1>4, ContentIs, InstanceOperators DEF PS!Header, HdrId, Cached
<1>10. PS!Create(f)
  BY <1>1, <1>7, <1>8, <1>9, InstanceOperators DEF PS!Create
<1> QED BY <1>5, <1>6, <1>10 DEF PS!Step

(* The new page is written when the file is extended, so its clean frame   *)
(* is backed by the file.                                                  *)
LEMMA ExtendWithPageRef ==
  ASSUME RefInv, ExtendResults = {TRUE}, NEW f \in Files, ExtendWithPage(f), ~ astray'
  PROVE  CleanOnDisk' /\ CountedInFile' /\ PS!Step
<1> DEFINE n == Hdr(f).page_count
           id == <<f, n>>
           h == ExtendFile(Hdr(f))
           hdr == HdrFrame(f, h)
<1>1. f \in opened /\ ~ HasFreePage(Hdr(f)) /\ ~ FileIsFull(Hdr(f)) /\ UNCHANGED opened
  BY DEF ExtendWithPage
<1>2. PICK gone \in RoomChoices :
        /\ frame' = [FreedFrames(gone) EXCEPT ![id] = PinnedFrame(Zero), ![HdrId(f)] = hdr]
        /\ disk' = Written(WriteBack(DirtyOf(gone)), id, Zero)
  BY DEF ExtendWithPage, WentAstray
<1>3. gone \in SUBSET Evictable /\ gone \in SUBSET Cached
  BY RoomIsEvictable
<1>4. Hdr(f) \in FileHeader /\ ExactHeader(Hdr(f))
  BY <1>1, OpenHeader DEF RefInv, SafeInv, HeaderExact
<1>5. n \in PageNum /\ n # HeaderPage /\ n \notin Hdr(f).bitmap /\ h \in FileHeader
      /\ h.page_count = n + 1
  BY <1>1, <1>4, ExtendExact, ExtendType DEF ExtendFile
<1>6. hdr \in Frame /\ hdr # NoFrame /\ hdr.data = h /\ hdr.dirty
  BY <1>1, <1>5, OpenHeader, FrameIsNotNoFrame DEF RefInv, SafeInv, HdrFrame, Modified
<1>7. /\ id \in FrameId /\ id[1] = f /\ id[2] = n
      /\ \A g \in Files : HdrId(g) \in FrameId /\ HdrId(g) # id
      /\ \A g \in Files : g # f => HdrId(g) # HdrId(f)
  BY <1>5, StateFacts
<1>8. id \notin Cached /\ id \notin gone
  BY <1>3, <1>5, <1>7 DEF RefInv, SafeInv, CachedAllocated
<1>9. \A g \in Files : HdrId(g) \notin gone
  BY <1>3, CachedFacts, StateFacts
<1>10. \A x \in FrameId :
         WriteBack(DirtyOf(gone))[x] = IF x \in gone THEN frame[x].data ELSE disk[x]
  BY <1>3, EvictedIs
<1>11. \A x \in FrameId : x[1] = f /\ x[2] < n => WriteBack(DirtyOf(gone))[x] # Absent
  <2> SUFFICES ASSUME NEW x \in FrameId, x[1] = f, x[2] < n
               PROVE  disk[x] # Absent /\ (x \in gone => frame[x].data # Absent)
    BY <1>10
  <2>1. x = <<f, x[2]>> /\ x[2] \in PageNum
    BY DEF FrameId
  <2>2. disk[x] # Absent
    BY <1>1, <2>1 DEF RefInv, CountedInFile
  <2> QED BY <1>3, <2>2, CachedFacts
<1>12. \A x \in FrameId :
         disk'[x] = IF x = id THEN Zero ELSE IF x \in gone THEN frame[x].data ELSE disk[x]
  BY <1>2, <1>7, <1>10, <1>11 DEF Written
<1>13. /\ Zero # Absent /\ PinnedFrame(Zero) # NoFrame /\ PinnedFrame(Zero).data = Zero
  BY PinnedFrameType, FrameIsNotNoFrame, ValuesAssumption DEF PageData
<1>14. \A x \in FrameId :
         frame'[x] = IF x = HdrId(f) THEN hdr
                     ELSE IF x = id THEN PinnedFrame(Zero)
                     ELSE IF x \in gone THEN NoFrame ELSE frame[x]
  BY <1>2, <1>7 DEF FreedFrames
<1> HIDE DEF hdr, h
<1>15. CleanOnDisk'
  <2> SUFFICES ASSUME NEW x \in FrameId, frame'[x] # NoFrame, ~ frame'[x].dirty
               PROVE  disk'[x] = frame'[x].data
    BY KeepsClean
  <2> QED BY <1>6, <1>7, <1>12, <1>13, <1>14 DEF RefInv, CleanOnDisk, Cached
<1>16. CountedInFile'
  <2>1. \A x \in FrameId : disk[x] # Absent => disk'[x] # Absent
    BY <1>3, <1>12, <1>13, CachedFacts
  <2>2. frame'[HdrId(f)].data.page_count = n + 1 /\ disk'[id] # Absent
    BY <1>5, <1>6, <1>7, <1>12, <1>13, <1>14
  <2>3. \A g \in opened : g \in Files /\ (g # f => frame'[HdrId(g)].data = Hdr(g))
    BY <1>7, <1>9, <1>14, StateFacts DEF Hdr
  <2>4. \A g \in Files : disk'[HdrId(g)] = disk[HdrId(g)]
    BY <1>7, <1>9, <1>12
  <2> QED BY <1>1, <2>1, <2>2, <2>3, <2>4, KeepsCounted
<1>17. \A x \in FrameId :
         Content'[x] = IF x = id THEN Zero ELSE IF x = HdrId(f) THEN h ELSE Content[x]
  BY <1>3, <1>6, <1>7, <1>12, <1>13, <1>14, ContentIs DEF Cached
<1>18. \A x \in FrameId : disk'[x] \in {disk[x], Content'[x]}
  <2>1. \A x \in gone : x \in FrameId /\ x # HdrId(f) /\ Content[x] = frame[x].data
    BY <1>3, <1>9, ContentIs DEF Cached
  <2> QED BY <1>12, <1>17, <2>1
<1>19. Content' = [PS!WithHeader(Content, f, h) EXCEPT ![id] = Zero]
  BY <1>7, <1>17, ContentIs, InstanceOperators DEF PS!WithHeader, HdrId
<1>20. PS!Extend(f)
  BY <1>1, <1>18, <1>19, HeaderIs, InstanceOperators DEF PS!Extend, PS!SomeSaved, h
<1> QED BY <1>15, <1>16, <1>20 DEF PS!Step

-----------------------------------------------------------------------------
LEMMA RefInit == Init => RefInv /\ PS!Init
<1> SUFFICES ASSUME Init PROVE RefInv /\ PS!Init
  OBVIOUS
<1>1. SafeInv
  BY SafeInvInit
<1>2. CleanOnDisk /\ CountedInFile
  BY HdrIdType DEF Init, CleanOnDisk, CountedInFile, Cached
<1>3. Content = [id \in FrameId |-> Absent]
  BY DEF Init, Content
<1> QED BY <1>1, <1>2, <1>3, InstanceOperators DEF RefInv, Init, PS!Init

(* Every step but the one in which a page goes astray is a step of         *)
(* PageStore.                                                              *)
LEMMA RefStep ==
  ASSUME ExtendResults = {TRUE}, InOrderReplay, RefInv, Step, ~ astray'
  PROVE  CleanOnDisk' /\ CountedInFile' /\ PS!Step
<1>1. PICK f \in Files :
        \/ CreateFile(f) \/ OpenFile(f) \/ Closed(f) \/ ReuseFreePage(f)
        \/ ExtendWithPage(f) \/ PurgeAllPages(f) \/ FlushAllPages(f)
        \/ \E p \in PageNum :
             \/ GetThisPage(f, p) \/ (\E v \in Val : WritePage(f, p, v))
             \/ UnpinPage(f, p) \/ DisposePage(f, p) \/ PurgePage(f, p)
             \/ FlushPage(f, p) \/ RecoverPage(f, p)
  BY Zenon DEF Step, CloseFile, CloseByManager
<1> QED BY <1>1, CreateFileRef, OpenFileRef, ClosedRef, ReuseFreePageRef,
           ExtendWithPageRef, PurgeAllPagesRef, FlushAllPagesRef, GetThisPageRef,
           WritePageRef, UnpinPageRef, DisposePageRef, PurgePageRef, FlushPageRef,
           RecoverPageRef

(* The invariant of the refinement says nothing once a page went astray.   *)
StrayInv == SafeInv /\ FdsOK /\ (~ astray => CleanOnDisk /\ CountedInFile)

LEMMA RefNext ==
  ASSUME ExtendResults = {TRUE}, InOrderReplay, StrayInv, [Next]_vars
  PROVE  StrayInv' /\ [PS!Next]_PS!vars
<1>1. SafeInv' /\ FdsOK'
  BY SafeInvNext, FdsOKNext DEF StrayInv, SafeInv
<1>2. CASE UNCHANGED vars
  <2>1. UNCHANGED PS!vars
    BY <1>2 DEF vars, PS!vars, Content
  <2>2. CASE astray
    BY <1>1, <1>2, <2>1, <2>2 DEF StrayInv, vars
  <2>3. CASE ~ astray
    <3>1. CleanOnDisk' /\ CountedInFile'
      BY <1>2, <2>3, UnchangedRef DEF vars, StrayInv, RefInv
    <3> QED BY <1>1, <1>2, <2>1, <3>1 DEF StrayInv, vars
  <2> QED BY <2>2, <2>3
<1>3. CASE ~ astray /\ Step /\ astray'
  BY <1>1, <1>3 DEF StrayInv, PS!Next
<1>4. CASE ~ astray /\ Step /\ ~ astray'
  <2>1. CleanOnDisk' /\ CountedInFile' /\ PS!Step
    BY <1>4, RefStep DEF StrayInv, RefInv
  <2>2. UNCHANGED astray
    BY <1>1, <1>4 DEF StrayInv, FdsOK
  <2> QED BY <1>1, <1>4, <2>1, <2>2 DEF StrayInv, PS!Next
<1> QED BY <1>2, <1>3, <1>4 DEF Next

(***************************************************************************)
(* The buffer pool is a page store: whatever get_this_page, eviction,      *)
(* write-back, purge and flush do with the frames, a caller reads from a   *)
(* page what was last written to it, and only close_file without a flush   *)
(* falls back to what the file holds.  This holds while writes fail, if    *)
(* not the one of allocate_page that extends a file, and up to the step in *)
(* which an eviction goes through the entry of a deleted pool or a page is *)
(* read from a hole in the file.                                           *)
(***************************************************************************)
THEOREM PoolImplementsPageStore ==
  ExtendResults = {TRUE} /\ InOrderReplay => (Spec => ImplementsPageStore)
<1> SUFFICES ASSUME ExtendResults = {TRUE}, InOrderReplay
             PROVE  Spec => ImplementsPageStore
  OBVIOUS
<1>1. Init => StrayInv /\ PS!Init
  BY RefInit DEF StrayInv, RefInv, Init, FdsOK
<1>2. StrayInv /\ [Next]_vars => StrayInv' /\ [PS!Next]_PS!vars
  BY RefNext
<1> QED BY <1>1, <1>2, PTL DEF Spec, ImplementsPageStore, PS!Spec
=============================================================================
