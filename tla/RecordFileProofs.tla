-------------------------- MODULE RecordFileProofs --------------------------
(***************************************************************************)
(* Proofs about RecordFile, for every size of file, page and byte, any     *)
(* contents and any number of scanners: a file holds exactly the records   *)
(* its callers inserted and did not delete, but for those put into pages   *)
(* already disposed of; a scan returns no record twice, and all those it   *)
(* owes its caller.                                                        *)
(***************************************************************************)
EXTENDS RecordFile, RecordPageProofs

(* A scanner that still has a record to return holds the page of that      *)
(* record, and has returned only records before it.                        *)
ScanOK(sc) ==
  sc.next # <<>> =>
    /\ sc.held = sc.cur /\ sc.next[1] = sc.cur
    /\ sc.slot # NoBit => sc.next[2] < sc.slot
    /\ \A rid \in sc.seen : rid[1] < sc.cur \/ (rid[1] = sc.cur /\ rid[2] < sc.next[2])

TypeInv ==
  /\ TypeOK
  /\ hdr.page_count <= MaxPageNum /\ hdr.bitmap \subseteq 0 .. hdr.page_count - 1
  /\ \A p \in PageNum : SoundPage(page[p])
  /\ \A s \in Opened : ScanOK(scan[s])

(* The file has what its callers stored, but for the stranded records, and *)
(* these are just the records in the pages that were disposed of.          *)
RowInv ==
  /\ \A rid \in RID \ stranded :
       stored[rid] = IF rid[1] \in hdr.bitmap /\ rid[2] \in page[rid[1]].slots
                     THEN page[rid[1]].data[rid[2]] ELSE NoData
  /\ \A rid \in RID : rid[2] \in page[rid[1]].slots /\ IsStale(rid[1]) <=> rid \in stranded

(* No page is cleared from the bitmap under a scanner, and a page waits in *)
(* disposed_pages only as long as a scanner holds it.                      *)
PinInv ==
  /\ \A s \in Opened : scan[s].held \in hdr.bitmap \cup {NoPage}
  /\ \A p \in disposed : \E s \in Opened : scan[s].held = p

(* What a scanner has not come to yet. *)
Ahead(sc) ==
  {rid \in RID : \/ rid[1] > sc.cur
                 \/ rid[1] = sc.cur /\ sc.slot # NoBit /\ rid[2] >= sc.slot}

(* The search that follows misses none of the records. *)
Unhidden(sc, rids) ==
  sc.slot # NoBit => \/ ByteAhead(sc, page[sc.cur].slots) # {}
                     \/ rids \cap HiddenBehind(sc.cur, sc.slot + 1) = {}

(* A scanner owes its caller only records that are still there and within  *)
(* its reach, and each is returned or to come.                             *)
OwedOK(sc) ==
  /\ sc.owed \subseteq StoredRids \ stranded
  /\ \A rid \in sc.owed : rid[1] < sc.size
  /\ sc.next = <<>> => sc.owed \subseteq sc.seen
  /\ sc.next # <<>> => /\ sc.owed \subseteq sc.seen \cup {sc.next} \cup Ahead(sc)
                       /\ Unhidden(sc, sc.owed)

OwedInv == \A s \in Opened : OwedOK(scan[s])

IInv == TypeInv /\ RowInv /\ PinInv /\ OwedInv
-----------------------------------------------------------------------------
(* Record identifiers, and what is stored. *)

LEMMA RidParts ==
  ASSUME NEW rid \in RID
  PROVE  /\ rid = <<rid[1], rid[2]>> /\ rid[1] \in PageNum \ {HeaderPage} /\ rid[2] \in Slot
         /\ rid[1] \in Nat /\ rid[2] \in Nat /\ rid # <<>>
<1>1. rid = <<rid[1], rid[2]>> /\ rid[1] \in PageNum \ {HeaderPage} /\ rid[2] \in Slot
  BY DEF RID
<1>2. rid[1] \in Nat /\ rid[2] \in Nat
  BY <1>1, MaxPageNumAssumption, CapacityAssumption DEF PageNum, Slot
<1>3. rid # <<>>
  BY <1>1
<1> QED BY <1>1, <1>2, <1>3

(* The records stored are those in the slots of the pages of the file. *)
LEMMA StoredIff ==
  ASSUME TypeInv, RowInv, NEW rid \in RID \ stranded
  PROVE  rid \in StoredRids <=> rid[1] \in hdr.bitmap /\ rid[2] \in page[rid[1]].slots
<1>1. rid[1] \in PageNum
  BY RidParts
<1>2. \A k \in page[rid[1]].slots : page[rid[1]].data[k] \in Data
  BY <1>1 DEF TypeInv, SoundPage
<1> QED BY <1>2, NoDataAssumption DEF RowInv, StoredRids

(* A step that leaves the scanners alone, and takes away no record and no  *)
(* page that they may be at.                                               *)
LEMMA ScansStay ==
  ASSUME UNCHANGED scan
  PROVE  /\ (\A s \in Opened : ScanOK(scan[s])) => (\A s \in Opened : ScanOK(scan[s]))'
         /\ hdr.bitmap \subseteq hdr'.bitmap /\ disposed' = disposed /\ PinInv => PinInv'
         /\ /\ StoredRids \ stranded \subseteq StoredRids' \ stranded'
            /\ \A s \in Opened : scan[s].next # <<>> =>
                 page[scan[s].cur].slots \subseteq page'[scan[s].cur].slots
            /\ OwedInv
            => OwedInv'
<1>1. Opened' = Opened
  BY DEF Opened
<1>2. PinInv /\ hdr.bitmap \subseteq hdr'.bitmap /\ disposed' = disposed => PinInv'
  BY <1>1 DEF PinInv
<1>3. ASSUME StoredRids \ stranded \subseteq StoredRids' \ stranded', OwedInv,
             \A s \in Opened : scan[s].next # <<>> =>
               page[scan[s].cur].slots \subseteq page'[scan[s].cur].slots,
             NEW s \in Opened
      PROVE  OwedOK(scan[s])'
  <2>1. OwedOK(scan[s])
    BY <1>3 DEF OwedInv
  <2>2. scan[s].next # <<>> => Unhidden(scan[s], scan[s].owed)'
    BY <1>3, <2>1 DEF OwedOK, Unhidden, ByteAhead, HiddenBehind
  <2> QED BY <1>3, <2>1, <2>2 DEF OwedOK, Ahead
<1> QED BY <1>1, <1>2, <1>3 DEF ScanOK, OwedInv

(* The pages at which scanners are. *)
LEMMA ScanPlaces ==
  ASSUME IInv, NEW s \in Opened, scan[s].next # <<>>
  PROVE  scan[s].cur \in PageNum /\ scan[s].cur \in hdr.bitmap /\ scan[s].held = scan[s].cur
<1>1. scan[s] \in Scan /\ ScanOK(scan[s]) /\ scan[s].held \in hdr.bitmap \cup {NoPage}
  BY DEF IInv, TypeInv, TypeOK, Opened, PinInv
<1>2. scan[s].cur \in PageNum /\ scan[s].held = scan[s].cur
  BY <1>1 DEF Scan, ScanOK
<1>3. NoPage \notin PageNum
  BY MaxPageNumAssumption DEF PageNum, NoPage
<1> QED BY <1>1, <1>2, <1>3

-----------------------------------------------------------------------------
(* The calls that change records. *)

LEMMA InitHandlerInv ==
  ASSUME IInv, InitHandler
  PROVE  IInv'
<1>1. /\ free' \subseteq PageNum \ {HeaderPage}
      /\ UNCHANGED <<hdr, page, disposed, scan, stored, stranded>>
  BY DEF InitHandler, IteratedPages, IInv, TypeInv, TypeOK, FileHeader
<1>2. TypeInv'
  BY <1>1, ScansStay DEF IInv, TypeInv, TypeOK
<1>3. RowInv'
  BY <1>1 DEF IInv, RowInv, IsStale
<1>4. StoredRids' = StoredRids
  BY <1>1 DEF StoredRids
<1> QED BY <1>1, <1>2, <1>3, <1>4, ScansStay DEF IInv

(* A record put into a page with room: where it goes, and what stays. *)
LEMMA Inserted ==
  ASSUME TypeInv, NEW p \in PageNum \ {HeaderPage}, NEW pg, SoundPage(pg), ~ IsFull(pg),
         NEW d \in Data, NEW rows \in [RID -> Data \cup {NoData}], InsertInto(p, pg, d, rows)
  PROVE  LET k == FreeSlot(pg) IN
           /\ k \in Slot \ pg.slots /\ <<p, k>> \in RID
           /\ page' \in [PageNum -> RecordPages] /\ SoundPage(page'[p])
           /\ \A q \in PageNum \ {p} : page'[q] = page[q]
           /\ page'[p].slots = pg.slots \cup {k} /\ page'[p].data[k] = d
           /\ \A j \in Slot \ {k} : page'[p].data[j] = pg.data[j]
           /\ stored' \in [RID -> Data \cup {NoData}]
           /\ \A rid \in RID \ {<<p, k>>} : stored'[rid] = rows[rid]
           /\ stored'[<<p, k>>] = IF rows[<<p, k>>] = NoData THEN d ELSE rows[<<p, k>>]
<1> DEFINE k == FreeSlot(pg)
           new == PutRecord(pg, k, d)
<1>1. k \in Slot \ pg.slots
  BY FreeSlotOfSound
<1>2. <<p, k>> \in RID
  BY <1>1 DEF RID
<1>3. /\ SoundPage(new) /\ new.slots = pg.slots \cup {k} /\ new.data[k] = d
      /\ \A j \in Slot \ {k} : new.data[j] = pg.data[j]
  BY <1>1, PutSound
<1>4. /\ page' = [page EXCEPT ![p] = new]
      /\ stored' = [rows EXCEPT ![<<p, k>>] = IF rows[<<p, k>>] = NoData THEN d
                                              ELSE rows[<<p, k>>]]
  BY DEF InsertInto
<1>5. new \in RecordPages
  BY <1>3 DEF SoundPage
<1> HIDE DEF k, new
<1>6. /\ page' \in [PageNum -> RecordPages] /\ page'[p] = new
      /\ \A q \in PageNum \ {p} : page'[q] = page[q]
  BY <1>4, <1>5 DEF TypeInv, TypeOK
<1>7. /\ stored' \in [RID -> Data \cup {NoData}]
      /\ \A rid \in RID \ {<<p, k>>} : stored'[rid] = rows[rid]
      /\ stored'[<<p, k>>] = IF rows[<<p, k>>] = NoData THEN d ELSE rows[<<p, k>>]
  BY <1>2, <1>4
<1> QED BY <1>1, <1>2, <1>3, <1>6, <1>7 DEF k

LEMMA InsertRecordInv ==
  ASSUME IInv, NEW d \in Data, InsertRecord(d)
  PROVE  IInv'
<1>1. UNCHANGED <<hdr, disposed, scan>>
  BY DEF InsertRecord
<1>2. PICK full \in SUBSET free, p \in free :
        /\ ~ IsFull(page[p]) /\ free' = free \ full /\ InsertInto(p, page[p], d, stored)
        /\ stranded' = IF IsStale(p) THEN stranded \cup {<<p, FreeSlot(page[p])>>} ELSE stranded
  BY DEF InsertRecord
<1>3. p \in PageNum \ {HeaderPage} /\ free' \subseteq PageNum \ {HeaderPage}
  BY <1>2 DEF IInv, TypeInv, TypeOK
<1>4. SoundPage(page[p]) /\ stored \in [RID -> Data \cup {NoData}]
  BY <1>3 DEF IInv, TypeInv, TypeOK
<1> DEFINE k == FreeSlot(page[p])
<1>5. /\ k \in Slot \ page[p].slots /\ <<p, k>> \in RID
      /\ page' \in [PageNum -> RecordPages] /\ SoundPage(page'[p])
      /\ \A q \in PageNum \ {p} : page'[q] = page[q]
      /\ page'[p].slots = page[p].slots \cup {k} /\ page'[p].data[k] = d
      /\ \A j \in Slot \ {k} : page'[p].data[j] = page[p].data[j]
      /\ stored' \in [RID -> Data \cup {NoData}]
      /\ \A rid \in RID \ {<<p, k>>} : stored'[rid] = stored[rid]
      /\ stored'[<<p, k>>] = IF stored[<<p, k>>] = NoData THEN d ELSE stored[<<p, k>>]
  BY <1>2, <1>3, <1>4, Inserted DEF IInv
<1>6. stranded' = IF IsStale(p) THEN stranded \cup {<<p, k>>} ELSE stranded
  BY <1>2
<1> HIDE DEF k
<1>7. <<p, k>> \notin stranded /\ stored[<<p, k>>] = NoData /\ stored'[<<p, k>>] = d
  <2>1. <<p, k>> \notin stranded
    BY <1>5 DEF IInv, RowInv
  <2>2. stored[<<p, k>>] = NoData
    BY <1>5, <2>1 DEF IInv, RowInv
  <2> QED BY <1>5, <2>1, <2>2
<1>8. TypeInv'
  <2>1. stranded' \subseteq RID
    BY <1>5, <1>6 DEF IInv, TypeInv, TypeOK
  <2> QED BY <1>1, <1>3, <1>5, <2>1, ScansStay DEF IInv, TypeInv, TypeOK
<1>9. RowInv'
  <2> SUFFICES ASSUME NEW rid \in RID
               PROVE  /\ rid \notin stranded' =>
                           stored'[rid] = IF rid[1] \in hdr'.bitmap /\ rid[2] \in page'[rid[1]].slots
                                          THEN page'[rid[1]].data[rid[2]] ELSE NoData
                      /\ rid[2] \in page'[rid[1]].slots /\ IsStale(rid[1])' <=> rid \in stranded'
    BY DEF RowInv
  <2>1. IsStale(rid[1])' <=> IsStale(rid[1])
    BY <1>1 DEF IsStale
  <2>2. CASE rid = <<p, k>>
    <3>1. rid[1] = p /\ rid[2] = k /\ rid \notin stranded
      BY <2>2, <1>7
    <3>2. rid \notin stranded' => p \in hdr.bitmap
      BY <2>2, <1>6 DEF IsStale
    <3> QED BY <2>1, <2>2, <3>1, <3>2, <1>1, <1>5, <1>6, <1>7
  <2>3. CASE rid # <<p, k>>
    <3>1. /\ stored'[rid] = stored[rid] /\ (rid \in stranded' <=> rid \in stranded)
          /\ rid = <<rid[1], rid[2]>> /\ rid[1] \in PageNum /\ rid[2] \in Slot
      BY <2>3, <1>5, <1>6, RidParts
    <3>2. /\ rid[2] \in page'[rid[1]].slots <=> rid[2] \in page[rid[1]].slots
          /\ page'[rid[1]].data[rid[2]] = page[rid[1]].data[rid[2]]
      <4>1. CASE rid[1] = p
        BY <2>3, <3>1, <4>1, <1>5
      <4>2. CASE rid[1] # p
        BY <3>1, <4>2, <1>5
      <4> QED BY <4>1, <4>2
    <3> QED BY <2>1, <3>1, <3>2, <1>1 DEF IInv, RowInv
  <2> QED BY <2>2, <2>3
<1>10. StoredRids \ stranded \subseteq StoredRids' \ stranded'
  BY <1>5, <1>6, <1>7 DEF StoredRids
<1>11. \A s \in Opened : scan[s].next # <<>> =>
         page[scan[s].cur].slots \subseteq page'[scan[s].cur].slots
  BY <1>5, ScanPlaces
<1> QED BY <1>1, <1>8, <1>9, <1>10, <1>11, ScansStay DEF IInv

LEMMA InsertRecordInNewPageInv ==
  ASSUME IInv, NEW d \in Data, InsertRecordInNewPage(d)
  PROVE  IInv'
<1> DEFINE reuse == HasFreePage(hdr)
           p == IF reuse THEN FirstFreePage(hdr) ELSE hdr.page_count
           wiped == {rid \in stranded : rid[1] = p}
           rows == [rid \in RID |-> IF rid \in wiped THEN NoData ELSE stored[rid]]
<1>1. /\ UNCHANGED <<disposed, scan>> /\ free' = {p} /\ InsertInto(p, ClearedPage, d, rows)
      /\ stranded' = stranded \ wiped
  BY DEF InsertRecordInNewPage, InitEmptyPage
<1>2. hdr \in FileHeader /\ hdr.page_count \in Nat \ {0} /\ hdr.page_count <= MaxPageNum
  BY DEF IInv, TypeInv, TypeOK, FileHeader
<1>3. /\ p \in PageNum \ hdr.bitmap /\ p < hdr'.page_count
      /\ hdr' \in FileHeader /\ hdr'.bitmap = hdr.bitmap \cup {p}
      /\ hdr'.page_count <= MaxPageNum /\ hdr.page_count <= hdr'.page_count
  <2>1. CASE reuse
    <3>1. p \in ClearBits(hdr)
      BY <1>2, <2>1, FirstFreePageIsFree
    <3>2. hdr' = ReusePage(hdr, p)
      BY <2>1 DEF InsertRecordInNewPage
    <3> HIDE DEF p
    <3>3. p \in PageNum \ hdr.bitmap /\ p < hdr.page_count
      BY <3>1 DEF ClearBits
    <3> QED BY <1>2, <3>2, <3>3 DEF ReusePage, FileHeader
  <2>2. CASE ~ reuse
    <3>1. hdr' = ExtendFile(hdr) /\ ~ FileIsFull(hdr)
      BY <2>2 DEF InsertRecordInNewPage
    <3>2. hdr.page_count \in PageNum \ hdr.bitmap /\ hdr.page_count + 1 <= MaxPageNum
      BY <1>2, <3>1, MaxPageNumAssumption DEF FileIsFull, PageNum, IInv, TypeInv
    <3> QED BY <1>2, <2>2, <3>1, <3>2 DEF ExtendFile, FileHeader
  <2> QED BY <2>1, <2>2
<1> HIDE DEF p
<1>4. p \in PageNum \ {HeaderPage}
  BY <1>2, <1>3 DEF FileHeader
<1>5. /\ rows \in [RID -> Data \cup {NoData}]
      /\ \A rid \in RID : rows[rid] = IF rid \in wiped THEN NoData ELSE stored[rid]
  BY DEF IInv, TypeInv, TypeOK
<1> HIDE DEF rows
<1> DEFINE k == FreeSlot(ClearedPage)
<1>6. /\ k \in Slot /\ <<p, k>> \in RID
      /\ page' \in [PageNum -> RecordPages] /\ SoundPage(page'[p])
      /\ \A q \in PageNum \ {p} : page'[q] = page[q]
      /\ page'[p].slots = {k} /\ page'[p].data[k] = d
      /\ stored' \in [RID -> Data \cup {NoData}]
      /\ \A rid \in RID \ {<<p, k>>} : stored'[rid] = rows[rid]
      /\ stored'[<<p, k>>] = IF rows[<<p, k>>] = NoData THEN d ELSE rows[<<p, k>>]
  BY <1>1, <1>4, <1>5, ClearedSound, Inserted DEF IInv
<1> HIDE DEF k
<1>7. \A rid \in RID : rid[1] = p => rows[rid] = NoData /\ rid \notin stranded' /\ rid \notin StoredRids \ stranded
  <2> SUFFICES ASSUME NEW rid \in RID, rid[1] = p
               PROVE  rows[rid] = NoData /\ rid \notin stranded' /\ rid \notin StoredRids \ stranded
    OBVIOUS
  <2>1. rid \notin stranded => stored[rid] = NoData
    BY <1>3 DEF IInv, RowInv
  <2> QED BY <1>1, <1>5, <2>1 DEF StoredRids
<1>8. /\ stored'[<<p, k>>] = d
      /\ \A rid \in RID : rid[1] # p => /\ stored'[rid] = stored[rid]
                                        /\ rid \in stranded' <=> rid \in stranded
      /\ \A rid \in RID : rid[1] = p /\ rid[2] # k => stored'[rid] = NoData
  BY <1>1, <1>5, <1>6, <1>7
<1>9. hdr'.bitmap \subseteq 0 .. hdr'.page_count - 1
  <2>1. hdr'.page_count \in Nat /\ p \in Nat
    BY <1>3, MaxPageNumAssumption DEF FileHeader, PageNum
  <2>2. hdr.bitmap \subseteq 0 .. hdr.page_count - 1
    BY DEF IInv, TypeInv
  <2> QED BY <1>2, <1>3, <2>1, <2>2
<1>10. TypeInv'
  <2>1. stranded' \subseteq RID
    BY <1>1 DEF IInv, TypeInv, TypeOK
  <2> QED BY <1>1, <1>3, <1>4, <1>6, <1>9, <2>1, ScansStay DEF IInv, TypeInv, TypeOK
<1>11. p \notin disposed
  BY <1>3, <1>4, MaxPageNumAssumption DEF IInv, PinInv, PageNum, NoPage
<1>12. RowInv'
  <2> SUFFICES ASSUME NEW rid \in RID
               PROVE  /\ rid \notin stranded' =>
                           stored'[rid] = IF rid[1] \in hdr'.bitmap /\ rid[2] \in page'[rid[1]].slots
                                          THEN page'[rid[1]].data[rid[2]] ELSE NoData
                      /\ rid[2] \in page'[rid[1]].slots /\ IsStale(rid[1])' <=> rid \in stranded'
    BY DEF RowInv
  <2>1. rid = <<rid[1], rid[2]>> /\ rid[1] \in PageNum
    BY RidParts
  <2>2. CASE rid[1] = p
    <3>1. rid[1] \in hdr'.bitmap /\ ~ IsStale(rid[1])' /\ rid \notin stranded'
      BY <2>2, <1>1, <1>3, <1>7, <1>11 DEF IsStale
    <3> QED BY <2>1, <2>2, <3>1, <1>6, <1>8
  <2>3. CASE rid[1] # p
    <3>1. /\ IsStale(rid[1])' <=> IsStale(rid[1])
          /\ rid[1] \in hdr'.bitmap <=> rid[1] \in hdr.bitmap
      BY <2>3, <1>1, <1>3 DEF IsStale
    <3>2. page'[rid[1]] = page[rid[1]]
      BY <2>1, <2>3, <1>6
    <3> QED BY <2>3, <3>1, <3>2, <1>8 DEF IInv, RowInv
  <2> QED BY <2>2, <2>3
<1>13. StoredRids \ stranded \subseteq StoredRids' \ stranded'
  BY <1>7, <1>8 DEF StoredRids
<1>14. \A s \in Opened : scan[s].next # <<>> =>
         page[scan[s].cur].slots \subseteq page'[scan[s].cur].slots
  BY <1>3, <1>6, ScanPlaces
<1> QED BY <1>1, <1>3, <1>10, <1>12, <1>13, <1>14, ScansStay DEF IInv

LEMMA UpdateRecordInv ==
  ASSUME IInv, NEW rid \in RID, NEW d \in Data, UpdateRecord(rid, d)
  PROVE  IInv'
<1> DEFINE p == rid[1]
           k == rid[2]
           new == UpdateAt(page[p], k, d)
<1>1. /\ UNCHANGED <<hdr, free, disposed, scan, stranded>> /\ k \in page[p].slots
      /\ page' = [page EXCEPT ![p] = new] /\ stored' = [stored EXCEPT ![rid] = d]
      /\ rid \in StoredRids
  BY DEF UpdateRecord
<1>2. p \in PageNum \ {HeaderPage} /\ k \in Slot /\ rid = <<p, k>> /\ SoundPage(page[p])
  BY RidParts DEF IInv, TypeInv
<1>3. /\ SoundPage(new) /\ new.slots = page[p].slots /\ new.data[k] = d
      /\ \A j \in Slot \ {k} : new.data[j] = page[p].data[j]
  BY <1>1, <1>2, UpdateSound
<1>4. new \in RecordPages
  BY <1>3 DEF SoundPage
<1> HIDE DEF p, k, new
<1>5. /\ page' \in [PageNum -> RecordPages] /\ page'[p] = new
      /\ \A q \in PageNum \ {p} : page'[q] = page[q]
      /\ stored' \in [RID -> Data \cup {NoData}] /\ stored'[rid] = d
      /\ \A r \in RID \ {rid} : stored'[r] = stored[r]
  BY <1>1, <1>2, <1>4 DEF IInv, TypeInv, TypeOK
<1>6. TypeInv'
  BY <1>1, <1>3, <1>5, ScansStay DEF IInv, TypeInv, TypeOK
<1>7. RowInv'
  <2>1. rid \notin stranded => p \in hdr.bitmap
    BY <1>1, <1>2, StoredIff DEF IInv, p
  <2>2. \A q \in PageNum : page'[q].slots = page[q].slots
    BY <1>3, <1>5
  <2>3. ASSUME NEW r \in RID \ stranded
        PROVE  stored'[r] = IF r[1] \in hdr'.bitmap /\ r[2] \in page'[r[1]].slots
                            THEN page'[r[1]].data[r[2]] ELSE NoData
    <3>1. CASE r = rid
      BY <3>1, <2>1, <1>1, <1>2, <1>3, <1>5
    <3>2. CASE r # rid /\ r[1] = p
      <4>1. r[2] \in Slot \ {k} /\ stored'[r] = stored[r]
        BY <3>2, <1>2, <1>5, RidParts
      <4> QED BY <3>2, <4>1, <1>1, <1>3, <1>5 DEF IInv, RowInv
    <3>3. CASE r[1] # p
      <4>1. r # rid /\ stored'[r] = stored[r] /\ page'[r[1]] = page[r[1]]
        BY <3>3, <1>2, <1>5, RidParts
      <4> QED BY <4>1, <1>1 DEF IInv, RowInv
    <3> QED BY <3>1, <3>2, <3>3
  <2>4. \A r \in RID : r[1] \in PageNum
    BY RidParts
  <2> QED BY <1>1, <2>2, <2>3, <2>4 DEF IInv, RowInv, IsStale
<1>8. StoredRids \subseteq StoredRids'
  BY <1>5, NoDataAssumption DEF StoredRids
<1>9. \A s \in Opened : scan[s].next # <<>> =>
         page[scan[s].cur].slots \subseteq page'[scan[s].cur].slots
  BY <1>3, <1>5, ScanPlaces
<1> QED BY <1>1, <1>6, <1>7, <1>8, <1>9, ScansStay DEF IInv

(* A scanner gives up the record that is deleted, and what the deletion    *)
(* hides from it.                                                          *)
LEMMA DeleteRecordInv ==
  ASSUME IInv, NEW rid \in RID, DeleteRecord(rid)
  PROVE  IInv'
<1> DEFINE p == rid[1]
           k == rid[2]
           new == DeleteAt(page[p], k)
           Hidden(s) == IF scan[s].held = p /\ scan[s].slot # NoBit
                           /\ ByteAhead(scan[s], new.slots) = {}
                        THEN HiddenBehind(p, scan[s].slot + 1) ELSE {}
<1>1. /\ k \in page[p].slots /\ rid \in StoredRids
      /\ page' = [page EXCEPT ![p] = new] /\ stored' = [stored EXCEPT ![rid] = NoData]
      /\ free' = free \cup {p} /\ stranded' = stranded \ {rid}
  BY DEF DeleteRecord
<1>2. p \in PageNum \ {HeaderPage} /\ k \in Slot /\ rid = <<p, k>> /\ SoundPage(page[p])
  BY RidParts DEF IInv, TypeInv
<1>3. /\ SoundPage(new) /\ new.slots = page[p].slots \ {k} /\ (new.record_num = 0 => new.slots = {})
      /\ \A j \in Slot \ {k} : new.data[j] = page[p].data[j]
  BY <1>1, <1>2, DeleteSound
<1>4. new \in RecordPages
  BY <1>3 DEF SoundPage
<1>5. /\ \/ hdr' = hdr
         \/ hdr' = ReleasePage(hdr, p) /\ new.slots = {} /\ p \notin PinnedPages
      /\ \/ disposed' = disposed
         \/ disposed' = disposed \cup {p} /\ new.slots = {} /\ hdr' = hdr /\ p \in PinnedPages
  BY <1>3 DEF DeleteRecord
<1>6. /\ \A s \in Scanners : scan'[s] = IF s \in Opened
                                        THEN [scan[s] EXCEPT !.owed = @ \ ({rid} \cup Hidden(s))]
                                        ELSE Closed
      /\ scan' = [s \in Scanners |-> scan'[s]]
  BY DEF DeleteRecord
<1> HIDE DEF p, k, new, Hidden
<1>7. /\ page' \in [PageNum -> RecordPages] /\ page'[p] = new
      /\ \A q \in PageNum \ {p} : page'[q] = page[q]
      /\ stored' \in [RID -> Data \cup {NoData}] /\ stored'[rid] = NoData
      /\ \A r \in RID \ {rid} : stored'[r] = stored[r]
  BY <1>1, <1>2, <1>4 DEF IInv, TypeInv, TypeOK
<1>8. ASSUME NEW s \in Scanners
      PROVE  /\ scan'[s] \in Scan \cup {Closed}
             /\ s \in Opened' => s \in Opened
             /\ s \in Opened =>
                  /\ scan[s] \in Scan /\ scan'[s] \in Scan /\ ScanOK(scan[s]) /\ ScanOK(scan'[s])
                  /\ scan'[s].owed = scan[s].owed \ ({rid} \cup Hidden(s))
                  /\ scan'[s].next = scan[s].next /\ scan'[s].held = scan[s].held
                  /\ scan'[s].cur = scan[s].cur /\ scan'[s].slot = scan[s].slot
                  /\ scan'[s].seen = scan[s].seen /\ scan'[s].size = scan[s].size
  <2>1. CASE s \notin Opened
    BY <1>6, <2>1 DEF Opened
  <2>2. CASE s \in Opened
    <3>1. scan[s] \in Scan /\ ScanOK(scan[s])
      BY <2>2 DEF IInv, TypeInv, TypeOK, Opened
    <3>2. scan'[s] = [scan[s] EXCEPT !.owed = @ \ ({rid} \cup Hidden(s))]
      BY <1>6, <2>2
    <3>3. /\ scan'[s] \in Scan /\ scan'[s].owed = scan[s].owed \ ({rid} \cup Hidden(s))
          /\ scan'[s].next = scan[s].next /\ scan'[s].held = scan[s].held
          /\ scan'[s].cur = scan[s].cur /\ scan'[s].slot = scan[s].slot
          /\ scan'[s].seen = scan[s].seen /\ scan'[s].size = scan[s].size
      BY <3>1, <3>2 DEF Scan
    <3> QED BY <2>2, <3>1, <3>3 DEF ScanOK
  <2> QED BY <2>1, <2>2
<1>9. /\ hdr' \in FileHeader /\ hdr'.page_count = hdr.page_count
      /\ hdr'.bitmap \in {hdr.bitmap, hdr.bitmap \ {p}}
      /\ hdr'.bitmap # hdr.bitmap => new.slots = {} /\ p \notin PinnedPages
  <2>1. hdr \in FileHeader
    BY DEF IInv, TypeInv, TypeOK
  <2>2. /\ ReleasePage(hdr, p) \in FileHeader /\ ReleasePage(hdr, p).page_count = hdr.page_count
        /\ ReleasePage(hdr, p).bitmap = hdr.bitmap \ {p}
    BY <1>2, <2>1, HeaderTypes DEF ReleasePage
  <2> QED BY <1>5, <2>1, <2>2
<1>10. disposed' \subseteq disposed \cup {p} /\ disposed \subseteq disposed'
  BY <1>5
<1>11. scan' \in [Scanners -> Scan \cup {Closed}]
  BY <1>6, <1>8
<1>12. TypeInv'
  <2>1. TypeOK'
    BY <1>1, <1>2, <1>7, <1>9, <1>10, <1>11 DEF IInv, TypeInv, TypeOK
  <2>2. \A s \in Opened' : s \in Scanners
    BY DEF Opened
  <2> QED BY <2>1, <2>2, <1>3, <1>7, <1>8, <1>9 DEF IInv, TypeInv
<1>13. RowInv'
  <2> SUFFICES ASSUME NEW r \in RID
               PROVE  /\ r \notin stranded' =>
                           stored'[r] = IF r[1] \in hdr'.bitmap /\ r[2] \in page'[r[1]].slots
                                        THEN page'[r[1]].data[r[2]] ELSE NoData
                      /\ r[2] \in page'[r[1]].slots /\ IsStale(r[1])' <=> r \in stranded'
    BY DEF RowInv
  <2>1. r = <<r[1], r[2]>> /\ r[1] \in PageNum /\ r[2] \in Slot
    BY RidParts
  <2>2. CASE r = rid
    BY <2>2, <1>1, <1>2, <1>3, <1>7
  <2>3. CASE r # rid /\ r[1] = p
    <3>1. /\ r[2] \in Slot \ {k} /\ stored'[r] = stored[r]
          /\ r \in stranded' <=> r \in stranded
      BY <2>1, <2>3, <1>1, <1>2, <1>7
    <3>2. /\ r[2] \in page'[p].slots <=> r[2] \in page[p].slots
          /\ page'[p].data[r[2]] = page[p].data[r[2]]
      BY <3>1, <1>3, <1>7
    <3>3. CASE new.slots = {}
      <4>1. r[2] \notin page[p].slots /\ r[2] \notin page'[p].slots
        BY <3>2, <3>3, <1>7
      <4> QED BY <2>3, <3>1, <4>1 DEF IInv, RowInv
    <3>4. CASE new.slots # {}
      <4>1. UNCHANGED <<hdr, disposed>>
        BY <3>4, <1>5
      <4>2. IsStale(r[1])' <=> IsStale(r[1])
        BY <4>1 DEF IsStale
      <4> QED BY <2>3, <3>1, <3>2, <4>1, <4>2 DEF IInv, RowInv
    <3> QED BY <3>3, <3>4
  <2>4. CASE r[1] # p
    <3>1. /\ r # rid /\ stored'[r] = stored[r] /\ page'[r[1]] = page[r[1]]
          /\ r \in stranded' <=> r \in stranded
      BY <2>1, <2>4, <1>1, <1>2, <1>7
    <3>2. r[1] \in hdr'.bitmap <=> r[1] \in hdr.bitmap
      BY <2>4, <1>9
    <3>3. IsStale(r[1])' <=> IsStale(r[1])
      BY <2>4, <3>2, <1>10 DEF IsStale
    <3> QED BY <3>1, <3>2, <3>3 DEF IInv, RowInv
  <2> QED BY <2>2, <2>3, <2>4
<1>14. Opened' = Opened
  <2>1. \A s \in Opened : s \in Scanners
    BY DEF Opened
  <2> QED BY <1>8, <2>1, ClosedAssumption DEF Opened
<1>15. PinInv'
  <2>1. \A s \in Opened : s \in Scanners /\ scan'[s].held = scan[s].held
    BY <1>8 DEF Opened
  <2>2. ASSUME NEW s \in Opened PROVE scan'[s].held \in hdr'.bitmap \cup {NoPage}
    <3>1. scan[s].held \in hdr.bitmap \cup {NoPage} /\ scan[s].held \in PinnedPages
      BY DEF IInv, PinInv, PinnedPages
    <3> QED BY <2>1, <3>1, <1>9
  <2>3. ASSUME NEW q \in disposed' PROVE \E s \in Opened : scan'[s].held = q
    <3>1. CASE q \in disposed
      BY <2>1, <3>1 DEF IInv, PinInv
    <3>2. CASE q \notin disposed
      <4>1. q \in PinnedPages
        BY <3>2, <1>5
      <4> QED BY <2>1, <4>1 DEF PinnedPages
    <3> QED BY <3>1, <3>2
  <2> QED BY <2>2, <2>3, <1>14 DEF PinInv
<1>16. OwedInv'
  <2> SUFFICES ASSUME NEW s \in Opened PROVE OwedOK(scan[s])'
    BY <1>14 DEF OwedInv
  <2>1. /\ scan'[s].owed = scan[s].owed \ ({rid} \cup Hidden(s))
        /\ scan'[s].next = scan[s].next /\ scan'[s].held = scan[s].held
        /\ scan'[s].cur = scan[s].cur /\ scan'[s].slot = scan[s].slot
        /\ scan'[s].seen = scan[s].seen /\ scan'[s].size = scan[s].size
        /\ OwedOK(scan[s])
    BY <1>8 DEF Opened, IInv, OwedInv
  <2>2. scan'[s].owed \subseteq StoredRids' \ stranded'
    BY <2>1, <1>1, <1>7 DEF OwedOK, StoredRids
  <2>3. ASSUME scan[s].next # <<>>, scan[s].slot # NoBit
        PROVE  \/ ByteAhead(scan'[s], page'[scan'[s].cur].slots) # {}
               \/ scan'[s].owed \cap HiddenBehind(scan'[s].cur, scan'[s].slot + 1) = {}
    <3>1. scan[s].cur \in PageNum /\ scan[s].held = scan[s].cur
      BY <2>3, ScanPlaces
    <3>2. \A slots : ByteAhead(scan'[s], slots) = ByteAhead(scan[s], slots)
      BY <2>1 DEF ByteAhead
    <3>3. CASE scan[s].cur = p
      BY <2>1, <2>3, <3>1, <3>2, <3>3, <1>7 DEF Hidden
    <3>4. CASE scan[s].cur # p
      <4>1. page'[scan[s].cur] = page[scan[s].cur]
        BY <3>1, <3>4, <1>7
      <4>2. \/ ByteAhead(scan[s], page[scan[s].cur].slots) # {}
            \/ scan[s].owed \cap HiddenBehind(scan[s].cur, scan[s].slot + 1) = {}
        BY <2>1, <2>3 DEF OwedOK, Unhidden
      <4> QED BY <2>1, <3>2, <4>1, <4>2
    <3> QED BY <3>3, <3>4
  <2>4. Ahead(scan'[s]) = Ahead(scan[s])
    BY <2>1 DEF Ahead
  <2>5. scan[s].next # <<>> => Unhidden(scan[s], scan[s].owed)'
    BY <2>1, <2>3 DEF Unhidden, HiddenBehind
  <2>6. /\ \A r \in scan'[s].owed : r[1] < scan'[s].size
        /\ scan'[s].next = <<>> => scan'[s].owed \subseteq scan'[s].seen
        /\ scan'[s].next # <<>> => scan'[s].owed \subseteq scan'[s].seen \cup {scan'[s].next} \cup Ahead(scan'[s])
    BY <2>1, <2>4 DEF OwedOK
  <2> QED BY <2>1, <2>2, <2>5, <2>6 DEF OwedOK, Ahead
<1> QED BY <1>12, <1>13, <1>15, <1>16 DEF IInv

-----------------------------------------------------------------------------
(* Scans. *)

(* unpin_page, or nothing: a page that is disposed of had no records but   *)
(* stranded ones, and nobody else is at it.                                *)
LEMMA UnpinInv ==
  ASSUME IInv, NEW s \in Scanners, UNCHANGED <<hdr, disposed>> \/ UnpinHeld(s),
         UNCHANGED <<page, free, stored, stranded>>
  PROVE  /\ hdr' \in FileHeader /\ hdr'.page_count = hdr.page_count
         /\ hdr'.bitmap \in {hdr.bitmap, hdr.bitmap \ {scan[s].held}}
         /\ disposed' \subseteq disposed
         /\ \A t \in Opened \ {s} : scan[t].held \in hdr'.bitmap \cup {NoPage}
         /\ RowInv'
<1>1. hdr \in FileHeader /\ disposed \subseteq PageNum \ {HeaderPage}
  BY DEF IInv, TypeInv, TypeOK
<1>2. CASE UNCHANGED <<hdr, disposed>>
  BY <1>1, <1>2 DEF IInv, RowInv, IsStale, PinInv
<1>3. CASE ~ UNCHANGED <<hdr, disposed>>
  <2> DEFINE p == scan[s].held
  <2>1. /\ p \in disposed /\ hdr' = ReleasePage(hdr, p) /\ disposed' = disposed \ {p}
        /\ \A t \in Opened \ {s} : scan[t].held # p
    BY <1>3 DEF UnpinHeld
  <2> HIDE DEF p
  <2>2. hdr' \in FileHeader /\ hdr'.page_count = hdr.page_count /\ hdr'.bitmap = hdr.bitmap \ {p}
    BY <1>1, <2>1, HeaderTypes DEF ReleasePage
  <2>3. \A t \in Opened \ {s} : scan[t].held \in hdr'.bitmap \cup {NoPage}
    BY <2>1, <2>2 DEF IInv, PinInv
  <2>4. RowInv'
    <3>1. \A q : IsStale(q)' <=> IsStale(q)
      BY <2>1, <2>2 DEF IsStale
    <3>2. \A rid \in RID \ stranded : rid[1] = p => rid[2] \notin page[rid[1]].slots
      BY <2>1 DEF IInv, RowInv, IsStale
    <3>3. \A rid \in RID \ stranded : /\ rid[1] \in hdr'.bitmap /\ rid[2] \in page[rid[1]].slots
                                      <=> rid[1] \in hdr.bitmap /\ rid[2] \in page[rid[1]].slots
      BY <2>2, <3>2
    <3> QED BY <3>1, <3>3 DEF IInv, RowInv
  <2> QED BY <2>1, <2>2, <2>3, <2>4 DEF p
<1> QED BY <1>2, <1>3

(* Where fetch_next_record stops: a page ahead, and if one of those has    *)
(* records, the first that has.                                            *)
LEMMA StopPageIs ==
  ASSUME TypeInv, NEW sc \in Scan, PagesAhead(sc) # {}
  PROVE  /\ StopPage(sc) \in PagesAhead(sc)
         /\ StopPage(sc) \in PageNum \ {HeaderPage} /\ StopPage(sc) > sc.cur
         /\ \A q \in PagesAhead(sc) : page[q].slots # {} =>
              page[StopPage(sc)].slots # {} /\ StopPage(sc) <= q
<1> DEFINE T == PagesAhead(sc)
           full == {p \in T : page[p].slots # {}}
           last == CHOOSE p \in T : \A q \in T : q <= p
<1>1. T \subseteq PageNum /\ PageNum \in SUBSET Nat /\ sc.cur \in Nat
  BY MaxPageNumAssumption DEF PagesAhead, PageNum, TypeInv, TypeOK, FileHeader, Scan
<1>2. \A q \in T : q > sc.cur
  BY <1>1 DEF PagesAhead
<1>3. StopPage(sc) = IF full # {} THEN Lowest(full) ELSE last
  BY DEF StopPage
<1> HIDE DEF T
<1>4. full # {} => Lowest(full) \in full /\ \A q \in full : Lowest(full) <= q
  BY <1>1, LowestIs
<1>5. last \in T
  <2> DEFINE dist == {MaxPageNum - p : p \in T}
  <2>1. dist \in SUBSET Nat /\ dist # {}
    BY <1>1, MaxPageNumAssumption DEF PageNum, T
  <2>2. Lowest(dist) \in dist /\ \A e \in dist : Lowest(dist) <= e
    <3> HIDE DEF dist
    <3> QED BY <2>1, LowestIs
  <2>3. PICK p \in T : \A e \in dist : MaxPageNum - p <= e
    BY <2>2
  <2>4. \A q \in T : q <= p
    <3> SUFFICES ASSUME NEW q \in T PROVE q <= p
      OBVIOUS
    <3>1. MaxPageNum - p <= MaxPageNum - q
      BY <2>3
    <3> QED BY <1>1, <3>1, MaxPageNumAssumption
  <2> QED BY <2>4
<1> HIDE DEF last
<1>6. StopPage(sc) \in T
  BY <1>3, <1>4, <1>5
<1>7. StopPage(sc) > sc.cur /\ StopPage(sc) \in Nat
  BY <1>1, <1>2, <1>6
<1>8. StopPage(sc) # HeaderPage
  BY <1>1, <1>7 DEF HeaderPage
<1> QED BY <1>1, <1>3, <1>4, <1>6, <1>7, <1>8 DEF T

LEMMA AtSlotFields ==
  ASSUME TypeInv, NEW sc \in Scan, NEW p \in PageNum \ {HeaderPage}, NEW k \in Slot \cup {NoBit}
  PROVE  LET new == AtSlot(sc, p, k) IN
         /\ new \in Scan
         /\ new.cur = p /\ new.held = p
         /\ new.size = sc.size /\ new.seen = sc.seen /\ new.owed = sc.owed
         /\ new.next = IF k = NoBit THEN <<>> ELSE <<p, k>>
         /\ new.slot = IF k = NoBit THEN NoBit ELSE next_setted_bit(page[p].slots, Capacity, k + 1)
<1> DEFINE nx == IF k = NoBit THEN <<>> ELSE <<p, k>>
           sl == IF k = NoBit THEN NoBit ELSE next_setted_bit(page[p].slots, Capacity, k + 1)
<1>1. nx \in RID \cup {<<>>}
  BY DEF RID
<1>2. sl \in Slot \cup {NoBit}
  <2>1. page[p].slots \in SUBSET Slot
    BY DEF TypeInv, SoundPage, RecordPages
  <2>2. k # NoBit => k + 1 \in Nat
    BY CapacityAssumption DEF Slot
  <2> QED BY <2>1, <2>2, NextSlot
<1>3. AtSlot(sc, p, k) = [sc EXCEPT !.cur = p, !.held = p, !.next = nx, !.slot = sl]
  BY DEF AtSlot
<1> HIDE DEF nx, sl
<1>4. /\ AtSlot(sc, p, k) \in Scan
      /\ AtSlot(sc, p, k).cur = p /\ AtSlot(sc, p, k).held = p
      /\ AtSlot(sc, p, k).size = sc.size /\ AtSlot(sc, p, k).seen = sc.seen
      /\ AtSlot(sc, p, k).owed = sc.owed
      /\ AtSlot(sc, p, k).next = nx /\ AtSlot(sc, p, k).slot = sl
  BY <1>1, <1>2, <1>3 DEF Scan
<1> QED BY <1>4 DEF nx, sl

(* A scanner about to fetch: all it has returned lies before what it will  *)
(* look at, and what it owes is returned or lies ahead and is not hidden.  *)
Ready(sc) ==
  /\ sc.slot # NoBit => sc.held = sc.cur /\ sc.cur # HeaderPage /\ sc.cur \in hdr.bitmap
  /\ \A rid \in sc.seen : \/ rid[1] < sc.cur
                          \/ rid[1] = sc.cur /\ (sc.slot # NoBit => rid[2] < sc.slot)
  /\ sc.owed \subseteq StoredRids \ stranded
  /\ \A rid \in sc.owed : rid[1] < sc.size
  /\ sc.owed \subseteq sc.seen \cup Ahead(sc)
  /\ Unhidden(sc, sc.owed)

LEMMA NaturalBounds ==
  /\ \A p \in PageNum : p \in Nat
  /\ \A k \in Slot : k \in Nat /\ k # NoBit
  /\ NoPage \notin PageNum
  BY MaxPageNumAssumption, CapacityAssumption DEF PageNum, Slot, NoBit, NoPage

(* What a scanner that has come to a record in use owes is not hidden. *)
LEMMA AtRecordUnhidden ==
  ASSUME TypeInv, NEW sc \in Scan, NEW rids, sc.slot \in page[sc.cur].slots \cup {NoBit}
  PROVE  Unhidden(sc, rids)
<1> SUFFICES ASSUME sc.slot # NoBit, ByteAhead(sc, page[sc.cur].slots) = {}
             PROVE  HiddenBehind(sc.cur, sc.slot + 1) = {}
  BY DEF Unhidden
<1>1. sc.slot \in page[sc.cur].slots /\ sc.slot \in Nat
  BY NaturalBounds DEF Scan
<1>2. sc.slot \div ByteBits # (sc.slot + 1) \div ByteBits
  BY <1>1 DEF ByteAhead
<1>3. \A b \in Nat : b % ByteBits >= (sc.slot + 1) % ByteBits /\ b % ByteBits \in Nat
  BY <1>1, <1>2, InPlaceFromStart, ByteOrder
<1>4. (sc.slot + 1) % ByteBits \in Nat
  BY <1>1, ByteOrder
<1> SUFFICES ASSUME NEW rid \in HiddenBehind(sc.cur, sc.slot + 1) PROVE FALSE
  OBVIOUS
<1>5. rid \in RID /\ rid[2] % ByteBits < (sc.slot + 1) % ByteBits
  BY DEF HiddenBehind
<1>6. rid[2] \in Nat
  BY <1>5, RidParts
<1> HIDE DEF Unhidden
<1> QED BY <1>3, <1>4, <1>5, <1>6

(* The scanner returns a record of the page it holds. *)
LEMMA FetchInPage ==
  ASSUME TypeInv, RowInv, NEW sc \in Scan, Ready(sc), sc.slot # NoBit
  PROVE  LET new == AtSlot(sc, sc.held, sc.slot) IN
         /\ new \in Scan /\ ScanOK(new) /\ OwedOK(new)
         /\ new.held = sc.held /\ new.held \in hdr.bitmap
<1> DEFINE p == sc.cur
           k == sc.slot
           n == next_setted_bit(page[p].slots, Capacity, k + 1)
           new == AtSlot(sc, p, k)
<1>1. /\ sc.held = p /\ p \in PageNum \ {HeaderPage} /\ k \in Slot /\ k \in Nat /\ k # NoBit
      /\ p \in hdr.bitmap
  BY NaturalBounds DEF Ready, Scan
<1>2. page[p].slots \in SUBSET Slot
  BY <1>1 DEF TypeInv, SoundPage, RecordPages
<1>3. /\ n \in page[p].slots \cup {NoBit} /\ (n # NoBit => n >= k + 1)
      /\ \A b \in page[p].slots :
           /\ b >= k + 1
           /\ \/ \E c \in page[p].slots : c \div ByteBits = (k + 1) \div ByteBits
              \/ b % ByteBits >= (k + 1) % ByteBits
           => n # NoBit /\ n <= b
  <2>1. k + 1 \in Nat
    BY <1>1
  <2> QED BY <1>2, <2>1, NextSlot
<1> HIDE DEF p, k
<1>4. /\ new \in Scan /\ new.cur = p /\ new.held = p /\ new.size = sc.size /\ new.seen = sc.seen
      /\ new.owed = sc.owed /\ new.next = <<p, k>> /\ new.slot = n
  <2>1. k \in Slot \cup {NoBit} /\ (IF k = NoBit THEN <<>> ELSE <<p, k>>) = <<p, k>>
    BY <1>1
  <2>2. n = IF k = NoBit THEN NoBit ELSE next_setted_bit(page[p].slots, Capacity, k + 1)
    BY <1>1
  <2> HIDE DEF n
  <2> QED BY <1>1, <2>1, <2>2, AtSlotFields
<1>5. <<p, k>> # <<>>
  OBVIOUS
<1> HIDE DEF n, new
<1>6. ScanOK(new)
  <2>1. n # NoBit => k < n
    <3>1. n # NoBit => n \in Nat
      BY <1>2, <1>3, NaturalBounds
    <3> QED BY <1>1, <1>3, <3>1
  <2>2. \A rid \in sc.seen : rid[1] < p \/ (rid[1] = p /\ rid[2] < k)
    BY <1>1 DEF Ready, p, k
  <2> QED BY <1>4, <2>1, <2>2 DEF ScanOK
<1>7. OwedOK(new)
  <2>1. /\ sc.owed \subseteq StoredRids \ stranded /\ \A rid \in sc.owed : rid[1] < sc.size
        /\ sc.owed \subseteq sc.seen \cup Ahead(sc)
        /\ \/ {c \in page[p].slots : c \div ByteBits = (k + 1) \div ByteBits} # {}
           \/ sc.owed \cap HiddenBehind(p, k + 1) = {}
    BY <1>1 DEF Ready, Unhidden, ByteAhead, p, k
  <2>2. ASSUME NEW r \in sc.owed PROVE r \in sc.seen \cup {<<p, k>>} \cup Ahead(new)
    <3>1. /\ r \in RID \ stranded /\ r = <<r[1], r[2]>> /\ r[1] \in Nat /\ r[2] \in Nat
          /\ r \in StoredRids
      BY <2>1, RidParts DEF StoredRids
    <3>2. r[2] \in page[r[1]].slots
      BY <3>1, StoredIff
    <3>3. r \in sc.seen \/ r[1] > p \/ (r[1] = p /\ r[2] >= k)
      BY <2>1 DEF Ahead, p, k
    <3>4. CASE r[1] > p
      BY <1>4, <3>1, <3>4 DEF Ahead
    <3>5. CASE r[1] = p /\ r[2] = k
      BY <3>1, <3>5
    <3>6. CASE r[1] = p /\ r[2] >= k /\ r[2] # k
      <4>1. r[2] >= k + 1
        BY <1>1, <3>1, <3>6
      <4>2. \/ \E c \in page[p].slots : c \div ByteBits = (k + 1) \div ByteBits
            \/ r[2] % ByteBits >= (k + 1) % ByteBits
        <5>1. r[2] % ByteBits \in Nat /\ (k + 1) % ByteBits \in Nat /\ k + 1 \in Nat
          BY <1>1, <3>1, ByteOrder
        <5>2. r \notin HiddenBehind(p, k + 1) => ~ (r[2] % ByteBits < (k + 1) % ByteBits)
          BY <3>1, <3>6, <4>1, <5>1 DEF HiddenBehind
        <5> QED BY <2>1, <5>1, <5>2
      <4>3. n # NoBit /\ n <= r[2]
        BY <1>3, <3>2, <3>6, <4>1, <4>2
      <4>4. n \in Nat
        BY <1>2, <1>3, <4>3, NaturalBounds
      <4> QED BY <1>4, <3>1, <3>6, <4>3, <4>4 DEF Ahead
    <3> QED BY <3>3, <3>4, <3>5, <3>6
  <2>3. Unhidden(new, new.owed)
    BY <1>3, <1>4, AtRecordUnhidden
  <2> QED BY <1>4, <1>5, <2>1, <2>2, <2>3 DEF OwedOK
<1>8. AtSlot(sc, sc.held, sc.slot) = new
  BY <1>1 DEF new, p, k
<1> QED BY <1>1, <1>4, <1>6, <1>7, <1>8

(* What a scanner at the end of its page still owes lies on those ahead. *)
LEMMA OwedAhead ==
  ASSUME TypeInv, RowInv, NEW sc \in Scan, sc.slot = NoBit, Ready(sc),
         NEW r \in sc.owed, r \notin sc.seen
  PROVE  /\ r \in RID /\ r[1] \in PagesAhead(sc) /\ r[2] \in page[r[1]].slots
         /\ r = <<r[1], r[2]>> /\ r[1] \in Nat /\ r[2] \in Nat
<1>1. r \in StoredRids /\ r \notin stranded /\ r[1] < sc.size /\ r \in Ahead(sc)
  BY DEF Ready
<1>2. r \in RID /\ r = <<r[1], r[2]>> /\ r[1] \in Nat /\ r[2] \in Nat
  BY <1>1, RidParts DEF StoredRids
<1>3. r[1] \in hdr.bitmap /\ r[2] \in page[r[1]].slots
  BY <1>1, <1>2, StoredIff
<1>4. sc.cur < r[1]
  BY <1>1, <1>2, NaturalBounds DEF Ahead, Scan
<1> QED BY <1>1, <1>2, <1>3, <1>4 DEF PagesAhead

(* The scanner finds no page any more. *)
LEMMA FetchNothing ==
  ASSUME TypeInv, RowInv, NEW sc \in Scan, Ready(sc), sc.slot = NoBit, PagesAhead(sc) = {}
  PROVE  LET new == [sc EXCEPT !.next = <<>>] IN
         new \in Scan /\ ScanOK(new) /\ OwedOK(new) /\ new.held = sc.held
<1> DEFINE new == [sc EXCEPT !.next = <<>>]
<1>1. /\ new \in Scan /\ new.next = <<>> /\ new.size = sc.size /\ new.seen = sc.seen
      /\ new.owed = sc.owed /\ new.held = sc.held
  BY DEF Scan
<1> HIDE DEF new
<1>2. sc.owed \subseteq sc.seen
  BY OwedAhead
<1>3. OwedOK(new)
  BY <1>1, <1>2 DEF OwedOK, Ready
<1> QED BY <1>1, <1>3 DEF ScanOK, new

(* The scanner goes on to the next page that has records, or the last. *)
LEMMA FetchNextPage ==
  ASSUME TypeInv, RowInv, NEW sc \in Scan, Ready(sc), sc.slot = NoBit, PagesAhead(sc) # {}
  PROVE  LET p == StopPage(sc)
             new == AtSlot(sc, p, next_setted_bit(page[p].slots, Capacity, 0))
         IN  /\ new \in Scan /\ ScanOK(new) /\ OwedOK(new)
             /\ new.held \in hdr.bitmap /\ new.held > sc.cur
<1> DEFINE p == StopPage(sc)
           k == next_setted_bit(page[p].slots, Capacity, 0)
           n == IF k = NoBit THEN NoBit ELSE next_setted_bit(page[p].slots, Capacity, k + 1)
           new == AtSlot(sc, p, k)
<1>1. /\ p \in PagesAhead(sc) /\ p \in PageNum \ {HeaderPage} /\ p > sc.cur
      /\ \A q \in PagesAhead(sc) : page[q].slots # {} => page[p].slots # {} /\ p <= q
  BY StopPageIs
<1> HIDE DEF p
<1>2. page[p].slots \in SUBSET Slot /\ p \in Nat /\ p \in hdr.bitmap
  BY <1>1, NaturalBounds DEF TypeInv, SoundPage, RecordPages, PagesAhead
<1>3. k \in page[p].slots \cup {NoBit} /\ \A b \in page[p].slots : k # NoBit /\ k <= b
  <2>1. \A b \in page[p].slots : b >= 0 /\ b % ByteBits >= 0 % ByteBits
    BY <1>2, NaturalBounds, InPlaceFromStart
  <2> QED BY <1>2, <2>1, NextSlot
<1> HIDE DEF k
<1>4. k # NoBit => k \in Nat /\ k \in Slot
  BY <1>2, <1>3, NaturalBounds
<1>5. /\ n \in page[p].slots \cup {NoBit} /\ (k # NoBit /\ n # NoBit => n >= k + 1)
      /\ k # NoBit => \A b \in page[p].slots : b >= k + 1 => n # NoBit /\ n <= b
  <2>1. CASE k = NoBit
    BY <2>1
  <2>2. CASE k # NoBit
    <3>1. k + 1 \in Nat /\ k \in page[p].slots /\ k \in Nat
      BY <1>3, <1>4, <2>2
    <3>2. n = next_setted_bit(page[p].slots, Capacity, k + 1)
      BY <2>2
    <3> HIDE DEF n
    <3>3. n \in page[p].slots \cup {NoBit} /\ (n # NoBit => n >= k + 1)
      BY <1>2, <3>1, <3>2, NextSlot
    <3>4. ASSUME NEW b \in page[p].slots, b >= k + 1 PROVE n # NoBit /\ n <= b
      <4>1. b \in Nat
        BY <1>2, NaturalBounds
      <4>2. \/ \E c \in page[p].slots : c \div ByteBits = (k + 1) \div ByteBits
            \/ b % ByteBits >= (k + 1) % ByteBits
        BY <3>1, <4>1, InPlaceFromStart
      <4> QED BY <1>2, <3>1, <3>2, <3>4, <4>2, NextSlot
    <3> QED BY <3>3, <3>4
  <2> QED BY <2>1, <2>2
<1>6. /\ new \in Scan /\ new.cur = p /\ new.held = p /\ new.size = sc.size /\ new.seen = sc.seen
      /\ new.owed = sc.owed /\ new.slot = n
      /\ new.next = IF k = NoBit THEN <<>> ELSE <<p, k>>
  BY <1>1, <1>4, AtSlotFields
<1> HIDE DEF n, new
<1>7. ScanOK(new)
  <2>1. \A rid \in sc.seen : rid \in RID /\ rid[1] <= sc.cur /\ rid[1] \in Nat
    BY RidParts, NaturalBounds DEF Ready, Scan
  <2>2. \A rid \in sc.seen : rid[1] < p
    <3>1. sc.cur \in Nat
      BY NaturalBounds DEF Scan
    <3> QED BY <1>1, <1>2, <2>1, <3>1
  <2>3. k # NoBit /\ n # NoBit => k < n
    BY <1>2, <1>4, <1>5, NaturalBounds
  <2> QED BY <1>6, <2>2, <2>3 DEF ScanOK
<1>8. OwedOK(new)
  <2>1. sc.owed \subseteq StoredRids \ stranded /\ \A rid \in sc.owed : rid[1] < sc.size
    BY DEF Ready
  <2>2. ASSUME NEW r \in sc.owed, r \notin sc.seen
        PROVE  k # NoBit /\ (r = <<p, k>> \/ r \in Ahead(new))
    <3>1. /\ r \in RID /\ r[1] \in PagesAhead(sc) /\ r[2] \in page[r[1]].slots
          /\ r = <<r[1], r[2]>> /\ r[1] \in Nat /\ r[2] \in Nat
      BY <2>2, OwedAhead
    <3>2. page[p].slots # {} /\ p <= r[1]
      BY <1>1, <3>1
    <3>3. k # NoBit
      BY <1>3, <3>2
    <3>4. CASE r[1] # p
      BY <1>2, <1>6, <3>1, <3>2, <3>3, <3>4 DEF Ahead
    <3>5. CASE r[1] = p /\ r[2] = k
      BY <3>1, <3>3, <3>5
    <3>6. CASE r[1] = p /\ r[2] # k
      <4>1. k <= r[2]
        BY <1>3, <3>1, <3>6
      <4>2. r[2] >= k + 1
        BY <1>4, <3>1, <3>3, <3>6, <4>1
      <4>3. n # NoBit /\ n <= r[2]
        BY <1>5, <3>1, <3>3, <3>6, <4>2
      <4>4. n \in Nat
        BY <1>2, <1>5, <4>3, NaturalBounds
      <4> QED BY <1>6, <3>1, <3>3, <3>6, <4>3, <4>4 DEF Ahead
    <3> QED BY <3>4, <3>5, <3>6
  <2>3. Unhidden(new, new.owed)
    BY <1>5, <1>6, AtRecordUnhidden
  <2>4. <<p, k>> # <<>>
    OBVIOUS
  <2> QED BY <1>6, <2>1, <2>2, <2>3, <2>4 DEF OwedOK
<1> QED BY <1>1, <1>2, <1>6, <1>7, <1>8 DEF new, k, p

(* The scanner `sc` is that of s, or s had none and sc holds no page. *)
LEMMA FetchInv ==
  ASSUME IInv, NEW s \in Scanners, NEW sc \in Scan, Ready(sc),
         \/ s \notin Opened /\ sc.held = NoPage
         \/ s \in Opened /\ sc.held = scan[s].held /\ sc.held = sc.cur,
         FetchNextRecord(s, sc), UNCHANGED <<page, free, stored, stranded>>
  PROVE  IInv'
<1>1. PICK new \in Scan :
        /\ scan' = [scan EXCEPT ![s] = new] /\ ScanOK(new) /\ OwedOK(new)
        /\ \/ UNCHANGED <<hdr, disposed>> /\ new.held = sc.held
           \/ UNCHANGED <<hdr, disposed>> /\ sc.held = NoPage /\ new.held \in hdr.bitmap
           \/ UnpinHeld(s) /\ sc.held # NoPage /\ new.held \in hdr.bitmap /\ new.held > sc.cur
  <2>1. CASE sc.slot # NoBit
    <3>1. sc.held # NoPage
      BY <2>1, NaturalBounds DEF Ready, Scan
    <3> QED BY <2>1, <3>1, FetchInPage DEF FetchNextRecord, IInv
  <2>2. CASE sc.slot = NoBit /\ PagesAhead(sc) = {}
    BY <2>2, FetchNothing DEF FetchNextRecord, IInv
  <2>3. CASE sc.slot = NoBit /\ PagesAhead(sc) # {}
    BY <2>3, FetchNextPage DEF FetchNextRecord, IInv
  <2> QED BY <2>1, <2>2, <2>3
<1>2. /\ hdr' \in FileHeader /\ hdr'.page_count = hdr.page_count
      /\ hdr'.bitmap \in {hdr.bitmap, hdr.bitmap \ {scan[s].held}}
      /\ disposed' \subseteq disposed
      /\ \A t \in Opened \ {s} : scan[t].held \in hdr'.bitmap \cup {NoPage}
      /\ RowInv'
  BY <1>1, UnpinInv
<1>3. /\ scan' \in [Scanners -> Scan \cup {Closed}] /\ scan'[s] = new
      /\ \A t \in Scanners \ {s} : scan'[t] = scan[t]
  BY <1>1 DEF IInv, TypeInv, TypeOK
<1>4. Opened' = Opened \cup {s} /\ \A t \in Opened \ {s} : t \in Scanners /\ scan'[t] = scan[t]
  BY <1>3, ClosedAssumption DEF Opened
<1>5. TypeInv'
  <2>1. TypeOK'
    BY <1>2, <1>3 DEF IInv, TypeInv, TypeOK
  <2> QED BY <2>1, <1>1, <1>2, <1>3, <1>4 DEF IInv, TypeInv
<1>6. PinInv'
  <2>1. new.held \in hdr'.bitmap \cup {NoPage}
    <3>1. CASE UnpinHeld(s) /\ sc.held # NoPage /\ new.held \in hdr.bitmap /\ new.held > sc.cur
      <4>1. scan[s].held = sc.cur /\ sc.cur \in PageNum /\ new.held \in PageNum
        BY <3>1, <1>1, NaturalBounds DEF Scan, IInv, TypeInv, TypeOK, FileHeader
      <4>2. new.held # scan[s].held
        BY <3>1, <4>1, NaturalBounds
      <4> QED BY <3>1, <4>2, <1>2
    <3>2. CASE UNCHANGED <<hdr, disposed>> /\ new.held = sc.held
      BY <3>2 DEF IInv, PinInv
    <3> QED BY <1>1, <3>1, <3>2
  <2>2. ASSUME NEW p \in disposed' PROVE \E t \in Opened' : scan'[t].held = p
    <3>1. PICK t \in Opened : scan[t].held = p
      BY <1>2 DEF IInv, PinInv
    <3>2. CASE t # s
      BY <3>1, <3>2, <1>4
    <3>3. CASE t = s /\ UnpinHeld(s)
      <4>1. \E u \in Opened \ {s} : scan[u].held = p
        BY <3>1, <3>3 DEF UnpinHeld
      <4> QED BY <4>1, <1>4
    <3>4. CASE t = s /\ ~ UnpinHeld(s)
      <4>1. new.held = sc.held /\ sc.held = scan[s].held
        <5>1. p # NoPage
          BY <1>2, NaturalBounds DEF IInv, TypeInv, TypeOK
        <5> QED BY <3>1, <3>4, <5>1, <1>1
      <4> QED BY <3>1, <3>4, <4>1, <1>3, <1>4
    <3> QED BY <3>2, <3>3, <3>4
  <2> QED BY <2>1, <2>2, <1>2, <1>3, <1>4 DEF PinInv
<1>7. OwedInv'
  <2>1. StoredRids' = StoredRids
    BY DEF StoredRids
  <2>2. ASSUME NEW t \in Opened' PROVE OwedOK(scan[t])'
    <3>1. OwedOK(scan'[t])
      BY <1>1, <1>3, <1>4 DEF IInv, OwedInv
    <3> QED BY <2>1, <3>1 DEF OwedOK, Ahead, Unhidden, HiddenBehind, ByteAhead
  <2> QED BY <2>2 DEF OwedInv
<1> QED BY <1>2, <1>5, <1>6, <1>7 DEF IInv

LEMMA OpenScanInv ==
  ASSUME IInv, NEW s \in Scanners, OpenScan(s)
  PROVE  IInv'
<1> DEFINE sc == [size |-> hdr.page_count, cur |-> 0, held |-> NoPage, slot |-> NoBit,
                  next |-> <<>>, seen |-> {}, owed |-> StoredRids \ stranded]
<1>1. FetchNextRecord(s, sc) /\ UNCHANGED <<page, free, stored, stranded>> /\ s \notin Opened
  BY DEF OpenScan, Opened
<1>2. hdr.page_count \in Nat /\ 0 \in PageNum /\ StoredRids \subseteq RID
  BY MaxPageNumAssumption DEF IInv, TypeInv, TypeOK, FileHeader, PageNum, StoredRids
<1>3. sc \in Scan
  BY <1>2 DEF Scan
<1>4. /\ sc.size = hdr.page_count /\ sc.cur = 0 /\ sc.slot = NoBit /\ sc.seen = {}
      /\ sc.owed = StoredRids \ stranded /\ sc.held = NoPage
  OBVIOUS
<1> HIDE DEF sc
<1>5. ASSUME NEW r \in StoredRids \ stranded PROVE r[1] < sc.size /\ r \in Ahead(sc)
  <2>1. r \in RID \ stranded /\ r[1] \in Nat /\ r[1] # 0
    BY <1>2, RidParts DEF HeaderPage
  <2>2. r[1] \in hdr.bitmap
    BY <2>1, StoredIff DEF IInv
  <2>3. r[1] \in 0 .. hdr.page_count - 1
    BY <2>2 DEF IInv, TypeInv
  <2> QED BY <1>2, <1>4, <2>1, <2>3 DEF Ahead
<1>6. Ready(sc)
  BY <1>4, <1>5 DEF Ready, Unhidden
<1> QED BY <1>1, <1>3, <1>4, <1>6, FetchInv

LEMMA NextRecordInv ==
  ASSUME IInv, NEW s \in Scanners, NextRecord(s)
  PROVE  IInv'
<1> DEFINE old == scan[s]
           sc == [old EXCEPT !.seen = @ \cup {old.next}]
<1>1. /\ FetchNextRecord(s, sc) /\ UNCHANGED <<page, free, stored, stranded>>
      /\ old.next # <<>> /\ s \in Opened
  BY DEF NextRecord, Opened
<1>2. /\ old \in Scan /\ ScanOK(old) /\ OwedOK(old)
      /\ old.cur \in hdr.bitmap /\ old.held = old.cur
  BY <1>1, ScanPlaces DEF IInv, TypeInv, TypeOK, Opened, OwedInv
<1> HIDE DEF old
<1>3. old.next \in RID /\ old.next[1] # HeaderPage
  BY <1>1, <1>2, RidParts DEF Scan
<1>4. /\ sc \in Scan /\ sc.seen = old.seen \cup {old.next}
      /\ sc.size = old.size /\ sc.cur = old.cur /\ sc.held = old.held /\ sc.slot = old.slot
      /\ sc.next = old.next /\ sc.owed = old.owed
  BY <1>2, <1>3 DEF Scan
<1> HIDE DEF sc
<1>5. Ready(sc)
  <2>1. /\ old.held = old.cur /\ old.next[1] = old.cur
        /\ old.slot # NoBit => old.next[2] < old.slot
        /\ \A rid \in old.seen : rid[1] < old.cur \/ (rid[1] = old.cur /\ rid[2] < old.next[2])
    BY <1>1, <1>2 DEF ScanOK
  <2>2. ASSUME NEW rid \in sc.seen
        PROVE  rid[1] < sc.cur \/ (rid[1] = sc.cur /\ (sc.slot # NoBit => rid[2] < sc.slot))
    <3>1. CASE rid = old.next
      BY <1>4, <2>1, <3>1
    <3>2. CASE rid \in old.seen
      <4>1. rid[2] \in Nat /\ old.next[2] \in Nat
        BY <1>2, <1>3, <3>2, RidParts DEF Scan
      <4>2. old.slot # NoBit => old.slot \in Nat
        BY <1>2, NaturalBounds DEF Scan
      <4> QED BY <1>4, <2>1, <3>2, <4>1, <4>2
    <3> QED BY <1>4, <3>1, <3>2
  <2>3. Unhidden(sc, sc.owed)
    BY <1>1, <1>2, <1>4 DEF OwedOK, Unhidden, ByteAhead
  <2>4. Ahead(sc) = Ahead(old)
    BY <1>4 DEF Ahead
  <2>5. /\ sc.owed \subseteq StoredRids \ stranded /\ \A rid \in sc.owed : rid[1] < sc.size
        /\ sc.owed \subseteq sc.seen \cup Ahead(sc)
    BY <1>1, <1>2, <1>4, <2>4 DEF OwedOK
  <2> QED BY <1>2, <1>3, <1>4, <2>1, <2>2, <2>3, <2>5 DEF Ready
<1> QED BY <1>1, <1>2, <1>4, <1>5, FetchInv DEF old

LEMMA CloseScanInv ==
  ASSUME IInv, NEW s \in Scanners, CloseScan(s)
  PROVE  IInv'
<1>1. /\ UNCHANGED <<page, free, stored, stranded>> /\ scan' = [scan EXCEPT ![s] = Closed]
      /\ (UNCHANGED <<hdr, disposed>> /\ scan[s].held = NoPage) \/ UnpinHeld(s)
  BY DEF CloseScan
<1>2. /\ hdr' \in FileHeader /\ hdr'.page_count = hdr.page_count
      /\ hdr'.bitmap \in {hdr.bitmap, hdr.bitmap \ {scan[s].held}}
      /\ disposed' \subseteq disposed
      /\ \A t \in Opened \ {s} : scan[t].held \in hdr'.bitmap \cup {NoPage}
      /\ RowInv'
  BY <1>1, UnpinInv
<1>3. /\ scan' \in [Scanners -> Scan \cup {Closed}] /\ scan'[s] = Closed
      /\ \A t \in Scanners \ {s} : scan'[t] = scan[t]
  BY <1>1 DEF IInv, TypeInv, TypeOK
<1>4. Opened' = Opened \ {s} /\ \A t \in Opened \ {s} : t \in Scanners /\ scan'[t] = scan[t]
  BY <1>3 DEF Opened
<1>5. TypeInv'
  <2>1. TypeOK'
    BY <1>1, <1>2, <1>3 DEF IInv, TypeInv, TypeOK
  <2> QED BY <2>1, <1>1, <1>2, <1>4 DEF IInv, TypeInv
<1>6. PinInv'
  <2>1. ASSUME NEW p \in disposed' PROVE \E t \in Opened' : scan'[t].held = p
    <3>1. PICK t \in Opened : scan[t].held = p
      BY <1>2 DEF IInv, PinInv
    <3>2. CASE t # s
      BY <3>1, <3>2, <1>4
    <3>3. CASE t = s /\ UnpinHeld(s)
      <4>1. \E u \in Opened \ {s} : scan[u].held = p
        BY <3>1, <3>3 DEF UnpinHeld
      <4> QED BY <4>1, <1>4
    <3>4. CASE t = s /\ ~ UnpinHeld(s)
      <4>1. p = NoPage /\ p \in PageNum
        BY <3>1, <3>4, <1>1, <1>2 DEF IInv, TypeInv, TypeOK
      <4> QED BY <4>1, NaturalBounds
    <3> QED BY <3>2, <3>3, <3>4
  <2> QED BY <2>1, <1>2, <1>4 DEF PinInv
<1>7. OwedInv'
  <2>1. StoredRids' = StoredRids
    BY <1>1 DEF StoredRids
  <2>2. ASSUME NEW t \in Opened' PROVE OwedOK(scan[t])'
    <3>1. OwedOK(scan'[t])
      BY <1>4 DEF IInv, OwedInv
    <3> QED BY <1>1, <2>1, <3>1 DEF OwedOK, Ahead, Unhidden, HiddenBehind, ByteAhead
  <2> QED BY <2>2 DEF OwedInv
<1> QED BY <1>2, <1>5, <1>6, <1>7 DEF IInv

-----------------------------------------------------------------------------
LEMMA InitInv == Init => IInv
<1> SUFFICES ASSUME Init PROVE IInv
  OBVIOUS
<1>1. NewHeader \in FileHeader /\ NewHeader.page_count = 1 /\ NewHeader.bitmap = {0}
  BY NewHeaderExact DEF NewHeader, HeaderPage
<1>2. SoundPage(ClearedPage) /\ ClearedPage \in RecordPages /\ ClearedPage.slots = {}
  BY ClearedSound DEF SoundPage
<1>3. Opened = {}
  BY DEF Init, Opened
<1>4. TypeOK
  BY <1>1, <1>2 DEF Init, TypeOK
<1>5. TypeInv
  BY <1>1, <1>2, <1>3, <1>4, MaxPageNumAssumption DEF Init, TypeInv
<1>6. RowInv
  <2>1. \A rid \in RID : rid[1] \in PageNum
    BY RidParts
  <2> QED BY <1>1, <1>2, <2>1 DEF Init, RowInv
<1> QED BY <1>3, <1>5, <1>6 DEF IInv, OwedInv, PinInv, Init

LEMMA NextInv == IInv /\ [Next]_vars => IInv'
<1> SUFFICES ASSUME IInv, [Next]_vars PROVE IInv'
  OBVIOUS
<1>1. CASE UNCHANGED vars
  <2>1. UNCHANGED <<hdr, page, free, disposed, scan, stored, stranded>>
    BY <1>1 DEF vars
  <2>2. StoredRids' = StoredRids
    BY <2>1 DEF StoredRids
  <2>3. TypeInv'
    BY <2>1, ScansStay DEF IInv, TypeInv, TypeOK
  <2>4. RowInv'
    BY <2>1 DEF IInv, RowInv, IsStale
  <2> QED BY <2>1, <2>2, <2>3, <2>4, ScansStay DEF IInv
<1>2. CASE Next
  BY <1>2, InitHandlerInv, InsertRecordInv, InsertRecordInNewPageInv, UpdateRecordInv,
     DeleteRecordInv, OpenScanInv, NextRecordInv, CloseScanInv DEF Next
<1> QED BY <1>1, <1>2

LEMMA SpecInv == Spec => []IInv
  BY InitInv, NextInv, PTL DEF Spec

-----------------------------------------------------------------------------
(* What the invariant gives. *)

(* The header, the pages, the free and the disposed pages and the scanners *)
(* keep their types: in particular insert_record always finds a slot in    *)
(* the page it chose, and no scanner points past its page.                 *)
THEOREM RecordFileTypeCorrect == Spec => []TypeOK
<1>1. IInv => TypeOK
  BY DEF IInv, TypeInv
<1> QED BY <1>1, SpecInv, PTL

(* RecordFileScanner::next never returns a record a second time, whatever  *)
(* its callers and other scans do to the file meanwhile; callers that      *)
(* insert into pages they emptied are included.                            *)
THEOREM ScanOnceCorrect == Spec => []ScanOnce
<1>1. ASSUME IInv PROVE ScanOnce
  <2> SUFFICES ASSUME NEW s \in Opened, scan[s].next \in scan[s].seen PROVE FALSE
    BY DEF ScanOnce
  <2>1. scan[s] \in Scan /\ ScanOK(scan[s])
    BY <1>1 DEF IInv, TypeInv, TypeOK, Opened
  <2>2. scan[s].next \in RID
    BY <2>1 DEF Scan
  <2>3. scan[s].next # <<>> /\ scan[s].next[1] \in Nat /\ scan[s].next[2] \in Nat
    BY <2>2, RidParts
  <2>4. \/ scan[s].next[1] < scan[s].next[1]
        \/ scan[s].next[2] < scan[s].next[2]
    BY <2>1, <2>3 DEF ScanOK
  <2> QED BY <2>3, <2>4
<1> QED BY <1>1, SpecInv, PTL

(* The file holds exactly the records inserted and not deleted, each with  *)
(* its last contents, whatever the callers and scans do: insert_record,    *)
(* delete_record, the deferred disposal of a page a scan holds and the     *)
(* reuse of a page neither lose nor revive one.  The only records it says  *)
(* nothing of are those insert_record put into a page of free_pages_ that  *)
(* was disposed of, from then until the page is allocated again.           *)
THEOREM RowsKeptCorrect == Spec => []RowsKept
<1>1. ASSUME IInv PROVE RowsKept
  BY <1>1 DEF IInv, RowInv, Rows, RowsKept
<1> QED BY <1>1, SpecInv, PTL

(* A scan returns every record that was in the file when it was opened and *)
(* was not deleted meanwhile, although next_setted_bit, as it is written,  *)
(* can miss bits: fetch_next_record searches from the first slot, or       *)
(* behind one that was in use.  Only when a deletion empties the byte of   *)
(* the slot bitmap it searches on from are the records whose bits lie in   *)
(* the lower places of the bytes behind it given up.                       *)
THEOREM ScanCompleteCorrect == Spec => []ScanComplete
<1>1. ASSUME IInv PROVE ScanComplete
  BY <1>1 DEF IInv, OwedInv, OwedOK, ScanComplete
<1> QED BY <1>1, SpecInv, PTL

=============================================================================
