--------------------------- MODULE RecoveryProofs ---------------------------
(***************************************************************************)
(* Proofs about Recovery, for every size of file, page and log buffer, any *)
(* contents and any number of log records and restarts.  The types hold    *)
(* for any number of sessions; with one, the table has the committed rows  *)
(* and recovery brings back exactly those until one of Reasons happens.    *)
(***************************************************************************)
EXTENDS Recovery, RecordPageProofs, SequenceTheorems

LogRecords ==
  {r \in [type : Change \cup {"BEGIN", "COMMIT"}, trx : Nat, rid : RID \cup {<<>>},
          data : Data \cup {NoData}] :
     r.type \in Change => r.rid \in RID /\ (r.type # "DELETE" => r.data \in Data)}

Operations == [RID -> Change \cup {"NONE"}]

Changes == UNION {[D -> Data \cup {NoData}] : D \in SUBSET RID}

Table ==
  [hdr : FileHeader, page : [PageNum -> RecordPages], free : SUBSET (PageNum \ {HeaderPage})]

(* A page counts at least the records it has: redo may count one twice. *)
Counted(pg) == pg \in RecordPages /\ Cardinality(pg.slots) <= pg.record_num

GoodTable(t) == t \in Table /\ \A p \in PageNum : Counted(t.page[p])

GoodDisk(d) == d \in [PageNum -> RecordPages] /\ \A p \in PageNum : Counted(d[p])

TypeInv ==
  /\ GoodTable(tab)
  /\ GoodDisk(disk)
  /\ log \in Seq(LogRecords)
  /\ synced \in 0 .. Len(log)
  /\ trx_id \in Nat
  /\ trx \in [Sessions -> TrxType \cup {NoTrx}]
  /\ \A s \in Sessions : trx[s] = NoTrx \/ trx[s].id <= trx_id
  /\ pend \in [Sessions -> Changes]
  /\ committed \in [RID -> Data \cup {NoData}]
  /\ restarts \in Nat

-----------------------------------------------------------------------------
(* Pages *)

LEMMA RidParts ==
  ASSUME NEW rid \in RID
  PROVE  rid = <<rid[1], rid[2]>> /\ rid[1] \in PageNum \ {HeaderPage} /\ rid[2] \in Slot
BY DEF RID

LEMMA ClearedCounted == Counted(ClearedPage)
<1>1. ClearedPage \in RecordPages /\ ClearedPage.record_num = 0 /\ ClearedPage.slots = {}
  BY ClearedSound DEF SoundPage, ClearedPage
<1>2. Cardinality({}) = 0
  BY FS_EmptySet
<1> QED BY <1>1, <1>2 DEF Counted

LEMMA PutCounted ==
  ASSUME NEW pg, Counted(pg), NEW k \in Slot, NEW d \in Data
  PROVE  Counted(PutRecord(pg, k, d))
<1> DEFINE new == PutRecord(pg, k, d)
<1>1. pg.record_num \in Int /\ pg.slots \in SUBSET Slot /\ pg.data \in [Slot -> Data \cup {NoData}]
  BY DEF Counted, RecordPages
<1>2. new \in RecordPages /\ new.record_num = pg.record_num + 1 /\ new.slots = pg.slots \cup {k}
  BY <1>1 DEF PutRecord, RecordPages
<1>3. IsFiniteSet(pg.slots) /\ Cardinality(pg.slots) \in Nat
  BY <1>1, SlotsFinite
<1>4. Cardinality(pg.slots \cup {k}) <= Cardinality(pg.slots) + 1
  <2>1. CASE k \in pg.slots
    <3>1. Cardinality(pg.slots \cup {k}) = Cardinality(pg.slots)
      <4>1. pg.slots \cup {k} = pg.slots
        BY <2>1
      <4> QED BY <4>1
    <3> QED BY <1>3, <3>1
  <2>2. CASE k \notin pg.slots
    <3>1. Cardinality(pg.slots \cup {k}) = Cardinality(pg.slots) + 1
      BY <1>3, <2>2, FS_AddElement
    <3> QED BY <1>3, <3>1
  <2> QED BY <2>1, <2>2
<1>5. Cardinality(new.slots) \in Nat /\ Cardinality(new.slots) <= Cardinality(pg.slots) + 1
  <2>1. new.slots \in SUBSET Slot
    BY <1>1, <1>2
  <2> QED BY <1>2, <1>4, <2>1, SlotsFinite
<1>6. Cardinality(pg.slots) <= pg.record_num
  BY DEF Counted
<1> QED BY <1>1, <1>2, <1>3, <1>5, <1>6 DEF Counted

LEMMA UpdateCounted ==
  ASSUME NEW pg, Counted(pg), NEW k \in Slot, NEW d \in Data
  PROVE  Counted(UpdateAt(pg, k, d))
<1> DEFINE new == UpdateAt(pg, k, d)
<1>1. /\ pg.record_num \in Int /\ pg.slots \in SUBSET Slot
      /\ pg.data \in [Slot -> Data \cup {NoData}] /\ pg \in RecordPages
  BY DEF Counted, RecordPages
<1>2. new \in RecordPages /\ new.record_num = pg.record_num /\ new.slots = pg.slots
  BY <1>1 DEF UpdateAt, RecordPages
<1> QED BY <1>2 DEF Counted

LEMMA DeleteCounted ==
  ASSUME NEW pg, Counted(pg), NEW k \in pg.slots
  PROVE  Counted(DeleteAt(pg, k))
<1> DEFINE new == DeleteAt(pg, k)
<1>1. /\ pg.record_num \in Int /\ pg.slots \in SUBSET Slot /\ k \in Slot
      /\ pg.data \in [Slot -> Data \cup {NoData}]
  BY DEF Counted, RecordPages
<1>2. new \in RecordPages /\ new.record_num = pg.record_num - 1 /\ new.slots = pg.slots \ {k}
  BY <1>1 DEF DeleteAt, RecordPages
<1>3. /\ Cardinality(pg.slots \ {k}) = Cardinality(pg.slots) - 1
      /\ Cardinality(pg.slots) \in Nat /\ Cardinality(pg.slots) <= pg.record_num
  BY <1>1, SlotsFinite, FS_RemoveElement DEF Counted
<1> QED BY <1>1, <1>2, <1>3 DEF Counted

-----------------------------------------------------------------------------
(* Tables *)

LEMMA TableFields ==
  ASSUME NEW t, GoodTable(t)
  PROVE  /\ t.hdr \in FileHeader /\ t.page \in [PageNum -> RecordPages]
         /\ t.free \subseteq PageNum \ {HeaderPage}
         /\ \A p \in PageNum : Counted(t.page[p])
BY DEF GoodTable, Table

LEMMA TableMade ==
  ASSUME NEW h \in FileHeader, NEW pages \in [PageNum -> RecordPages],
         \A p \in PageNum : Counted(pages[p]), NEW free \in SUBSET (PageNum \ {HeaderPage})
  PROVE  GoodTable([hdr |-> h, page |-> pages, free |-> free])
BY DEF GoodTable, Table

LEMMA WithPageGood ==
  ASSUME NEW t, GoodTable(t), NEW p \in PageNum, NEW pg, Counted(pg)
  PROVE  /\ GoodTable(WithPage(t, p, pg))
         /\ WithPage(t, p, pg).hdr = t.hdr /\ WithPage(t, p, pg).free = t.free
         /\ WithPage(t, p, pg).page[p] = pg
         /\ \A q \in PageNum \ {p} : WithPage(t, p, pg).page[q] = t.page[q]
<1> DEFINE pages == [t.page EXCEPT ![p] = pg]
<1>1. pg \in RecordPages
  BY DEF Counted
<1>2. /\ pages \in [PageNum -> RecordPages] /\ pages[p] = pg
      /\ \A q \in PageNum \ {p} : pages[q] = t.page[q]
  BY <1>1, TableFields
<1>3. \A q \in PageNum : Counted(pages[q])
  BY <1>2, TableFields
<1>4. WithPage(t, p, pg) = [hdr |-> t.hdr, page |-> pages, free |-> t.free]
  BY DEF WithPage
<1> HIDE DEF pages
<1> QED BY <1>2, <1>3, <1>4, TableFields, TableMade

(* The page a record goes to is a page of the file with room for it. *)
LEMMA TableForGood ==
  ASSUME NEW t, GoodTable(t), CanInsert(t), NEW p \in InsertPages(t)
  PROVE  /\ p \in PageNum \ {HeaderPage}
         /\ GoodTable(TableFor(t, p))
         /\ ~ IsFull(TableFor(t, p).page[p])
<1>1. CASE p \in WithRoom(t)
  BY <1>1, TableFields DEF TableFor, WithRoom
<1>2. CASE p \notin WithRoom(t)
  <2> DEFINE h == IF HasFreePage(t.hdr) THEN ReusePage(t.hdr, p) ELSE ExtendFile(t.hdr)
             pages == [t.page EXCEPT ![p] = InitEmptyPage(t.page[p])]
  <2>1. p \in PageNum \ {HeaderPage} /\ h \in FileHeader
    <3>1. CASE HasFreePage(t.hdr)
      <4>1. p = FirstFreePage(t.hdr)
        BY <1>2, <3>1 DEF InsertPages
      <4>2. p \in PageNum /\ p \notin t.hdr.bitmap
        BY <3>1, <4>1, TableFields, FirstFreePageIsFree DEF ClearBits
      <4>3. p # HeaderPage
        BY <4>2, TableFields DEF FileHeader
      <4> QED BY <3>1, <4>2, <4>3, TableFields, HeaderTypes
    <3>2. CASE ~ HasFreePage(t.hdr)
      <4>1. p = t.hdr.page_count /\ ~ FileIsFull(t.hdr)
        BY <1>2, <3>2 DEF InsertPages, CanInsert
      <4> QED BY <3>2, <4>1, TableFields, ExtendType
    <3> QED BY <3>1, <3>2
  <2>2. TableFor(t, p) = [hdr |-> h, page |-> pages, free |-> t.free \cup {p}]
    BY <1>2 DEF TableFor
  <2>3. ClearedPage \in RecordPages /\ Counted(ClearedPage) /\ ~ IsFull(ClearedPage)
    BY ClearedCounted, ClearedSound DEF Counted
  <2>4. /\ pages \in [PageNum -> RecordPages] /\ pages[p] = ClearedPage
        /\ \A q \in PageNum : Counted(pages[q])
    BY <2>1, <2>3, TableFields DEF InitEmptyPage
  <2>5. t.free \cup {p} \in SUBSET (PageNum \ {HeaderPage})
    BY <2>1, TableFields
  <2> HIDE DEF h, pages
  <2> QED BY <2>1, <2>2, <2>3, <2>4, <2>5, TableMade
<1> QED BY <1>1, <1>2

LEMMA InsertedAtGood ==
  ASSUME NEW t, GoodTable(t), CanInsert(t), NEW p \in InsertPages(t), NEW d \in Data
  PROVE  /\ RidFor(t, p) \in RID /\ RidFor(t, p)[1] = p
         /\ RidFor(t, p)[2] \in Slot \ TableFor(t, p).page[p].slots
         /\ GoodTable(InsertedAt(t, RidFor(t, p), d))
<1> DEFINE u == TableFor(t, p)
           k == FreeSlot(u.page[p])
<1>1. p \in PageNum \ {HeaderPage} /\ GoodTable(u) /\ ~ IsFull(u.page[p])
  BY TableForGood
<1>2. Counted(u.page[p])
  BY <1>1, TableFields
<1>3. k \in Slot \ u.page[p].slots
  BY <1>1, <1>2, FreeSlotIs DEF Counted
<1> HIDE DEF k
<1>4. RidFor(t, p) = <<p, k>> /\ <<p, k>> \in RID /\ <<p, k>>[1] = p /\ <<p, k>>[2] = k
  BY <1>1, <1>3 DEF RidFor, RID, k
<1>5. InsertedAt(t, <<p, k>>, d) = WithPage(u, p, PutRecord(u.page[p], k, d))
  BY DEF InsertedAt
<1>6. Counted(PutRecord(u.page[p], k, d))
  BY <1>2, <1>3, PutCounted
<1> HIDE DEF u
<1> QED BY <1>1, <1>3, <1>4, <1>5, <1>6, WithPageGood DEF u

LEMMA UpdatedAtGood ==
  ASSUME NEW t, GoodTable(t), NEW rid \in RID, NEW d \in Data
  PROVE  GoodTable(UpdatedAt(t, rid, d))
BY RidParts, TableFields, UpdateCounted, WithPageGood DEF UpdatedAt

LEMMA DeletedAtGood ==
  ASSUME NEW t, GoodTable(t), NEW rid \in RID, rid[2] \in t.page[rid[1]].slots
  PROVE  GoodTable(DeletedAt(t, rid))
<1> DEFINE p == rid[1]
           pg == DeleteAt(t.page[p], rid[2])
           h == IF pg.record_num = 0 THEN ReleasePage(t.hdr, p) ELSE t.hdr
           pages == [t.page EXCEPT ![p] = pg]
<1>1. p \in PageNum /\ p # HeaderPage
  BY RidParts
<1>2. Counted(pg) /\ pg \in RecordPages
  BY <1>1, TableFields, DeleteCounted DEF Counted
<1>3. h \in FileHeader
  BY <1>1, TableFields, HeaderTypes
<1> HIDE DEF pg, h
<1>4. pages \in [PageNum -> RecordPages] /\ \A q \in PageNum : Counted(pages[q])
  BY <1>1, <1>2, TableFields
<1>5. t.free \cup {p} \in SUBSET (PageNum \ {HeaderPage})
  BY <1>1, TableFields
<1>6. DeletedAt(t, rid) = [hdr |-> h, page |-> pages, free |-> t.free \cup {p}]
  BY DEF DeletedAt, pg, h
<1> HIDE DEF pages
<1> QED BY <1>3, <1>4, <1>5, <1>6, TableMade

(* The slots of page p that a set of rids names. *)
Gone(rids, p) == {k \in Slot : <<p, k>> \in rids}

Without(pg, gone) ==
  [record_num |-> pg.record_num - Cardinality(gone),
   slots |-> pg.slots \ gone,
   data |-> [k \in Slot |-> IF k \in gone THEN NoData ELSE pg.data[k]]]

LEMMA WithoutCounted ==
  ASSUME NEW pg, Counted(pg), NEW gone \in SUBSET pg.slots
  PROVE  /\ Counted(Without(pg, gone))
         /\ Cardinality(pg.slots \ gone) = Cardinality(pg.slots) - Cardinality(gone)
         /\ Cardinality(gone) \in Nat
<1>1. /\ pg.record_num \in Int /\ pg.slots \in SUBSET Slot /\ gone \in SUBSET Slot
      /\ pg.data \in [Slot -> Data \cup {NoData}]
  BY DEF Counted, RecordPages
<1>2. /\ IsFiniteSet(pg.slots) /\ Cardinality(pg.slots) \in Nat
      /\ IsFiniteSet(gone) /\ Cardinality(gone) \in Nat
  BY <1>1, SlotsFinite
<1>3. Cardinality(pg.slots \ gone) = Cardinality(pg.slots) - Cardinality(gone)
  <2>1. pg.slots \cap gone = gone
    OBVIOUS
  <2>2. Cardinality(pg.slots \ gone) = Cardinality(pg.slots) - Cardinality(pg.slots \cap gone)
    BY <1>2, FS_Difference
  <2> QED BY <2>1, <2>2
<1>4. [k \in Slot |-> IF k \in gone THEN NoData ELSE pg.data[k]] \in [Slot -> Data \cup {NoData}]
  BY <1>1
<1>5. /\ Without(pg, gone) \in RecordPages
      /\ Without(pg, gone).record_num = pg.record_num - Cardinality(gone)
      /\ Without(pg, gone).slots = pg.slots \ gone
  BY <1>1, <1>2, <1>4 DEF Without, RecordPages
<1>6. Cardinality(pg.slots) <= pg.record_num
  BY DEF Counted
<1> QED BY <1>1, <1>2, <1>3, <1>5, <1>6 DEF Counted

LEMMA DeletedAllGood ==
  ASSUME NEW t, GoodTable(t), NEW rids \in SUBSET RID,
         \A rid \in rids : rid[2] \in t.page[rid[1]].slots
  PROVE  /\ GoodTable(DeletedAll(t, rids))
         /\ \A p \in PageNum :
              /\ Gone(rids, p) \subseteq t.page[p].slots
              /\ DeletedAll(t, rids).page[p] = Without(t.page[p], Gone(rids, p))
         /\ DeletedAll(t, rids).free = t.free \cup {rid[1] : rid \in rids}
         /\ LET emptied == {p \in {rid[1] : rid \in rids} :
                              t.page[p].record_num = Cardinality(Gone(rids, p))}
            IN  DeletedAll(t, rids).hdr =
                  [page_count |-> t.hdr.page_count,
                   allocated_pages |-> t.hdr.allocated_pages - Cardinality(emptied),
                   bitmap |-> t.hdr.bitmap \ emptied]
<1> DEFINE named == {rid[1] : rid \in rids}
           emptied == {p \in named : t.page[p].record_num = Cardinality(Gone(rids, p))}
           h == [page_count |-> t.hdr.page_count,
                 allocated_pages |-> t.hdr.allocated_pages - Cardinality(emptied),
                 bitmap |-> t.hdr.bitmap \ emptied]
           pages == [p \in PageNum |-> Without(t.page[p], Gone(rids, p))]
<1>1. named \in SUBSET (PageNum \ {HeaderPage})
  BY RidParts
<1>2. ASSUME NEW p \in PageNum
      PROVE  Gone(rids, p) \subseteq t.page[p].slots /\ Counted(Without(t.page[p], Gone(rids, p)))
  <2>1. Gone(rids, p) \subseteq t.page[p].slots
    <3> SUFFICES ASSUME NEW k \in Slot, <<p, k>> \in rids PROVE k \in t.page[p].slots
      BY DEF Gone
    <3>1. <<p, k>>[1] = p /\ <<p, k>>[2] = k
      OBVIOUS
    <3> QED BY <3>1
  <2> QED BY <2>1, TableFields, WithoutCounted
<1>3. DeletedAll(t, rids) = [hdr |-> h, page |-> pages, free |-> t.free \cup named]
  BY Zenon DEF DeletedAll, Gone, Without
<1>4. h \in FileHeader
  <2>1. emptied \in SUBSET PageNum /\ HeaderPage \notin emptied
    BY <1>1
  <2>2. IsFiniteSet(PageNum)
    BY MaxPageNumAssumption, FS_Interval DEF PageNum
  <2>3. Cardinality(emptied) \in Nat
    BY <2>1, <2>2, FS_Subset, FS_CardinalityType
  <2> HIDE DEF emptied
  <2> QED BY <2>1, <2>3, TableFields DEF FileHeader
<1>5. pages \in [PageNum -> RecordPages] /\ \A p \in PageNum : Counted(pages[p])
  <2>1. \A p \in PageNum : Without(t.page[p], Gone(rids, p)) \in RecordPages
    BY <1>2 DEF Counted
  <2> QED BY <1>2, <2>1
<1>6. t.free \cup named \in SUBSET (PageNum \ {HeaderPage})
  BY <1>1, TableFields
<1>7. \A p \in PageNum : pages[p] = Without(t.page[p], Gone(rids, p))
  OBVIOUS
<1>8. GoodTable(DeletedAll(t, rids))
  <2> HIDE DEF h, pages, named
  <2> QED BY <1>3, <1>4, <1>5, <1>6, TableMade
<1> QED BY <1>2, <1>3, <1>7, <1>8

-----------------------------------------------------------------------------
(* Recovery *)

LEMMA RecordParts ==
  ASSUME NEW r \in LogRecords
  PROVE  /\ r.trx \in Nat /\ r.data \in Data \cup {NoData}
         /\ r.type \in Change \cup {"BEGIN", "COMMIT"}
         /\ r.type \in Change => r.rid \in RID
         /\ r.type \in {"INSERT", "UPDATE"} => r.data \in Data
BY DEF LogRecords, Change

LEMMA RecoverPageGood ==
  ASSUME NEW t, GoodTable(t), NEW p \in PageNum
  PROVE  /\ GoodTable(RecoverPage(t, p))
         /\ RecoverPage(t, p).hdr = RecoverPageBit(t.hdr, p)
         /\ RecoverPage(t, p).page = t.page /\ RecoverPage(t, p).free = t.free
<1>1. RecoverPageBit(t.hdr, p) \in FileHeader
  BY TableFields, HeaderTypes
<1> QED BY <1>1, TableFields, TableMade DEF RecoverPage

LEMMA RedoGood ==
  ASSUME NEW t, GoodTable(t), NEW r \in LogRecords, r.type \in Change
  PROVE  GoodTable(Redo(t, r))
<1> DEFINE p == r.rid[1]
           u == RecoverPage(t, p)
<1>1. r.rid \in RID /\ p \in PageNum /\ r.rid[2] \in Slot
  BY RecordParts, RidParts
<1>2. GoodTable(u)
  BY <1>1, RecoverPageGood
<1>3. CASE r.type = "DELETE"
  <2>1. CASE RedoFails(t, r)
    BY <1>3, <2>1 DEF Redo
  <2>2. CASE ~ RedoFails(t, r)
    <3>1. r.rid[2] \in t.page[r.rid[1]].slots
      BY <1>3, <2>2 DEF RedoFails
    <3>2. Redo(t, r) = DeletedAt(t, r.rid)
      BY <1>3, <2>2 DEF Redo
    <3> QED BY <1>1, <3>1, <3>2, DeletedAtGood
  <2> QED BY <2>1, <2>2
<1>4. CASE r.type # "DELETE"
  <2>1. r.data \in Data
    BY <1>4, RecordParts DEF Change
  <2>2. CASE RedoFails(t, r)
    BY <1>2, <1>4, <2>2 DEF Redo
  <2>3. CASE ~ RedoFails(t, r) /\ r.type = "UPDATE"
    <3>1. Redo(t, r) = UpdatedAt(u, r.rid, r.data)
      BY <1>4, <2>3 DEF Redo
    <3> QED BY <1>1, <1>2, <2>1, <3>1, UpdatedAtGood
  <2>4. CASE ~ RedoFails(t, r) /\ r.type # "UPDATE"
    <3>1. Redo(t, r) = WithPage(u, p, PutRecord(t.page[p], r.rid[2], r.data))
      BY <1>4, <2>4 DEF Redo
    <3>2. Counted(PutRecord(t.page[p], r.rid[2], r.data))
      BY <1>1, <2>1, TableFields, PutCounted
    <3> QED BY <1>1, <1>2, <3>1, <3>2, WithPageGood
  <2> QED BY <2>2, <2>3, <2>4
<1> QED BY <1>3, <1>4

(* Recovery goes from record to record: the recursive function exists.     *)
(* The shortest prefix of the log for which it did not would be one record *)
(* longer than one for which it does.                                      *)
Steps(recs, g, n) ==
  g = [i \in 0 .. n |-> IF i = 0 THEN RecoveryStart ELSE RecoverRecord(recs, g[i - 1], recs[i])]

LEMMA StepsExist ==
  ASSUME NEW recs, NEW n \in Nat
  PROVE  \E g : Steps(recs, g, n)
<1> DEFINE T == {m \in Nat : ~ \E g : Steps(recs, g, m)}
           m == Lowest(T)
<1> SUFFICES ASSUME n \in T PROVE FALSE
  OBVIOUS
<1>1. m \in T /\ \A k \in T : m <= k
  BY LowestIs
<1> HIDE DEF m
<1>2. m # 0
  <2> DEFINE g == [i \in 0 .. 0 |-> RecoveryStart]
  <2>1. g = [i \in 0 .. 0 |->
               IF i = 0 THEN RecoveryStart ELSE RecoverRecord(recs, g[i - 1], recs[i])]
    OBVIOUS
  <2>2. Steps(recs, g, 0)
    BY <2>1 DEF Steps
  <2> QED BY <1>1, <2>2
<1>3. m \in Nat /\ m - 1 \in Nat /\ m - 1 < m
  BY <1>1, <1>2
<1>4. m - 1 \notin T
  BY <1>1, <1>3
<1>5. PICK g : Steps(recs, g, m - 1)
  BY <1>3, <1>4
<1>6. g = [i \in 0 .. m - 1 |->
             IF i = 0 THEN RecoveryStart ELSE RecoverRecord(recs, g[i - 1], recs[i])]
  BY <1>5 DEF Steps
<1> DEFINE last == RecoverRecord(recs, g[m - 1], recs[m])
           h == [i \in 0 .. m |-> IF i = m THEN last ELSE g[i]]
           F == [i \in 0 .. m |->
                   IF i = 0 THEN RecoveryStart ELSE RecoverRecord(recs, h[i - 1], recs[i])]
<1>7. \A i \in 0 .. m - 1 :
        g[i] = IF i = 0 THEN RecoveryStart ELSE RecoverRecord(recs, g[i - 1], recs[i])
  BY <1>6
<1>8. ASSUME NEW i \in 0 .. m
      PROVE  h[i] = IF i = 0 THEN RecoveryStart ELSE RecoverRecord(recs, h[i - 1], recs[i])
  <2>1. CASE i = m
    <3>1. h[i] = last /\ i # 0 /\ i - 1 \in 0 .. m /\ i - 1 # m
      BY <1>2, <1>3, <2>1
    <3>2. h[i - 1] = g[m - 1]
      BY <2>1, <3>1
    <3> QED BY <2>1, <3>1, <3>2
  <2>2. CASE i # m
    <3>1. i \in 0 .. m - 1 /\ h[i] = g[i]
      BY <1>3, <2>2
    <3>2. CASE i = 0
      BY <1>7, <3>1, <3>2
    <3>3. CASE i # 0
      <4>1. i - 1 \in 0 .. m /\ i - 1 # m
        BY <1>3, <3>1, <3>3
      <4>2. h[i - 1] = g[i - 1]
        BY <4>1
      <4> QED BY <1>7, <3>1, <3>3, <4>2
    <3> QED BY <3>2, <3>3
  <2> QED BY <2>1, <2>2
<1>9. h = F
  <2>1. \A i \in 0 .. m : h[i] = F[i]
    BY <1>8
  <2>2. h = [i \in 0 .. m |-> h[i]] /\ F = [i \in 0 .. m |-> F[i]]
    OBVIOUS
  <2> QED BY <2>1, <2>2
<1>10. Steps(recs, h, m)
  BY <1>9 DEF Steps
<1> QED BY <1>1, <1>10

LEMMA RecoveredSteps ==
  ASSUME NEW recs, Len(recs) \in Nat
  PROVE  \E g : /\ g[0] = RecoveryStart
                /\ \A i \in 1 .. Len(recs) : g[i] = RecoverRecord(recs, g[i - 1], recs[i])
                /\ Recovered(recs) = g[Len(recs)]
<1> DEFINE n == Len(recs)
           g == CHOOSE h : h = [i \in 0 .. n |-> IF i = 0 THEN RecoveryStart
                                                ELSE RecoverRecord(recs, h[i - 1], recs[i])]
<1>1. \E h : h = [i \in 0 .. n |-> IF i = 0 THEN RecoveryStart
                                   ELSE RecoverRecord(recs, h[i - 1], recs[i])]
  BY StepsExist DEF Steps
<1>2. g = [i \in 0 .. n |-> IF i = 0 THEN RecoveryStart ELSE RecoverRecord(recs, g[i - 1], recs[i])]
  BY <1>1, Zenon
<1>3. Recovered(recs) = g[Len(recs)]
  BY DEF Recovered
<1> HIDE DEF g
<1>4. g[0] = RecoveryStart
  BY <1>2
<1>5. \A i \in 1 .. n : g[i] = RecoverRecord(recs, g[i - 1], recs[i])
  BY <1>2
<1> QED BY <1>3, <1>4, <1>5

GoodState(a) == GoodTable(a.t) /\ GoodDisk(a.disk) /\ a.ok \in BOOLEAN /\ a.max \in Nat

(* What is on disk stays, or is a page without records. *)
LEMMA PurgedGood ==
  ASSUME NEW d, GoodDisk(d), NEW t, NEW u
  PROVE  /\ GoodDisk(Purged(d, t, u))
         /\ \A p \in PageNum : Purged(d, t, u)[p] \in {ClearedPage, d[p]}
<1>1. Counted(ClearedPage) /\ ClearedPage \in RecordPages
  BY ClearedCounted DEF Counted
<1>2. \A p \in PageNum : Purged(d, t, u)[p] \in {ClearedPage, d[p]}
  BY DEF Purged
<1>3. \A p \in PageNum : Counted(Purged(d, t, u)[p]) /\ Purged(d, t, u)[p] \in RecordPages
  BY <1>1, <1>2 DEF GoodDisk
<1>4. Purged(d, t, u) = [p \in PageNum |-> Purged(d, t, u)[p]]
  BY DEF Purged
<1> QED BY <1>2, <1>3, <1>4 DEF GoodDisk

LEMMA FormattedGood ==
  ASSUME GoodDisk(disk), NEW t, NEW p \in PageNum
  PROVE  /\ GoodDisk(Formatted(t, p))
         /\ \A q \in PageNum : Formatted(t, p)[q] \in {ClearedPage, disk[q]}
<1>1. Counted(ClearedPage) /\ ClearedPage \in RecordPages
  BY ClearedCounted DEF Counted
<1>2. CASE p \in WithRoom(t)
  BY <1>2 DEF Formatted
<1>3. CASE p \notin WithRoom(t)
  <2>1. Formatted(t, p) = [disk EXCEPT ![p] = ClearedPage]
    BY <1>3 DEF Formatted
  <2> QED BY <1>1, <2>1 DEF GoodDisk
<1> QED BY <1>2, <1>3

LEMMA OpenTableGood ==
  ASSUME GoodDisk(disk)
  PROVE  GoodTable(OpenTable)
<1> DEFINE free == {p \in IteratedPages(NewHeader) : ~ IsFull(disk[p])}
<1>1. NewHeader \in FileHeader
  BY NewHeaderExact
<1>2. free \in SUBSET (PageNum \ {HeaderPage})
  BY <1>1 DEF IteratedPages, FileHeader
<1> HIDE DEF free
<1>3. OpenTable = [hdr |-> NewHeader, page |-> disk, free |-> free]
  BY DEF OpenTable, free
<1> QED BY <1>1, <1>2, <1>3, TableMade DEF GoodDisk

LEMMA RecoverRecordGood ==
  ASSUME NEW recs, NEW a, GoodState(a), NEW r \in LogRecords
  PROVE  GoodState(RecoverRecord(recs, a, r))
<1>1. CASE ~ a.ok \/ r.type \in {"BEGIN", "COMMIT"}
  BY <1>1 DEF RecoverRecord
<1>2. CASE ~ (~ a.ok \/ r.type \in {"BEGIN", "COMMIT"}) /\ r.trx \notin KnownTrx(recs)
  BY <1>2 DEF RecoverRecord, GoodState
<1>3. CASE ~ (~ a.ok \/ r.type \in {"BEGIN", "COMMIT"}) /\ r.trx \in KnownTrx(recs) /\ Skipped(recs, r)
  BY <1>3 DEF RecoverRecord
<1>4. CASE ~ (~ a.ok \/ r.type \in {"BEGIN", "COMMIT"}) /\ r.trx \in KnownTrx(recs) /\ ~ Skipped(recs, r)
  <2>1. RecoverRecord(recs, a, r) =
          [t |-> Redo(a.t, r), disk |-> Purged(a.disk, a.t, Redo(a.t, r)),
           ok |-> ~ RedoFails(a.t, r), max |-> Greater(a.max, r.trx)]
    BY <1>4 DEF RecoverRecord
  <2>2. r.type \in Change /\ r.trx \in Nat
    BY <1>4, RecordParts
  <2>3. GoodTable(Redo(a.t, r))
    BY <2>2, RedoGood DEF GoodState
  <2>4. Greater(a.max, r.trx) \in Nat
    BY <2>2 DEF GoodState, Greater
  <2>5. (~ RedoFails(a.t, r)) \in BOOLEAN
    BY Zenon
  <2>6. GoodDisk(Purged(a.disk, a.t, Redo(a.t, r)))
    BY PurgedGood DEF GoodState
  <2> QED BY <2>1, <2>3, <2>4, <2>5, <2>6 DEF GoodState
<1> QED BY <1>1, <1>2, <1>3, <1>4

LEMMA RecoveredGood ==
  ASSUME TypeInv, NEW recs \in Seq(LogRecords)
  PROVE  GoodState(Recovered(recs))
<1> DEFINE n == Len(recs)
<1>1. n \in Nat /\ \A i \in 1 .. n : recs[i] \in LogRecords
  BY LenProperties, ElementOfSeq
<1>2. PICK g : /\ g[0] = RecoveryStart
               /\ \A i \in 1 .. n : g[i] = RecoverRecord(recs, g[i - 1], recs[i])
               /\ Recovered(recs) = g[n]
  BY <1>1, RecoveredSteps
<1> DEFINE T == {i \in Nat : i <= n /\ ~ GoodState(g[i])}
<1>3. SUFFICES ASSUME n \in T PROVE FALSE
  BY <1>1, <1>2
<1>4. PICK m \in T : \A k \in T : m <= k
  BY <1>3, LowestIs
<1>5. GoodState(g[0])
  <2>1. GoodTable(OpenTable)
    BY OpenTableGood DEF TypeInv
  <2> QED BY <1>2, <2>1 DEF RecoveryStart, GoodState, TypeInv
<1>6. m \in 1 .. n /\ m - 1 \in Nat /\ m - 1 <= n /\ ~ (m <= m - 1)
  BY <1>1, <1>4, <1>5
<1>7. GoodState(g[m - 1])
  BY <1>4, <1>6
<1>8. GoodState(g[m])
  BY <1>1, <1>2, <1>6, <1>7, RecoverRecordGood
<1> QED BY <1>4, <1>8

LEMMA SyncedLogType ==
  ASSUME log \in Seq(LogRecords), synced \in 0 .. Len(log)
  PROVE  /\ SyncedLog \in Seq(LogRecords) /\ Len(SyncedLog) = synced
         /\ \A i \in 1 .. synced : SyncedLog[i] = log[i]
<1>1. Len(log) \in Nat /\ synced \in Nat /\ synced <= Len(log)
  BY LenProperties
<1>2. \A i \in 1 .. synced : log[i] \in LogRecords
  BY <1>1, ElementOfSeq
<1> QED BY <1>1, <1>2, SubSeqProperties DEF SyncedLog

-----------------------------------------------------------------------------
(* The log and the sessions *)

LogType == log \in Seq(LogRecords) /\ synced \in 0 .. Len(log)

SessionType ==
  /\ trx_id \in Nat
  /\ trx \in [Sessions -> TrxType \cup {NoTrx}]
  /\ \A s \in Sessions : trx[s] = NoTrx \/ trx[s].id <= trx_id
  /\ pend \in [Sessions -> Changes]
  /\ committed \in [RID -> Data \cup {NoData}]
  /\ restarts \in Nat

TableType ==
  /\ GoodTable(tab)
  /\ GoodDisk(disk)

LEMMA TypeParts == TypeInv <=> TableType /\ LogType /\ SessionType
BY DEF TypeInv, TableType, LogType, SessionType

(* What is appended to the log, and how far it is synced. *)
LEMMA LoggedIs ==
  ASSUME LogType, NEW recs \in Seq(LogRecords), Len(recs) > 0, Logged(recs)
  PROVE  /\ LogType'
         /\ log' = log \o recs /\ Len(log') = Len(log) + Len(recs)
         /\ \A i \in 1 .. Len(log) : log'[i] = log[i]
         /\ \A i \in 1 .. Len(recs) : log'[Len(log) + i] = recs[i]
         /\ synced' \in {synced, Len(log), Len(log')}
<1>1. Len(log) \in Nat /\ Len(recs) \in Nat /\ synced \in Nat /\ synced <= Len(log)
  BY LenProperties DEF LogType
<1>2. /\ log' = log \o recs
      /\ synced' = IF recs[Len(recs)].type = "COMMIT" THEN Len(log')
                   ELSE IF BufferFull THEN Len(log) ELSE synced
  BY DEF Logged
<1>3. log' \in Seq(LogRecords) /\ Len(log') = Len(log) + Len(recs)
  BY <1>2, ConcatProperties DEF LogType
<1>4. /\ \A i \in 1 .. Len(log) : log'[i] = log[i]
      /\ \A i \in 1 .. Len(recs) : log'[Len(log) + i] = recs[i]
  BY <1>1, <1>2, ConcatProperties, SMT DEF LogType
<1>5. synced' \in {synced, Len(log), Len(log')}
  BY <1>2
<1>6. synced' \in 0 .. Len(log')
  BY <1>1, <1>3, <1>5
<1> QED BY <1>2, <1>3, <1>4, <1>5, <1>6 DEF LogType

LEMMA MtrRecordType ==
  ASSUME NEW id \in Nat, NEW type \in {"BEGIN", "COMMIT"}
  PROVE  /\ MtrRecord(type, id) \in LogRecords
         /\ MtrRecord(type, id).type = type /\ MtrRecord(type, id).trx = id
BY DEF MtrRecord, LogRecord, LogRecords, Change

LEMMA LogRecordType ==
  ASSUME NEW id \in Nat, NEW type \in Change, NEW rid \in RID, NEW d \in Data \cup {NoData},
         type # "DELETE" => d \in Data
  PROVE  /\ LogRecord(type, id, rid, d) \in LogRecords
         /\ LogRecord(type, id, rid, d).type = type /\ LogRecord(type, id, rid, d).trx = id
         /\ LogRecord(type, id, rid, d).rid = rid /\ LogRecord(type, id, rid, d).data = d
BY DEF LogRecord, LogRecords

LEMMA ChangeNotMtr == \A x \in Change : x # "BEGIN" /\ x # "COMMIT"
BY DEF Change

LEMMA TrxParts ==
  ASSUME NEW x \in TrxType
  PROVE  x.id \in Nat /\ x.multi \in BOOLEAN /\ x.ops \in Operations /\ x # NoTrx
BY NoTrxAssumption DEF TrxType, Operations

LEMMA TrxMade ==
  ASSUME NEW id \in Nat, NEW multi \in BOOLEAN, NEW ops \in Operations
  PROVE  /\ TrxOf(id, multi, ops) \in TrxType /\ TrxOf(id, multi, ops).id = id
         /\ TrxOf(id, multi, ops).multi = multi /\ TrxOf(id, multi, ops).ops = ops
BY DEF TrxOf, TrxType, Operations

LEMMA NextTrx ==
  ASSUME NEW last \in Nat, NEW ops \in Operations
  PROVE  /\ TrxOf(last + 1, FALSE, ops) \in TrxType /\ TrxOf(last + 1, FALSE, ops).id = last + 1
         /\ TrxOf(last + 1, FALSE, ops).multi = FALSE /\ TrxOf(last + 1, FALSE, ops).ops = ops
<1>1. last + 1 \in Nat /\ FALSE \in BOOLEAN
  OBVIOUS
<1> QED BY <1>1, TrxMade, ZenonT(40)

LEMMA BegunTrx ==
  ASSUME NEW id \in Nat, NEW ops \in Operations
  PROVE  /\ TrxOf(id, TRUE, ops) \in TrxType /\ TrxOf(id, TRUE, ops).id = id
         /\ TrxOf(id, TRUE, ops).multi = TRUE /\ TrxOf(id, TRUE, ops).ops = ops
BY DEF TrxOf, TrxType, Operations

LEMMA NewTrxType ==
  ASSUME NEW id \in Nat
  PROVE  /\ NewTrx(id) \in TrxType /\ NewTrx(id).id = id
         /\ NewTrx(id).multi = FALSE /\ NewTrx(id).ops = NoOperations
<1>1. NoOperations \in Operations
  BY DEF NoOperations, Operations
<1> QED BY <1>1, TrxMade, ZenonT(40) DEF NewTrx

LEMMA NoChangeType == NoChange \in Changes /\ DOMAIN NoChange = {}
BY DEF NoChange, Changes

LEMMA ChangedType ==
  ASSUME NEW old \in [RID -> Data \cup {NoData}], NEW new \in Changes
  PROVE  Changed(old, new) \in [RID -> Data \cup {NoData}]
BY DEF Changed, Changes

(* A step that gives one session a new Trx and does not lower the counter. *)
LEMMA SetTrx ==
  ASSUME SessionType, NEW s \in Sessions, NEW x \in TrxType, trx_id' \in Nat, trx_id <= trx_id',
         x.id <= trx_id', trx' = [trx EXCEPT ![s] = x]
  PROVE  /\ trx' \in [Sessions -> TrxType \cup {NoTrx}] /\ trx'[s] = x
         /\ \A q \in Sessions : trx'[q] = NoTrx \/ trx'[q].id <= trx_id'
<1>1. /\ trx \in [Sessions -> TrxType \cup {NoTrx}] /\ trx_id \in Nat
      /\ \A q \in Sessions : trx[q] = NoTrx \/ trx[q].id <= trx_id
  BY DEF SessionType
<1>2. trx' \in [Sessions -> TrxType \cup {NoTrx}] /\ trx'[s] = x
  BY <1>1
<1>3. ASSUME NEW q \in Sessions PROVE trx'[q] = NoTrx \/ trx'[q].id <= trx_id'
  <2>1. CASE q = s
    BY <1>2, <2>1
  <2>2. CASE q # s
    <3>1. trx'[q] = trx[q]
      BY <1>1, <2>2
    <3>2. CASE trx[q] = NoTrx
      BY <3>1, <3>2
    <3>3. CASE trx[q] # NoTrx
      <4>1. trx[q] \in TrxType
        BY <1>1, <3>3
      <4>2. trx[q].id \in Nat
        BY <4>1, TrxParts
      <4> QED BY <1>1, <3>1, <3>3, <4>2
    <3> QED BY <3>2, <3>3
  <2> QED BY <2>1, <2>2
<1> QED BY <1>2, <1>3

LEMMA SessionTrx ==
  ASSUME SessionType, NEW s \in Sessions, trx[s] # NoTrx
  PROVE  /\ trx[s] \in TrxType /\ trx[s].id \in Nat /\ trx[s].multi \in BOOLEAN
         /\ trx[s].ops \in Operations /\ trx[s].id <= trx_id
BY TrxParts DEF SessionType

(* The changes of a session with one more. *)
Mine(c, rid, d) == [r \in DOMAIN c \cup {rid} |-> IF r = rid THEN d ELSE c[r]]

LEMMA MineType ==
  ASSUME NEW c \in Changes, NEW rid \in RID, NEW d \in Data \cup {NoData}
  PROVE  /\ Mine(c, rid, d) \in Changes
         /\ DOMAIN Mine(c, rid, d) = DOMAIN c \cup {rid}
         /\ Mine(c, rid, d)[rid] = d
         /\ \A r \in DOMAIN c \ {rid} : Mine(c, rid, d)[r] = c[r]
<1>1. PICK D \in SUBSET RID : c \in [D -> Data \cup {NoData}]
  BY DEF Changes
<1>2. Mine(c, rid, d) \in [D \cup {rid} -> Data \cup {NoData}]
  BY <1>1 DEF Mine
<1>3. D \cup {rid} \in SUBSET RID
  OBVIOUS
<1>4. Mine(c, rid, d) \in Changes
  BY <1>2, <1>3 DEF Changes
<1> QED BY <1>4 DEF Mine

LEMMA SetPend ==
  ASSUME SessionType, NEW s \in Sessions, NEW c \in Changes, pend' = [pend EXCEPT ![s] = c]
  PROVE  pend' \in [Sessions -> Changes] /\ pend'[s] = c
BY DEF SessionType

LEMMA FinishedType ==
  ASSUME LogType, SessionType, NEW s \in Sessions, trx[s] # NoTrx, NEW ops \in Operations,
         NEW rec \in LogRecords, rec.type \in Change, NEW last \in Nat, rec.trx <= last,
         trx_id <= last, Finished(s, ops, rec, last)
  PROVE  LogType' /\ SessionType'
<1> DEFINE mine == Mine(pend[s], rec.rid, rec.data)
<1>1. pend[s] \in Changes /\ rec.rid \in RID /\ rec.data \in Data \cup {NoData} /\ rec.trx \in Nat
  BY RecordParts DEF SessionType
<1>2. mine \in Changes
  BY <1>1, MineType
<1>3. restarts' = restarts /\ trx[s].multi \in BOOLEAN
  BY SessionTrx DEF Finished
<1> HIDE DEF mine
<1>4. CASE trx[s].multi \/ BufferFull
  <2>1. /\ Logged(<<rec>>) /\ trx_id' = last
        /\ trx' = [trx EXCEPT ![s] = TrxOf(rec.trx, trx[s].multi, ops)]
        /\ pend' = [pend EXCEPT ![s] = mine] /\ committed' = committed
    BY <1>4 DEF Finished, Mine, mine
  <2>2. LogType'
    <3>1. <<rec>> \in Seq(LogRecords) /\ Len(<<rec>>) > 0
      OBVIOUS
    <3> QED BY <2>1, <3>1, LoggedIs
  <2>3. TrxOf(rec.trx, trx[s].multi, ops) \in TrxType /\ TrxOf(rec.trx, trx[s].multi, ops).id = rec.trx
    BY <1>1, <1>3, TrxMade
  <2>4. /\ trx' \in [Sessions -> TrxType \cup {NoTrx}]
        /\ \A q \in Sessions : trx'[q] = NoTrx \/ trx'[q].id <= trx_id'
    BY <2>1, <2>3, SetTrx
  <2>5. pend' \in [Sessions -> Changes]
    BY <1>2, <2>1, SetPend
  <2> QED BY <1>3, <2>1, <2>2, <2>4, <2>5 DEF SessionType
<1>5. CASE ~ (trx[s].multi \/ BufferFull)
  <2> DEFINE recs == <<rec, MtrRecord("COMMIT", rec.trx)>>
  <2>1. /\ Logged(recs) /\ trx_id' = last + 1
        /\ trx' = [trx EXCEPT ![s] = TrxOf(last + 1, FALSE, ops)]
        /\ pend' = [pend EXCEPT ![s] = NoChange] /\ committed' = Changed(committed, mine)
    BY <1>5 DEF Finished, Promised, Mine, mine
  <2>2. LogType'
    <3>1. MtrRecord("COMMIT", rec.trx) \in LogRecords
      BY <1>1, MtrRecordType
    <3>2. recs \in Seq(LogRecords) /\ Len(recs) > 0
      BY <3>1
    <3> QED BY <2>1, <3>2, LoggedIs
  <2>3. TrxOf(last + 1, FALSE, ops) \in TrxType /\ TrxOf(last + 1, FALSE, ops).id = last + 1
    BY NextTrx, Zenon
  <2>4. trx_id' \in Nat /\ trx_id <= trx_id' /\ last + 1 <= trx_id'
    BY <2>1 DEF SessionType
  <2>5. /\ trx' \in [Sessions -> TrxType \cup {NoTrx}]
        /\ \A q \in Sessions : trx'[q] = NoTrx \/ trx'[q].id <= trx_id'
    BY <2>1, <2>3, <2>4, SetTrx
  <2>6. pend' \in [Sessions -> Changes]
    BY <2>1, NoChangeType, SetPend
  <2>7. committed' \in [RID -> Data \cup {NoData}]
    BY <1>2, <2>1, ChangedType DEF SessionType
  <2> QED BY <1>3, <2>2, <2>4, <2>5, <2>6, <2>7 DEF SessionType
<1> QED BY <1>4, <1>5

LEMMA FailedType ==
  ASSUME LogType, SessionType, Failed
  PROVE  LogType' /\ SessionType'
BY DEF Failed, LogType, SessionType

LEMMA StoredIs ==
  ASSUME NEW rid \in StoredRids
  PROVE  rid \in RID /\ rid[1] \in tab.hdr.bitmap /\ rid[2] \in tab.page[rid[1]].slots
BY DEF StoredRids, Row, IteratedPages

-----------------------------------------------------------------------------
(* Types: one lemma per operation *)

LEMMA InitType ==
  ASSUME Init
  PROVE  TypeInv
<1>1. Counted(ClearedPage) /\ ClearedPage \in RecordPages
  BY ClearedCounted DEF Counted
<1>2. GoodDisk(disk)
  BY <1>1 DEF Init, GoodDisk
<1>3. TableType
  BY <1>2, OpenTableGood DEF Init, TableType
<1>4. LogType
  BY LenProperties, SMT DEF Init, LogType
<1>5. SessionType
  BY NoChangeType DEF Init, SessionType
<1> QED BY <1>3, <1>4, <1>5, TypeParts

LEMMA ConnectType ==
  ASSUME TypeInv, NEW s \in Sessions, Connect(s)
  PROVE  TypeInv'
<1>1. TableType /\ LogType /\ SessionType
  BY TypeParts
<1>2. TableType' /\ LogType'
  BY <1>1 DEF Connect, TableType, LogType
<1>3. trx_id' = trx_id + 1 /\ trx_id' \in Nat /\ trx_id <= trx_id'
  BY <1>1 DEF Connect, SessionType
<1>4. NewTrx(trx_id') \in TrxType /\ NewTrx(trx_id').id <= trx_id'
  <2>1. NewTrx(trx_id') \in TrxType /\ NewTrx(trx_id').id = trx_id'
    BY <1>3, NewTrxType
  <2> QED BY <1>3, <2>1
<1>5. trx' = [trx EXCEPT ![s] = NewTrx(trx_id')]
  BY <1>3 DEF Connect
<1>6. /\ trx' \in [Sessions -> TrxType \cup {NoTrx}]
      /\ \A q \in Sessions : trx'[q] = NoTrx \/ trx'[q].id <= trx_id'
  BY <1>1, <1>3, <1>4, <1>5, SetTrx
<1>7. SessionType'
  BY <1>1, <1>3, <1>6 DEF Connect, SessionType
<1> QED BY <1>2, <1>7, TypeParts DEF TypeInv, TableType, LogType, SessionType

LEMMA InsertType ==
  ASSUME TypeInv, NEW s \in Sessions, NEW d \in Data, Insert(s, d)
  PROVE  TypeInv'
<1>1. TableType /\ LogType /\ SessionType /\ GoodTable(tab) /\ trx[s] # NoTrx /\ CanInsert(tab)
  BY TypeParts DEF Insert, TableType
<1> DEFINE Rid(p) == RidFor(tab, p)
           T(p) == InsertedAt(tab, Rid(p), d)
           Ok(p) == trx[s].ops[Rid(p)] \in {"NONE", "DELETE"}
           Ops(p) == [trx[s].ops EXCEPT ![Rid(p)] = "INSERT"]
<1>2. PICK p \in InsertPages(tab) :
        /\ tab' = IF Ok(p) THEN T(p) ELSE DeletedAt(T(p), Rid(p))
        /\ disk' = Formatted(tab, p)
        /\ IF Ok(p) THEN Finished(s, Ops(p), LogRecord("INSERT", trx[s].id, Rid(p), d), trx_id)
           ELSE Failed
  BY DEF Insert
<1>3. /\ Rid(p) \in RID /\ Rid(p)[1] = p /\ p \in PageNum
      /\ Rid(p)[2] \in Slot /\ GoodTable(T(p)) /\ GoodTable(TableFor(tab, p))
  BY <1>1, InsertedAtGood, TableForGood
<1>4. Rid(p)[2] \in T(p).page[Rid(p)[1]].slots
  <2> DEFINE u == TableFor(tab, p)
  <2>1. T(p) = WithPage(u, p, PutRecord(u.page[p], Rid(p)[2], d))
    BY <1>3 DEF InsertedAt
  <2>2. Counted(PutRecord(u.page[p], Rid(p)[2], d))
    BY <1>3, TableFields, PutCounted
  <2>3. T(p).page[p] = PutRecord(u.page[p], Rid(p)[2], d)
    BY <1>3, <2>1, <2>2, WithPageGood
  <2> QED BY <1>3, <2>3 DEF PutRecord
<1> HIDE DEF Rid, T
<1>5. GoodTable(tab')
  BY <1>2, <1>3, <1>4, DeletedAtGood
<1>6. TableType'
  BY <1>1, <1>2, <1>3, <1>5, FormattedGood DEF TableType
<1>7. LogType' /\ SessionType'
  <2>1. CASE Ok(p)
    <3>1. trx[s].id \in Nat /\ trx[s].ops \in Operations /\ trx[s].id <= trx_id /\ trx_id \in Nat
      BY <1>1, SessionTrx DEF SessionType
    <3>2. Ops(p) \in Operations
      BY <3>1 DEF Operations, Change
    <3> DEFINE rec == LogRecord("INSERT", trx[s].id, Rid(p), d)
    <3>3. "INSERT" \in Change /\ "INSERT" # "DELETE"
      BY DEF Change
    <3>4. rec \in LogRecords /\ rec.type \in Change /\ rec.trx = trx[s].id
      BY <1>3, <3>1, <3>3, LogRecordType
    <3>5. Finished(s, Ops(p), rec, trx_id)
      BY <1>2, <2>1
    <3>6. rec.trx <= trx_id /\ trx_id <= trx_id
      BY <3>1, <3>4
    <3> HIDE DEF rec, Ops
    <3> QED BY <1>1, <3>1, <3>2, <3>4, <3>5, <3>6, FinishedType
  <2>2. CASE ~ Ok(p)
    BY <1>1, <1>2, <2>2, FailedType
  <2> QED BY <2>1, <2>2
<1> QED BY <1>6, <1>7 DEF TypeInv, TableType, LogType, SessionType

LEMMA UpdateType ==
  ASSUME TypeInv, NEW s \in Sessions, NEW rid \in RID, NEW d \in Data, Update(s, rid, d)
  PROVE  TypeInv'
<1> DEFINE op == trx[s].ops[rid]
           ops == [trx[s].ops EXCEPT ![rid] = IF op = "NONE" THEN "UPDATE" ELSE op]
           rec == LogRecord("UPDATE", trx[s].id, rid, d)
<1>1. TableType /\ LogType /\ SessionType /\ GoodTable(tab) /\ trx[s] # NoTrx
  BY TypeParts DEF Update, TableType
<1>2. /\ tab' = UpdatedAt(tab, rid, d) /\ disk' = disk
      /\ IF op # "DELETE" THEN Finished(s, ops, rec, trx_id) ELSE Failed
  BY DEF Update
<1>3. TableType'
  BY <1>1, <1>2, UpdatedAtGood DEF TableType
<1>4. LogType' /\ SessionType'
  <2>1. CASE op # "DELETE"
    <3>1. trx[s].id \in Nat /\ trx[s].ops \in Operations /\ trx[s].id <= trx_id /\ trx_id \in Nat
      BY <1>1, SessionTrx DEF SessionType
    <3>2. ops \in Operations
      BY <3>1 DEF Operations, Change
    <3>3. "UPDATE" \in Change /\ "UPDATE" # "DELETE"
      BY DEF Change
    <3>4. rec \in LogRecords /\ rec.type \in Change /\ rec.trx = trx[s].id
      BY <3>1, <3>3, LogRecordType
    <3>5. Finished(s, ops, rec, trx_id)
      BY <1>2, <2>1
    <3>6. rec.trx <= trx_id /\ trx_id <= trx_id
      BY <3>1, <3>4
    <3> HIDE DEF rec, ops
    <3> QED BY <1>1, <3>1, <3>2, <3>4, <3>5, <3>6, FinishedType
  <2>2. CASE op = "DELETE"
    BY <1>1, <1>2, <2>2, FailedType
  <2> QED BY <2>1, <2>2
<1> QED BY <1>3, <1>4 DEF TypeInv, TableType, LogType, SessionType

LEMMA DeleteType ==
  ASSUME TypeInv, NEW s \in Sessions, NEW rid \in RID, Delete(s, rid)
  PROVE  TypeInv'
<1> DEFINE op == trx[s].ops[rid]
           ops == [trx[s].ops EXCEPT ![rid] =
                     IF op = "INSERT" THEN "NONE" ELSE IF op = "NONE" THEN "DELETE" ELSE op]
           last == IF trx[s].id = 0 THEN trx_id + 1 ELSE trx_id
           id == IF trx[s].id = 0 THEN last ELSE trx[s].id
           rec == LogRecord("DELETE", id, rid, NoData)
<1>1. TableType /\ LogType /\ SessionType /\ GoodTable(tab) /\ trx[s] # NoTrx
  BY TypeParts DEF Delete, TableType
<1>2. /\ rid \in StoredRids
      /\ tab' = DeletedAt(tab, rid) /\ disk' = Purged(disk, tab, DeletedAt(tab, rid))
      /\ Finished(s, ops, rec, last)
  BY DEF Delete
<1>3. GoodTable(DeletedAt(tab, rid))
  BY <1>1, <1>2, StoredIs, DeletedAtGood
<1>4. TableType'
  BY <1>1, <1>2, <1>3, PurgedGood DEF TableType
<1>5. trx[s].id \in Nat /\ trx[s].ops \in Operations /\ trx[s].id <= trx_id /\ trx_id \in Nat
  BY <1>1, SessionTrx DEF SessionType
<1>6. ops \in Operations
  BY <1>5 DEF Operations, Change
<1>7. last \in Nat /\ id \in Nat /\ id <= last /\ trx_id <= last
  BY <1>5
<1> HIDE DEF last, id
<1>8. "DELETE" \in Change /\ NoData \in Data \cup {NoData}
  BY DEF Change
<1>9. rec \in LogRecords /\ rec.type \in Change /\ rec.trx = id
  BY <1>7, <1>8, LogRecordType
<1> HIDE DEF rec, ops
<1>10. LogType' /\ SessionType'
  BY <1>1, <1>2, <1>6, <1>7, <1>9, FinishedType
<1> QED BY <1>4, <1>10 DEF TypeInv, TableType, LogType, SessionType

LEMMA BeginType ==
  ASSUME TypeInv, NEW s \in Sessions, Begin(s)
  PROVE  TypeInv'
<1> DEFINE x == TrxOf(trx[s].id, TRUE, trx[s].ops)
           rec == MtrRecord("BEGIN", trx[s].id)
<1>1. TableType /\ LogType /\ SessionType /\ trx[s] # NoTrx
  BY TypeParts DEF Begin
<1>2. TableType'
  BY <1>1 DEF Begin, TableType
<1>3. trx[s].id \in Nat /\ trx[s].ops \in Operations /\ trx[s].id <= trx_id /\ trx_id \in Nat
  BY <1>1, SessionTrx DEF SessionType
<1>4. LogType'
  <2>1. rec \in LogRecords
    BY <1>3, MtrRecordType
  <2>2. <<rec>> \in Seq(LogRecords) /\ Len(<<rec>>) > 0
    BY <2>1
  <2>3. Logged(<<rec>>)
    BY DEF Begin
  <2> HIDE DEF rec
  <2> QED BY <1>1, <2>2, <2>3, LoggedIs
<1>5. x \in TrxType /\ x.id = trx[s].id
  <2>1. TRUE \in BOOLEAN
    OBVIOUS
  <2> QED BY <1>3, <2>1, TrxMade, ZenonT(40)
<1>6. trx' = [trx EXCEPT ![s] = x] /\ trx_id' = trx_id
  BY DEF Begin
<1> HIDE DEF x
<1>7. trx_id' \in Nat /\ trx_id <= trx_id' /\ x.id <= trx_id'
  BY <1>3, <1>5, <1>6
<1>8. /\ trx' \in [Sessions -> TrxType \cup {NoTrx}]
      /\ \A q \in Sessions : trx'[q] = NoTrx \/ trx'[q].id <= trx_id'
  BY <1>1, <1>5, <1>6, <1>7, SetTrx
<1>9. SessionType'
  BY <1>1, <1>7, <1>8 DEF Begin, SessionType
<1> QED BY <1>2, <1>4, <1>9 DEF TypeInv, TableType, LogType, SessionType

LEMMA CommitType ==
  ASSUME TypeInv, NEW s \in Sessions, Commit(s)
  PROVE  TypeInv'
<1> DEFINE x == TrxOf(trx_id + 1, FALSE, trx[s].ops)
           rec == MtrRecord("COMMIT", trx[s].id)
<1>1. TableType /\ LogType /\ SessionType /\ trx[s] # NoTrx
  BY TypeParts DEF Commit
<1>2. TableType'
  BY <1>1 DEF Commit, TableType
<1>3. trx[s].id \in Nat /\ trx[s].ops \in Operations /\ trx[s].id <= trx_id /\ trx_id \in Nat
  BY <1>1, SessionTrx DEF SessionType
<1>4. LogType'
  <2>1. rec \in LogRecords
    BY <1>3, MtrRecordType
  <2>2. <<rec>> \in Seq(LogRecords) /\ Len(<<rec>>) > 0
    BY <2>1
  <2>3. Logged(<<rec>>)
    BY DEF Commit
  <2> HIDE DEF rec
  <2> QED BY <1>1, <2>2, <2>3, LoggedIs
<1>5. x \in TrxType /\ x.id = trx_id + 1
  BY <1>3, NextTrx
<1>6. trx' = [trx EXCEPT ![s] = x] /\ trx_id' = trx_id + 1
  BY DEF Commit
<1> HIDE DEF x
<1>7. trx_id' \in Nat /\ trx_id <= trx_id' /\ x.id <= trx_id'
  BY <1>3, <1>5, <1>6
<1>8. /\ trx' \in [Sessions -> TrxType \cup {NoTrx}]
      /\ \A q \in Sessions : trx'[q] = NoTrx \/ trx'[q].id <= trx_id'
  BY <1>1, <1>5, <1>6, <1>7, SetTrx
<1>9. pend' \in [Sessions -> Changes] /\ committed' \in [RID -> Data \cup {NoData}]
  <2>1. pend[s] \in Changes /\ committed \in [RID -> Data \cup {NoData}]
    BY <1>1 DEF SessionType
  <2>2. pend' = [pend EXCEPT ![s] = NoChange] /\ committed' = Changed(committed, pend[s])
    BY DEF Commit, Promised
  <2> QED BY <1>1, <2>1, <2>2, NoChangeType, SetPend, ChangedType
<1>10. SessionType'
  BY <1>1, <1>7, <1>8, <1>9 DEF Commit, SessionType
<1> QED BY <1>2, <1>4, <1>10 DEF TypeInv, TableType, LogType, SessionType

LEMMA RolledBackType ==
  ASSUME TypeInv, NEW s \in Sessions, RolledBack(s), log' = log, synced' \in {synced, Len(log)}
  PROVE  TypeInv'
<1> DEFINE rids == Held(Inserted(s))
<1>1. TableType /\ LogType /\ SessionType /\ GoodTable(tab)
  BY TypeParts DEF TableType
<1>2. rids \in SUBSET RID /\ \A rid \in rids : rid[2] \in tab.page[rid[1]].slots
  BY DEF Held, Inserted
<1>3. tab' = DeletedAll(tab, rids) /\ disk' = Purged(disk, tab, tab')
  BY DEF RolledBack
<1> HIDE DEF rids
<1>4. TableType'
  <2>1. GoodTable(tab')
    BY <1>1, <1>2, <1>3, DeletedAllGood
  <2> QED BY <1>1, <1>3, <2>1, PurgedGood DEF TableType
<1>5. LogType'
  <2>1. Len(log) \in Nat
    BY <1>1, LenProperties DEF LogType
  <2> QED BY <1>1, <2>1 DEF LogType
<1>6. NewTrx(0) \in TrxType /\ NewTrx(0).id = 0
  BY NewTrxType
<1>7. trx' = [trx EXCEPT ![s] = NewTrx(0)] /\ trx_id' = trx_id
  BY DEF RolledBack
<1>8. trx_id' \in Nat /\ trx_id <= trx_id' /\ NewTrx(0).id <= trx_id'
  BY <1>1, <1>6, <1>7 DEF SessionType
<1>9. /\ trx' \in [Sessions -> TrxType \cup {NoTrx}]
      /\ \A q \in Sessions : trx'[q] = NoTrx \/ trx'[q].id <= trx_id'
  BY <1>1, <1>6, <1>7, <1>8, SetTrx
<1>10. pend' \in [Sessions -> Changes]
  <2>1. pend' = [pend EXCEPT ![s] = NoChange]
    BY DEF RolledBack
  <2> QED BY <1>1, <2>1, NoChangeType, SetPend
<1>11. SessionType'
  BY <1>1, <1>8, <1>9, <1>10 DEF RolledBack, SessionType
<1> QED BY <1>4, <1>5, <1>11 DEF TypeInv, TableType, LogType, SessionType

LEMMA EvictPageType ==
  ASSUME TypeInv, NEW p \in PageNum, EvictPage(p)
  PROVE  TypeInv'
<1>1. TableType /\ LogType /\ SessionType /\ GoodTable(tab)
  BY TypeParts DEF TableType
<1>2. LogType' /\ SessionType' /\ tab' = tab
  BY <1>1 DEF EvictPage, LogType, SessionType
<1>3. disk' = [disk EXCEPT ![p] = tab.page[p]] /\ tab.page[p] \in RecordPages /\ Counted(tab.page[p])
  BY <1>1, TableFields DEF EvictPage
<1>4. GoodDisk(disk')
  BY <1>1, <1>3 DEF TableType, GoodDisk
<1>5. TableType'
  BY <1>1, <1>2, <1>4 DEF TableType
<1> QED BY <1>2, <1>5 DEF TypeInv, TableType, LogType, SessionType

LEMMA RestartType ==
  ASSUME TypeInv, Restart
  PROVE  TypeInv'
<1> DEFINE a == Recovered(SyncedLog)
<1>1. TableType /\ LogType /\ SessionType
  BY TypeParts
<1>2. SyncedLog \in Seq(LogRecords) /\ Len(SyncedLog) = synced
  BY <1>1, SyncedLogType DEF LogType
<1>3. GoodState(a)
  BY <1>2, RecoveredGood
<1>4. /\ tab' = a.t /\ log' = SyncedLog /\ synced' = synced /\ committed' = committed
      /\ disk' = a.disk
      /\ trx_id' = IF a.ok THEN a.max ELSE 0
      /\ trx' = [s \in Sessions |-> NoTrx] /\ pend' = [s \in Sessions |-> NoChange]
      /\ restarts' = restarts + 1
  BY DEF Restart
<1> HIDE DEF a
<1>6. TableType'
  BY <1>3, <1>4 DEF TableType, GoodState
<1>7. LogType'
  <2>1. synced \in Nat
    BY <1>1, LenProperties DEF LogType
  <2> QED BY <1>2, <1>4, <2>1 DEF LogType
<1>8. SessionType'
  <2>1. trx_id' \in Nat
    BY <1>3, <1>4 DEF GoodState
  <2> QED BY <1>1, <1>4, <2>1, NoChangeType DEF SessionType
<1> QED BY <1>6, <1>7, <1>8 DEF TypeInv, TableType, LogType, SessionType

LEMMA NextType ==
  ASSUME TypeInv, Next
  PROVE  TypeInv'
<1>1. ASSUME NEW s \in Sessions, Rollback(s) PROVE TypeInv'
  BY <1>1, RolledBackType DEF Rollback
<1>2. ASSUME NEW s \in Sessions, ClogSyncStatement(s) PROVE TypeInv'
  BY <1>2, RolledBackType DEF ClogSyncStatement
<1> QED BY <1>1, <1>2, ConnectType, BeginType, CommitType, InsertType, UpdateType, DeleteType,
           RestartType, EvictPageType DEF Next

(* No step takes back what has happened. *)
Grown == spoilt' \subseteq Reasons /\ spoilt \subseteq spoilt'

LEMMA SpoiltIfGrown ==
  ASSUME spoilt \subseteq Reasons, NEW bad, NEW why \in Reasons, SpoiltIf(bad, why)
  PROVE  Grown
BY DEF SpoiltIf, Grown

LEMMA SpoiltGrows ==
  ASSUME spoilt \subseteq Reasons, [Next]_vars
  PROVE  Grown
<1>1. /\ "rollback" \in Reasons /\ "noid" \in Reasons /\ "stranded" \in Reasons
      /\ "ids" \in Reasons /\ "evicted" \in Reasons
  BY DEF Reasons
<1>2. CASE spoilt' = spoilt
  BY <1>2 DEF Grown
<1>3. ASSUME NEW s \in Sessions, NEW d \in Data, Insert(s, d) PROVE Grown
  <2>1. PICK p \in InsertPages(tab) :
          IF p \in WithRoom(tab) \ tab.hdr.bitmap THEN SpoiltIf(TRUE, "stranded")
          ELSE SpoiltIf(trx[s].ops[RidFor(tab, p)] \in {"NONE", "DELETE"} /\ trx[s].id = 0, "noid")
    BY <1>3 DEF Insert
  <2> QED BY <1>1, <2>1, SpoiltIfGrown
<1>4. ASSUME NEW s \in Sessions, NEW rid \in RID, NEW d \in Data, Update(s, rid, d) PROVE Grown
  BY <1>1, <1>4, SpoiltIfGrown DEF Update
<1>5. ASSUME NEW s \in Sessions, NEW rid \in RID, Delete(s, rid) PROVE Grown
  BY <1>1, <1>5, SpoiltIfGrown DEF Delete
<1>6. ASSUME NEW s \in Sessions, RolledBack(s) PROVE Grown
  BY <1>1, <1>6, SpoiltIfGrown DEF RolledBack
<1>7. CASE Restart
  <2>1. \/ SpoiltIf(TRUE, "evicted")
        \/ SpoiltIf(\E r \in Range(SyncedLog) : r.trx > trx_id', "ids")
    BY <1>7 DEF Restart
  <2> QED BY <1>1, <2>1, SpoiltIfGrown
<1>8. CASE UNCHANGED vars
  BY <1>2, <1>8 DEF vars
<1>9. ASSUME NEW s \in Sessions, Connect(s) \/ Begin(s) \/ Commit(s) PROVE Grown
  BY <1>2, <1>9 DEF Connect, Begin, Commit
<1>10. ASSUME NEW p \in PageNum, EvictPage(p) PROVE Grown
  BY <1>2, <1>10 DEF EvictPage
<1>11. ASSUME NEW s \in Sessions, Rollback(s) \/ ClogSyncStatement(s) PROVE Grown
  BY <1>6, <1>11 DEF Rollback, ClogSyncStatement
<1> QED BY <1>3, <1>4, <1>5, <1>7, <1>8, <1>9, <1>10, <1>11 DEF Next

LEMMA TypeStutters == TypeInv /\ UNCHANGED vars => TypeInv'
BY DEF TypeInv, vars

LEMMA TypeInvImplies == TypeInv /\ spoilt \subseteq Reasons => TypeOK
<1> SUFFICES ASSUME TypeInv, spoilt \subseteq Reasons PROVE TypeOK
  OBVIOUS
<1>1. SessionType
  BY TypeParts
<1>2. \A s \in Sessions : trx[s] = NoTrx \/ trx[s].id \in 0 .. trx_id
  BY <1>1, SessionTrx DEF SessionType
<1> QED BY <1>2, TableFields DEF TypeInv, TypeOK, GoodDisk

(* TypeOK: the table file, what is on disk of it, the log and the          *)
(* transaction ids keep their types, and no session has an id the counter  *)
(* has not given out, whatever clients send, whenever the server restarts  *)
(* and whichever pages the buffer pool evicts.                             *)
THEOREM RecoveryTypeCorrect == Spec => []TypeOK
<1> DEFINE I == TypeInv /\ spoilt \subseteq Reasons
<1>1. Init => I
  BY InitType DEF Init
<1>2. I /\ [Next]_vars => I'
  BY NextType, TypeStutters, SpoiltGrows DEF Grown
<1>3. I => TypeOK
  BY TypeInvImplies
<1> QED BY <1>1, <1>2, <1>3, PTL DEF Spec

-----------------------------------------------------------------------------
(* Sound tables: what one session leaves behind until one of Reasons.      *)

(* Nothing is left in a slot that is not in use. *)
TightPage(pg) == SoundPage(pg) /\ \A k \in Slot \ pg.slots : pg.data[k] = NoData

(* The pages of the file are those with records; one that was disposed of  *)
(* is in free, where an INSERT finds it before it would allocate another.  *)
SoundTable(t) ==
  /\ GoodTable(t)
  /\ \A p \in PageNum : TightPage(t.page[p])
  /\ t.hdr.page_count \in 1 .. MaxPageNum
  /\ t.hdr.bitmap \subseteq 0 .. t.hdr.page_count - 1
  /\ \A p \in PageNum : t.page[p].slots # {} <=> p \in t.hdr.bitmap \ {HeaderPage}
  /\ \A p \in 1 .. t.hdr.page_count - 1 : p \in t.hdr.bitmap \/ p \in t.free

(* The table t, which redo made, is like the table u of the server: pages  *)
(* that were only ever used by transactions that did not commit are        *)
(* counted by u and not by t.                                              *)
Matches(t, u) ==
  /\ t.page = u.page /\ t.hdr.bitmap = u.hdr.bitmap
  /\ t.hdr.page_count <= u.hdr.page_count

EmptyTable == [hdr |-> NewHeader, page |-> [p \in PageNum |-> ClearedPage], free |-> {}]

LEMMA PageEqual ==
  ASSUME NEW pg \in RecordPages, NEW qg \in RecordPages, pg.record_num = qg.record_num,
         pg.slots = qg.slots, \A k \in Slot : pg.data[k] = qg.data[k]
  PROVE  pg = qg
<1>1. pg.data \in [Slot -> Data \cup {NoData}] /\ qg.data \in [Slot -> Data \cup {NoData}]
  BY DEF RecordPages
<1>2. pg.data = qg.data
  BY <1>1
<1> QED BY <1>2 DEF RecordPages

LEMMA EmptyPageIs ==
  ASSUME NEW pg, TightPage(pg), pg.slots = {}
  PROVE  pg = ClearedPage
<1>1. pg \in RecordPages /\ pg.record_num = 0 /\ \A k \in Slot : pg.data[k] = NoData
  BY FS_EmptySet DEF TightPage, SoundPage
<1>2. /\ ClearedPage \in RecordPages /\ ClearedPage.record_num = 0 /\ ClearedPage.slots = {}
      /\ \A k \in Slot : ClearedPage.data[k] = NoData
  BY DEF ClearedPage, RecordPages
<1>3. /\ pg.record_num = ClearedPage.record_num /\ pg.slots = ClearedPage.slots
      /\ \A k \in Slot : pg.data[k] = ClearedPage.data[k]
  BY <1>1, <1>2
<1> QED BY <1>1, <1>2, <1>3, PageEqual

LEMMA ClearedTight == TightPage(ClearedPage)
BY ClearedSound DEF TightPage, ClearedPage

LEMMA SoundFields ==
  ASSUME NEW t, SoundTable(t)
  PROVE  /\ GoodTable(t) /\ t.hdr \in FileHeader /\ t.page \in [PageNum -> RecordPages]
         /\ \A p \in PageNum : TightPage(t.page[p]) /\ SoundPage(t.page[p])
         /\ t.hdr.page_count \in 1 .. MaxPageNum /\ t.hdr.page_count \in Nat
         /\ t.hdr.bitmap \subseteq 0 .. t.hdr.page_count - 1 /\ t.hdr.bitmap \subseteq PageNum
         /\ HeaderPage \in t.hdr.bitmap
         /\ \A p \in PageNum : t.page[p].slots # {} <=> p \in t.hdr.bitmap \ {HeaderPage}
         /\ \A p \in 1 .. t.hdr.page_count - 1 : p \in t.hdr.bitmap \/ p \in t.free
<1>1. t.hdr \in FileHeader
  BY TableFields DEF SoundTable
<1>2. t.hdr.bitmap \subseteq PageNum /\ HeaderPage \in t.hdr.bitmap /\ t.hdr.page_count \in Nat
  BY <1>1 DEF FileHeader
<1> QED BY <1>1, <1>2, TableFields DEF SoundTable, TightPage

LEMMA TightOf ==
  ASSUME NEW pg, TightPage(pg)
  PROVE  /\ pg \in RecordPages /\ pg.slots \in SUBSET Slot
         /\ pg.data \in [Slot -> Data \cup {NoData}]
         /\ \A k \in Slot : pg.data[k] # NoData <=> k \in pg.slots
BY NoDataAssumption DEF TightPage, SoundPage, RecordPages

(* A row is what the slot has. *)
LEMMA RowIs ==
  ASSUME NEW t, SoundTable(t), NEW rid \in RID
  PROVE  /\ Row(t, rid) = t.page[rid[1]].data[rid[2]]
         /\ Row(t, rid) # NoData <=> rid[2] \in t.page[rid[1]].slots
         /\ Row(t, rid) # NoData => rid[1] \in t.hdr.bitmap /\ rid[1] < t.hdr.page_count
<1>1. rid[1] \in PageNum \ {HeaderPage} /\ rid[2] \in Slot
  BY RidParts
<1>2. TightPage(t.page[rid[1]])
  BY <1>1, SoundFields
<1>3. t.page[rid[1]].data[rid[2]] # NoData <=> rid[2] \in t.page[rid[1]].slots
  BY <1>1, <1>2, TightOf
<1>4. rid[2] \in t.page[rid[1]].slots => rid[1] \in t.hdr.bitmap /\ rid[1] < t.hdr.page_count
  <2>1. rid[2] \in t.page[rid[1]].slots => rid[1] \in t.hdr.bitmap
    BY <1>1, SoundFields
  <2> QED BY <2>1, SoundFields
<1>5. rid[2] \in t.page[rid[1]].slots => rid[1] \in IteratedPages(t.hdr)
  BY <1>1, <1>4 DEF IteratedPages
<1> QED BY <1>3, <1>4, <1>5 DEF Row

LEMMA RowsAt ==
  ASSUME NEW t, NEW rid \in RID
  PROVE  Rows(t)[rid] = Row(t, rid)
BY DEF Rows

LEMMA RowsEqual ==
  ASSUME NEW t, NEW c \in [RID -> Data \cup {NoData}], \A rid \in RID : Row(t, rid) = c[rid]
  PROVE  Rows(t) = c
BY DEF Rows

(* The rows of a sound table say what its pages are. *)
LEMMA SoundDetermined ==
  ASSUME NEW t, SoundTable(t), NEW u, SoundTable(u), Rows(t) = Rows(u)
  PROVE  t.page = u.page /\ t.hdr.bitmap = u.hdr.bitmap
<1>1. ASSUME NEW p \in PageNum PROVE t.page[p] = u.page[p]
  <2>1. TightPage(t.page[p]) /\ TightPage(u.page[p])
    BY SoundFields
  <2>2. CASE p = HeaderPage
    <3>1. t.page[p].slots = {} /\ u.page[p].slots = {}
      BY <2>2, SoundFields
    <3> QED BY <2>1, <3>1, EmptyPageIs
  <2>3. CASE p # HeaderPage
    <3>1. \A k \in Slot : t.page[p].data[k] = u.page[p].data[k]
      <4> SUFFICES ASSUME NEW k \in Slot PROVE t.page[p].data[k] = u.page[p].data[k]
        OBVIOUS
      <4> DEFINE rid == <<p, k>>
      <4>1. rid \in RID /\ rid[1] = p /\ rid[2] = k
        BY <2>3 DEF RID
      <4>2. Row(t, rid) = Row(u, rid)
        BY <4>1, RowsAt
      <4> HIDE DEF rid
      <4> QED BY <4>1, <4>2, RowIs
    <3>2. t.page[p].slots = u.page[p].slots
      <4>1. /\ t.page[p].slots \in SUBSET Slot
            /\ \A k \in Slot : t.page[p].data[k] # NoData <=> k \in t.page[p].slots
        BY <2>1, TightOf
      <4>2. /\ u.page[p].slots \in SUBSET Slot
            /\ \A k \in Slot : u.page[p].data[k] # NoData <=> k \in u.page[p].slots
        BY <2>1, TightOf
      <4> QED BY <3>1, <4>1, <4>2
    <3>3. t.page[p].record_num = u.page[p].record_num
      BY <2>1, <3>2 DEF TightPage, SoundPage
    <3>4. t.page[p] \in RecordPages /\ u.page[p] \in RecordPages
      BY <2>1, TightOf
    <3> QED BY <3>1, <3>2, <3>3, <3>4, PageEqual
  <2> QED BY <2>2, <2>3
<1>2. t.page = u.page
  BY <1>1, SoundFields
<1>3. t.hdr.bitmap = u.hdr.bitmap
  <2>1. \A p \in PageNum \ {HeaderPage} : p \in t.hdr.bitmap <=> p \in u.hdr.bitmap
    BY <1>1, SoundFields
  <2>2. /\ t.hdr.bitmap \subseteq PageNum /\ u.hdr.bitmap \subseteq PageNum
        /\ HeaderPage \in t.hdr.bitmap /\ HeaderPage \in u.hdr.bitmap
    BY SoundFields
  <2> QED BY <2>1, <2>2
<1> QED BY <1>2, <1>3

LEMMA SamePagesRows ==
  ASSUME NEW t, SoundTable(t), NEW u, SoundTable(u), t.page = u.page
  PROVE  Rows(t) = Rows(u) /\ \A rid \in RID : Row(t, rid) = Row(u, rid)
<1>1. \A rid \in RID : Row(t, rid) = Row(u, rid)
  BY RowIs
<1> QED BY <1>1 DEF Rows

LEMMA SoundOfSame ==
  ASSUME NEW t, SoundTable(t), NEW u, GoodTable(u), u.page = t.page, u.hdr = t.hdr,
         t.free \subseteq u.free
  PROVE  SoundTable(u)
BY DEF SoundTable

LEMMA EmptyTableSound ==
  SoundTable(EmptyTable) /\ Rows(EmptyTable) = [rid \in RID |-> NoData]
<1> DEFINE pages == [p \in PageNum |-> ClearedPage]
<1>1. /\ EmptyTable.hdr = NewHeader /\ EmptyTable.page = pages /\ EmptyTable.free = {}
      /\ EmptyTable = [hdr |-> NewHeader, page |-> pages, free |-> {}]
  BY DEF EmptyTable
<1>2. Counted(ClearedPage) /\ ClearedPage \in RecordPages /\ ClearedPage.slots = {}
  BY ClearedCounted, ClearedSound DEF Counted
<1>3. GoodTable(EmptyTable)
  <2>1. NewHeader \in FileHeader
    BY NewHeaderExact
  <2>2. pages \in [PageNum -> RecordPages] /\ \A p \in PageNum : Counted(pages[p])
    BY <1>2
  <2>3. {} \in SUBSET (PageNum \ {HeaderPage})
    OBVIOUS
  <2> QED BY <1>1, <2>1, <2>2, <2>3, TableMade
<1>4. /\ NewHeader.page_count = 1 /\ NewHeader.allocated_pages = 1
      /\ NewHeader.bitmap = {HeaderPage} /\ {HeaderPage} = 0 .. 1 - 1
  BY DEF NewHeader, HeaderPage
<1>5. SoundTable(EmptyTable)
  <2>1. 1 \in 1 .. MaxPageNum
    BY MaxPageNumAssumption
  <2>2. \A p \in PageNum : EmptyTable.page[p] = ClearedPage
    BY <1>1
  <2>3. 1 .. 1 - 1 = {}
    OBVIOUS
  <2> QED BY <1>1, <1>2, <1>3, <1>4, <2>1, <2>2, <2>3, ClearedTight DEF SoundTable
<1>6. \A rid \in RID : Row(EmptyTable, rid) = NoData
  BY <1>1, <1>2, RidParts DEF Row
<1> QED BY <1>5, <1>6 DEF Rows

-----------------------------------------------------------------------------
(* What a change does to a sound table, made by a statement or redone. *)

(* u is t with page p replaced and the header h. *)
Replaced(t, u, p, pg, h) ==
  GoodTable(u) /\ u.hdr = h /\ u.page = [t.page EXCEPT ![p] = pg]

(* The rows of t with one changed. *)
OneRow(t, u, rid, d) ==
  /\ Row(u, rid) = d
  /\ \A r \in RID \ {rid} : Row(u, r) = Row(t, r)

LEMMA ReplacedSound ==
  ASSUME NEW t, SoundTable(t), NEW p \in PageNum \ {HeaderPage}, NEW pg, TightPage(pg),
         NEW h, NEW u, Replaced(t, u, p, pg, h), t.free \subseteq u.free,
         \/ h = t.hdr /\ p \in t.hdr.bitmap /\ pg.slots # {}
         \/ h = ExtendFile(t.hdr) /\ p = t.hdr.page_count /\ pg.slots # {}
         \/ h = ReleasePage(t.hdr, p) /\ p \in t.hdr.bitmap /\ pg.slots = {} /\ p \in u.free
  PROVE  SoundTable(u) /\ t.hdr.page_count <= u.hdr.page_count /\ p < u.hdr.page_count
<1> DEFINE n == t.hdr.page_count
<1>1. /\ n \in 1 .. MaxPageNum /\ n \in Nat /\ t.hdr.bitmap \subseteq 0 .. n - 1
      /\ \A q \in PageNum : TightPage(t.page[q])
      /\ \A q \in PageNum : t.page[q].slots # {} <=> q \in t.hdr.bitmap \ {HeaderPage}
      /\ \A q \in 1 .. n - 1 : q \in t.hdr.bitmap \/ q \in t.free
      /\ t.page \in [PageNum -> RecordPages]
  BY SoundFields
<1>2. GoodTable(u) /\ u.hdr = h /\ u.page[p] = pg /\ \A q \in PageNum \ {p} : u.page[q] = t.page[q]
  BY <1>1 DEF Replaced
<1>3. \A q \in PageNum : TightPage(u.page[q])
  BY <1>1, <1>2
<1>4. CASE h = t.hdr /\ p \in t.hdr.bitmap /\ pg.slots # {}
  <2>1. \A q \in PageNum : u.page[q].slots # {} <=> q \in u.hdr.bitmap \ {HeaderPage}
    BY <1>1, <1>2, <1>4
  <2>2. \A q \in 1 .. n - 1 : q \in u.hdr.bitmap \/ q \in u.free
    BY <1>1, <1>2, <1>4
  <2>3. p < n /\ n <= n
    BY <1>1, <1>4
  <2> HIDE DEF n
  <2> QED BY <1>1, <1>2, <1>3, <1>4, <2>1, <2>2, <2>3 DEF SoundTable, n
<1>5. CASE h = ExtendFile(t.hdr) /\ p = n /\ pg.slots # {}
  <2>1. h.page_count = n + 1 /\ h.bitmap = t.hdr.bitmap \cup {n}
    BY <1>5 DEF ExtendFile
  <2>2. n + 1 \in 1 .. MaxPageNum /\ t.hdr.bitmap \cup {n} \subseteq 0 .. n + 1 - 1
    BY <1>1, <1>5, MaxPageNumAssumption DEF PageNum
  <2>3. \A q \in PageNum : u.page[q].slots # {} <=> q \in u.hdr.bitmap \ {HeaderPage}
    <3>1. \A q \in PageNum \ {p} : q \in h.bitmap <=> q \in t.hdr.bitmap
      BY <1>5, <2>1
    <3>2. p \in h.bitmap
      BY <1>5, <2>1
    <3> QED BY <1>1, <1>2, <1>5, <3>1, <3>2
  <2>4. \A q \in 1 .. n + 1 - 1 : q \in u.hdr.bitmap \/ q \in u.free
    <3>1. \A q \in 1 .. n + 1 - 1 : q \in 1 .. n - 1 \/ q = n
      BY <1>1
    <3> QED BY <1>1, <1>2, <2>1, <3>1
  <2>5. p < n + 1 /\ n <= n + 1
    BY <1>1, <1>5
  <2> HIDE DEF n
  <2> QED BY <1>2, <1>3, <2>1, <2>2, <2>3, <2>4, <2>5 DEF SoundTable, n
<1>6. CASE h = ReleasePage(t.hdr, p) /\ p \in t.hdr.bitmap /\ pg.slots = {} /\ p \in u.free
  <2>1. h.page_count = n /\ h.bitmap = t.hdr.bitmap \ {p}
    BY <1>6 DEF ReleasePage
  <2>2. \A q \in PageNum : u.page[q].slots # {} <=> q \in u.hdr.bitmap \ {HeaderPage}
    <3>1. \A q \in PageNum \ {p} : q \in h.bitmap <=> q \in t.hdr.bitmap
      BY <2>1
    <3>2. p \notin h.bitmap
      BY <2>1
    <3> QED BY <1>1, <1>2, <1>6, <3>1, <3>2
  <2>3. \A q \in 1 .. n - 1 : q \in u.hdr.bitmap \/ q \in u.free
    BY <1>1, <1>2, <1>6, <2>1
  <2>4. p < n /\ n <= n
    BY <1>1, <1>6
  <2>5. h.bitmap \subseteq 0 .. n - 1
    BY <1>1, <2>1
  <2> HIDE DEF n
  <2> QED BY <1>1, <1>2, <1>3, <2>1, <2>2, <2>3, <2>4, <2>5 DEF SoundTable, n
<1> QED BY <1>4, <1>5, <1>6

LEMMA ReplacedRow ==
  ASSUME NEW t, SoundTable(t), NEW rid \in RID, NEW pg, NEW h, NEW u, SoundTable(u),
         Replaced(t, u, rid[1], pg, h), \A k \in Slot \ {rid[2]} : pg.data[k] = t.page[rid[1]].data[k]
  PROVE  OneRow(t, u, rid, pg.data[rid[2]])
<1> DEFINE p == rid[1]
<1>1. p \in PageNum \ {HeaderPage} /\ rid[2] \in Slot /\ rid = <<p, rid[2]>>
  BY RidParts
<1>2. u.page[p] = pg /\ \A q \in PageNum \ {p} : u.page[q] = t.page[q]
  BY <1>1, SoundFields DEF Replaced
<1>3. Row(u, rid) = pg.data[rid[2]]
  BY <1>2, RowIs
<1>4. ASSUME NEW r \in RID \ {rid} PROVE Row(u, r) = Row(t, r)
  <2>1. r[1] \in PageNum /\ r[2] \in Slot /\ r = <<r[1], r[2]>>
    BY RidParts
  <2>2. Row(u, r) = u.page[r[1]].data[r[2]] /\ Row(t, r) = t.page[r[1]].data[r[2]]
    BY RowIs
  <2>3. CASE r[1] = p
    <3>1. r[2] # rid[2]
      BY <1>1, <2>1, <2>3
    <3> QED BY <1>2, <2>1, <2>2, <2>3, <3>1
  <2>4. CASE r[1] # p
    BY <1>2, <2>1, <2>2, <2>4
  <2> QED BY <2>3, <2>4
<1> QED BY <1>3, <1>4 DEF OneRow

LEMMA PutTight ==
  ASSUME NEW pg, TightPage(pg), NEW k \in Slot \ pg.slots, NEW d \in Data
  PROVE  /\ TightPage(PutRecord(pg, k, d)) /\ PutRecord(pg, k, d).slots = pg.slots \cup {k}
         /\ PutRecord(pg, k, d).data[k] = d
         /\ \A j \in Slot \ {k} : PutRecord(pg, k, d).data[j] = pg.data[j]
BY PutSound DEF TightPage

LEMMA UpdateTight ==
  ASSUME NEW pg, TightPage(pg), NEW k \in pg.slots, NEW d \in Data
  PROVE  /\ TightPage(UpdateAt(pg, k, d)) /\ UpdateAt(pg, k, d).slots = pg.slots
         /\ UpdateAt(pg, k, d).data[k] = d
         /\ \A j \in Slot \ {k} : UpdateAt(pg, k, d).data[j] = pg.data[j]
BY UpdateSound DEF TightPage

LEMMA DeleteTight ==
  ASSUME NEW pg, TightPage(pg), NEW k \in pg.slots
  PROVE  /\ TightPage(DeleteAt(pg, k)) /\ DeleteAt(pg, k).slots = pg.slots \ {k}
         /\ DeleteAt(pg, k).data[k] = NoData
         /\ \A j \in Slot \ {k} : DeleteAt(pg, k).data[j] = pg.data[j]
         /\ DeleteAt(pg, k).record_num = 0 <=> DeleteAt(pg, k).slots = {}
<1>1. k \in Slot /\ pg.data \in [Slot -> Data \cup {NoData}]
  BY TightOf
<1>2. DeleteAt(pg, k).data[k] = NoData
  BY <1>1 DEF DeleteAt
<1>3. TightPage(DeleteAt(pg, k)) /\ (DeleteAt(pg, k).record_num = 0 => DeleteAt(pg, k).slots = {})
  BY <1>2, DeleteSound DEF TightPage
<1>4. DeleteAt(pg, k).slots = {} => DeleteAt(pg, k).record_num = 0
  BY <1>3, FS_EmptySet DEF TightPage, SoundPage
<1> QED BY <1>2, <1>3, <1>4, DeleteSound DEF TightPage

(* A sound table allocates a page only when none was disposed of, and then *)
(* the page after the last one.                                            *)
LEMMA InsertedPage ==
  ASSUME NEW t, SoundTable(t), CanInsert(t), NEW p \in InsertPages(t),
         p \notin WithRoom(t) \ t.hdr.bitmap
  PROVE  \/ p \in WithRoom(t) /\ p \in t.hdr.bitmap
         \/ /\ p \notin WithRoom(t) /\ p = t.hdr.page_count /\ ~ HasFreePage(t.hdr)
            /\ p \in PageNum \ {HeaderPage} /\ p \notin t.hdr.bitmap
            /\ t.page[p] = ClearedPage /\ t.hdr.bitmap = 0 .. t.hdr.page_count - 1
<1> DEFINE n == t.hdr.page_count
<1>1. SUFFICES ASSUME p \notin WithRoom(t)
               PROVE  /\ p = n /\ ~ HasFreePage(t.hdr) /\ p \in PageNum \ {HeaderPage}
                      /\ p \notin t.hdr.bitmap /\ t.page[p] = ClearedPage /\ t.hdr.bitmap = 0 .. n - 1
  OBVIOUS
<1>2. /\ GoodTable(t) /\ n \in 1 .. MaxPageNum /\ n \in Nat /\ t.hdr.bitmap \subseteq 0 .. n - 1
      /\ t.hdr \in FileHeader /\ HeaderPage \in t.hdr.bitmap
      /\ \A q \in 1 .. n - 1 : q \in t.hdr.bitmap \/ q \in t.free
      /\ \A q \in PageNum : TightPage(t.page[q])
      /\ \A q \in PageNum : t.page[q].slots # {} <=> q \in t.hdr.bitmap \ {HeaderPage}
  BY SoundFields
<1>3. WithRoom(t) = {}
  BY <1>1 DEF InsertPages
<1>4. ASSUME NEW q \in PageNum, q \notin t.hdr.bitmap PROVE t.page[q] = ClearedPage
  BY <1>2, <1>4, EmptyPageIs
<1>5. ASSUME NEW q \in 0 .. n - 1 PROVE q \in t.hdr.bitmap
  <2> SUFFICES ASSUME q \notin t.hdr.bitmap PROVE FALSE
    OBVIOUS
  <2>1. q \in 1 .. n - 1 /\ q \in PageNum
    BY <1>2, MaxPageNumAssumption DEF HeaderPage, PageNum
  <2>2. q \in t.free /\ t.page[q] = ClearedPage
    BY <1>2, <1>4, <2>1
  <2>3. ~ IsFull(ClearedPage)
    BY ClearedSound
  <2> QED BY <1>3, <2>2, <2>3 DEF WithRoom
<1>6. ~ HasFreePage(t.hdr)
  <2>1. ClearBits(t.hdr) = {}
    <3> SUFFICES ASSUME NEW q \in PageNum, q < n, q \notin t.hdr.bitmap PROVE FALSE
      BY DEF ClearBits
    <3>1. q \in 0 .. n - 1
      BY <1>2 DEF PageNum
    <3> QED BY <1>5, <3>1
  <2> QED BY <2>1 DEF HasFreePage
<1>7. p = n /\ ~ FileIsFull(t.hdr)
  BY <1>3, <1>6 DEF InsertPages, CanInsert
<1>8. p \in PageNum \ {HeaderPage} /\ p \notin t.hdr.bitmap
  BY <1>2, <1>7, MaxPageNumAssumption DEF FileIsFull, PageNum, HeaderPage
<1>9. t.page[p] = ClearedPage
  BY <1>4, <1>8
<1>10. t.hdr.bitmap = 0 .. n - 1
  BY <1>2, <1>5
<1> QED BY <1>6, <1>7, <1>8, <1>9, <1>10

(* The record is put where redo puts it again: in a page of the file, or   *)
(* in the page after the last one, which redo adds to the header.          *)
LEMMA PutEffect ==
  ASSUME NEW t, SoundTable(t), NEW rid \in RID, rid[2] \notin t.page[rid[1]].slots,
         rid[1] \in t.hdr.bitmap \/ rid[1] = t.hdr.page_count, NEW d \in Data, NEW u,
         Replaced(t, u, rid[1], PutRecord(t.page[rid[1]], rid[2], d), RecoverPageBit(t.hdr, rid[1])),
         t.free \subseteq u.free
  PROVE  /\ SoundTable(u) /\ OneRow(t, u, rid, d)
         /\ t.hdr.page_count <= u.hdr.page_count /\ rid[1] < u.hdr.page_count
<1> DEFINE p == rid[1]
           k == rid[2]
           pg == PutRecord(t.page[p], k, d)
           h == RecoverPageBit(t.hdr, p)
<1>1. p \in PageNum \ {HeaderPage} /\ k \in Slot \ t.page[p].slots /\ TightPage(t.page[p])
  BY RidParts, SoundFields
<1>2. /\ TightPage(pg) /\ pg.slots # {} /\ pg.data[k] = d
      /\ \A j \in Slot \ {k} : pg.data[j] = t.page[p].data[j]
  BY <1>1, PutTight
<1>3. \/ h = t.hdr /\ p \in t.hdr.bitmap
      \/ h = ExtendFile(t.hdr) /\ p = t.hdr.page_count
  BY DEF RecoverPageBit, ExtendFile
<1> HIDE DEF pg, h
<1>4. Replaced(t, u, p, pg, h)
  BY DEF pg, h
<1>5. SoundTable(u) /\ t.hdr.page_count <= u.hdr.page_count /\ p < u.hdr.page_count
  BY <1>1, <1>2, <1>3, <1>4, ReplacedSound
<1>6. OneRow(t, u, rid, d)
  BY <1>2, <1>4, <1>5, ReplacedRow
<1> QED BY <1>5, <1>6

LEMMA InsertEffect ==
  ASSUME NEW t, SoundTable(t), CanInsert(t), NEW p \in InsertPages(t), NEW d \in Data,
         p \notin WithRoom(t) \ t.hdr.bitmap
  PROVE  LET rid == RidFor(t, p)
             u == InsertedAt(t, rid, d)
             pg == PutRecord(t.page[p], rid[2], d)
         IN  /\ rid \in RID /\ rid[1] = p /\ p \in PageNum \ {HeaderPage}
             /\ rid[2] \in Slot \ t.page[p].slots /\ ~ IsFull(t.page[p])
             /\ Replaced(t, u, p, pg, RecoverPageBit(t.hdr, p)) /\ t.free \subseteq u.free
             /\ \/ p \in t.hdr.bitmap
                \/ p = t.hdr.page_count /\ t.hdr.bitmap = 0 .. t.hdr.page_count - 1
             /\ SoundTable(u) /\ OneRow(t, u, rid, d)
             /\ t.hdr.page_count <= u.hdr.page_count /\ p < u.hdr.page_count
<1> DEFINE rid == RidFor(t, p)
           v == TableFor(t, p)
           k == rid[2]
           pg == PutRecord(t.page[p], k, d)
           u == InsertedAt(t, rid, d)
<1>1. GoodTable(t) /\ t.page \in [PageNum -> RecordPages] /\ t.hdr \in FileHeader
  BY SoundFields
<1>2. /\ rid \in RID /\ rid[1] = p /\ k \in Slot \ v.page[p].slots /\ GoodTable(u)
      /\ p \in PageNum \ {HeaderPage} /\ ~ IsFull(v.page[p])
  BY <1>1, InsertedAtGood, TableForGood
<1>3. u = WithPage(v, p, PutRecord(v.page[p], k, d))
  BY <1>2 DEF InsertedAt
<1>4. /\ v.page = t.page /\ v.hdr = RecoverPageBit(t.hdr, p) /\ t.free \subseteq v.free
      /\ \/ p \in t.hdr.bitmap
         \/ p = t.hdr.page_count /\ t.hdr.bitmap = 0 .. t.hdr.page_count - 1
  <2>1. CASE p \in WithRoom(t)
    <3>1. v = t /\ p \in t.hdr.bitmap
      BY <2>1 DEF TableFor
    <3> QED BY <3>1 DEF RecoverPageBit
  <2>2. CASE p \notin WithRoom(t)
    <3>1. /\ p = t.hdr.page_count /\ ~ HasFreePage(t.hdr) /\ p \notin t.hdr.bitmap
          /\ t.page[p] = ClearedPage /\ t.hdr.bitmap = 0 .. t.hdr.page_count - 1
      BY <2>2, InsertedPage
    <3>2. RecoverPageBit(t.hdr, p) = ExtendFile(t.hdr)
      BY <3>1 DEF RecoverPageBit, ExtendFile
    <3>3. v = [hdr |-> ExtendFile(t.hdr), page |-> [t.page EXCEPT ![p] = InitEmptyPage(t.page[p])],
               free |-> t.free \cup {p}]
      BY <2>2, <3>1 DEF TableFor
    <3>4. [t.page EXCEPT ![p] = InitEmptyPage(t.page[p])] = t.page
      BY <1>1, <1>2, <3>1 DEF InitEmptyPage
    <3> QED BY <3>1, <3>2, <3>3, <3>4
  <2> QED BY <2>1, <2>2
<1>5. k \in Slot \ t.page[p].slots /\ ~ IsFull(t.page[p])
  BY <1>2, <1>4
<1>6. u.hdr = v.hdr /\ u.page = [v.page EXCEPT ![p] = pg] /\ u.free = v.free
  BY <1>3, <1>4 DEF WithPage
<1> HIDE DEF u, v, pg, k, rid
<1>7. Replaced(t, u, p, pg, RecoverPageBit(t.hdr, p)) /\ t.free \subseteq u.free
  BY <1>2, <1>4, <1>6 DEF Replaced
<1>8. /\ SoundTable(u) /\ OneRow(t, u, rid, d)
      /\ t.hdr.page_count <= u.hdr.page_count /\ p < u.hdr.page_count
  BY <1>2, <1>4, <1>5, <1>7, PutEffect DEF pg, k
<1> QED BY <1>2, <1>4, <1>5, <1>7, <1>8 DEF u, pg, k, rid

(* Redo of r makes, of every table that is like t, one that is like u. *)
Follows(t, u, r) ==
  /\ t.hdr.page_count \in Nat /\ u.hdr.page_count \in Nat
  /\ t.hdr.page_count <= u.hdr.page_count
  /\ \A v : SoundTable(v) /\ Matches(v, t) =>
              ~ RedoFails(v, r) /\ SoundTable(Redo(v, r)) /\ Matches(Redo(v, r), u)

LEMMA InsertFollows ==
  ASSUME NEW t, SoundTable(t), CanInsert(t), NEW p \in InsertPages(t), NEW d \in Data,
         p \notin WithRoom(t) \ t.hdr.bitmap,
         NEW r \in LogRecords, r.type = "INSERT", r.rid = RidFor(t, p), r.data = d
  PROVE  Follows(t, InsertedAt(t, RidFor(t, p), d), r)
<1> DEFINE k == r.rid[2]
           u == InsertedAt(t, RidFor(t, p), d)
           pg == PutRecord(t.page[p], k, d)
<1>1. /\ r.rid \in RID /\ r.rid[1] = p /\ p \in PageNum \ {HeaderPage} /\ k \in Slot \ t.page[p].slots
      /\ ~ IsFull(t.page[p]) /\ Replaced(t, u, p, pg, RecoverPageBit(t.hdr, p))
      /\ \/ p \in t.hdr.bitmap
         \/ p = t.hdr.page_count /\ t.hdr.bitmap = 0 .. t.hdr.page_count - 1
      /\ SoundTable(u) /\ t.hdr.page_count <= u.hdr.page_count
  BY InsertEffect
<1>2. u.hdr = RecoverPageBit(t.hdr, p) /\ u.page = [t.page EXCEPT ![p] = pg]
  BY <1>1 DEF Replaced
<1>3. t.hdr.page_count \in Nat /\ u.hdr.page_count \in Nat /\ t.page \in [PageNum -> RecordPages]
  BY <1>1, SoundFields
<1>4. ASSUME NEW v, SoundTable(v), Matches(v, t)
      PROVE  ~ RedoFails(v, r) /\ SoundTable(Redo(v, r)) /\ Matches(Redo(v, r), u)
  <2>1. /\ v.page = t.page /\ v.hdr.bitmap = t.hdr.bitmap /\ v.hdr.page_count <= t.hdr.page_count
        /\ GoodTable(v) /\ v.hdr.page_count \in Nat /\ v.hdr.bitmap \subseteq 0 .. v.hdr.page_count - 1
    BY <1>4, SoundFields DEF Matches
  <2>2. ~ RedoFails(v, r)
    <3>1. t.page[p].record_num \in Int
      BY <1>1, <1>3 DEF RecordPages
    <3> QED BY <1>1, <2>1, <3>1, CapacityAssumption DEF RedoFails, RecoverInsertFails, IsFull
  <2>3. Redo(v, r) = WithPage(RecoverPage(v, p), p, pg)
    BY <1>1, <2>1, <2>2 DEF Redo
  <2> DEFINE w == Redo(v, r)
  <2>4. /\ w.hdr = RecoverPageBit(v.hdr, p) /\ w.page = [t.page EXCEPT ![p] = pg]
        /\ w.free = v.free
    BY <2>1, <2>3 DEF WithPage, RecoverPage
  <2>5. GoodTable(w)
    <3>1. r.type \in Change
      BY DEF Change
    <3> QED BY <2>1, <3>1, RedoGood
  <2> HIDE DEF w
  <2>6. p \notin t.hdr.bitmap => p = t.hdr.page_count /\ v.hdr.page_count = t.hdr.page_count
    <3>1. SUFFICES ASSUME p \notin t.hdr.bitmap PROVE ~ (v.hdr.page_count < t.hdr.page_count)
      BY <1>1, <1>3, <2>1
    <3>2. SUFFICES ASSUME v.hdr.page_count < t.hdr.page_count PROVE FALSE
      OBVIOUS
    <3>3. v.hdr.page_count \in 0 .. t.hdr.page_count - 1
      BY <1>3, <2>1, <3>2
    <3>4. v.hdr.page_count \in t.hdr.bitmap
      BY <1>1, <3>1, <3>3
    <3>5. v.hdr.page_count \in 0 .. v.hdr.page_count - 1
      BY <2>1, <3>4
    <3> QED BY <2>1, <3>5
  <2>7. SoundTable(w)
    <3>1. Replaced(v, w, p, PutRecord(v.page[p], k, d), RecoverPageBit(v.hdr, p))
      BY <2>1, <2>4, <2>5 DEF Replaced
    <3>2. p \in v.hdr.bitmap \/ p = v.hdr.page_count
      BY <2>1, <2>6
    <3>3. k \notin v.page[p].slots /\ v.free \subseteq w.free
      BY <1>1, <2>1, <2>4
    <3> HIDE DEF k
    <3> QED BY <1>1, <1>4, <3>1, <3>2, <3>3, PutEffect DEF k
  <2>8. w.hdr.bitmap = u.hdr.bitmap /\ w.hdr.page_count <= u.hdr.page_count
    <3>1. CASE p \in t.hdr.bitmap
      BY <1>2, <2>1, <2>4, <3>1 DEF RecoverPageBit
    <3>2. CASE p \notin t.hdr.bitmap
      BY <1>2, <1>3, <2>1, <2>4, <2>6, <3>2 DEF RecoverPageBit
    <3> QED BY <3>1, <3>2
  <2>9. Matches(w, u)
    BY <1>2, <2>4, <2>8 DEF Matches
  <2> QED BY <2>2, <2>7, <2>9 DEF w
<1> HIDE DEF u
<1>5. Follows(t, u, r)
  BY <1>1, <1>3, <1>4 DEF Follows
<1> QED BY <1>5 DEF u

(* An insert that the Trx refuses is taken back, and the page is kept. *)
LEMMA RefusedInsertEffect ==
  ASSUME NEW t, SoundTable(t), CanInsert(t), NEW p \in InsertPages(t), NEW d \in Data,
         p \in t.hdr.bitmap
  PROVE  LET rid == RidFor(t, p)
             u == DeletedAt(InsertedAt(t, rid, d), rid)
         IN  SoundTable(u) /\ u.page = t.page /\ u.hdr = t.hdr
<1> DEFINE rid == RidFor(t, p)
           k == rid[2]
           v == InsertedAt(t, rid, d)
           u == DeletedAt(v, rid)
           pg == PutRecord(t.page[p], k, d)
           back == DeleteAt(pg, k)
<1>1. /\ rid \in RID /\ rid[1] = p /\ p \in PageNum \ {HeaderPage}
      /\ k \in Slot \ t.page[p].slots /\ t.free \subseteq v.free
      /\ Replaced(t, v, p, pg, RecoverPageBit(t.hdr, p)) /\ SoundTable(v)
  BY InsertEffect
<1>2. /\ t.hdr \in FileHeader /\ t.page \in [PageNum -> RecordPages] /\ TightPage(t.page[p])
      /\ t.page[p].slots # {}
  BY <1>1, SoundFields
<1>3. v.hdr = t.hdr /\ v.page = [t.page EXCEPT ![p] = pg] /\ v.page[p] = pg
  BY <1>1, <1>2 DEF Replaced, RecoverPageBit
<1>4. TightPage(pg) /\ pg.slots = t.page[p].slots \cup {k} /\ k \in pg.slots
  BY <1>1, <1>2, PutTight
<1>5. back = t.page[p]
  <2>1. /\ t.page[p].record_num \in Int /\ t.page[p].slots \in SUBSET Slot
        /\ t.page[p].data \in [Slot -> Data \cup {NoData}] /\ t.page[p].data[k] = NoData
    BY <1>1, <1>2, TightOf DEF RecordPages
  <2>2. back.record_num = t.page[p].record_num /\ back.slots = t.page[p].slots
    BY <1>1, <2>1 DEF DeleteAt, PutRecord
  <2>3. \A j \in Slot : back.data[j] = t.page[p].data[j]
    BY <1>1, <2>1 DEF DeleteAt, PutRecord
  <2>4. back \in RecordPages
    BY <1>4, DeleteTight, TightOf
  <2> HIDE DEF back
  <2> QED BY <1>1, <1>2, <2>2, <2>3, <2>4, PageEqual
<1>6. t.page[p].record_num # 0
  BY <1>2, <1>4, <1>5, DeleteTight
<1>7. /\ u.hdr = IF back.record_num = 0 THEN ReleasePage(v.hdr, p) ELSE v.hdr
      /\ u.page = [v.page EXCEPT ![p] = back] /\ u.free = v.free \cup {p}
  BY <1>1, <1>3 DEF DeletedAt
<1>8. [v.page EXCEPT ![p] = t.page[p]] = t.page
  BY <1>1, <1>2, <1>3
<1>9. u.page = t.page /\ u.hdr = t.hdr /\ t.free \subseteq u.free
  BY <1>1, <1>3, <1>5, <1>6, <1>7, <1>8
<1>10. GoodTable(u)
  BY <1>1, <1>3, <1>4, SoundFields, DeletedAtGood
<1> HIDE DEF u
<1> QED BY <1>9, <1>10, SoundOfSame DEF u

LEMMA UpdateEffect ==
  ASSUME NEW t, SoundTable(t), NEW rid \in RID, Row(t, rid) # NoData, NEW d \in Data,
         NEW r \in LogRecords, r.type = "UPDATE", r.rid = rid, r.data = d
  PROVE  LET u == UpdatedAt(t, rid, d) IN
         SoundTable(u) /\ OneRow(t, u, rid, d) /\ u.hdr = t.hdr /\ Follows(t, u, r)
<1> DEFINE p == rid[1]
           k == rid[2]
           pg == UpdateAt(t.page[p], k, d)
<1>1. p \in PageNum \ {HeaderPage} /\ k \in t.page[p].slots /\ p \in t.hdr.bitmap
  BY RidParts, RowIs
<1>2. /\ TightPage(pg) /\ pg.slots # {} /\ pg.data[k] = d
      /\ \A j \in Slot \ {k} : pg.data[j] = t.page[p].data[j]
  BY <1>1, SoundFields, UpdateTight
<1>3. ASSUME NEW v, SoundTable(v), v.page = t.page, v.hdr.bitmap = t.hdr.bitmap
      PROVE  LET u == UpdatedAt(v, rid, d) IN
             /\ SoundTable(u) /\ OneRow(v, u, rid, d)
             /\ u.hdr = v.hdr /\ u.page = [t.page EXCEPT ![p] = pg]
  <2> DEFINE u == UpdatedAt(v, rid, d)
  <2>1. u.hdr = v.hdr /\ u.page = [t.page EXCEPT ![p] = pg] /\ u.free = v.free
    BY <1>3 DEF UpdatedAt, WithPage
  <2>2. GoodTable(u)
    BY <1>3, SoundFields, UpdatedAtGood
  <2> HIDE DEF u, pg
  <2>3. Replaced(v, u, p, pg, v.hdr)
    BY <1>3, <2>1, <2>2 DEF Replaced
  <2>4. SoundTable(u)
    BY <1>1, <1>2, <1>3, <2>1, <2>3, ReplacedSound
  <2>5. \A j \in Slot \ {rid[2]} : pg.data[j] = v.page[rid[1]].data[j]
    BY <1>2, <1>3
  <2>6. OneRow(v, u, rid, pg.data[rid[2]])
    BY <1>3, <2>3, <2>4, <2>5, ReplacedRow
  <2>7. OneRow(v, u, rid, d)
    BY <1>2, <2>6
  <2> QED BY <2>1, <2>4, <2>7 DEF u
<1> DEFINE u == UpdatedAt(t, rid, d)
<1>4. /\ SoundTable(u) /\ OneRow(t, u, rid, d) /\ u.hdr = t.hdr
      /\ u.page = [t.page EXCEPT ![p] = pg]
  BY <1>3
<1> HIDE DEF u, pg
<1>5. ASSUME NEW v, SoundTable(v), Matches(v, t)
      PROVE  ~ RedoFails(v, r) /\ SoundTable(Redo(v, r)) /\ Matches(Redo(v, r), u)
  <2>1. v.page = t.page /\ v.hdr.bitmap = t.hdr.bitmap /\ v.hdr.page_count <= t.hdr.page_count
    BY <1>5 DEF Matches
  <2>2. ~ RedoFails(v, r)
    BY <1>1, <2>1 DEF RedoFails
  <2>3. RecoverPage(v, p) = v
    <3>1. v \in Table
      BY <1>5, SoundFields DEF GoodTable
    <3>2. RecoverPageBit(v.hdr, p) = v.hdr
      BY <1>1, <2>1 DEF RecoverPageBit
    <3> QED BY <3>1, <3>2 DEF RecoverPage, Table
  <2>4. Redo(v, r) = UpdatedAt(v, rid, d)
    BY <2>2, <2>3 DEF Redo
  <2>5. /\ SoundTable(Redo(v, r)) /\ Redo(v, r).hdr = v.hdr
        /\ Redo(v, r).page = [t.page EXCEPT ![p] = pg]
    BY <1>3, <1>5, <2>1, <2>4
  <2> QED BY <1>4, <2>1, <2>2, <2>5 DEF Matches
<1>6. Follows(t, u, r)
  <2>1. t.hdr.page_count \in Nat
    BY SoundFields
  <2> QED BY <1>4, <1>5, <2>1 DEF Follows
<1> QED BY <1>4, <1>6 DEF u

LEMMA DeleteEffect ==
  ASSUME NEW t, SoundTable(t), NEW rid \in RID, Row(t, rid) # NoData,
         NEW r \in LogRecords, r.type = "DELETE", r.rid = rid
  PROVE  LET u == DeletedAt(t, rid) IN
         /\ SoundTable(u) /\ OneRow(t, u, rid, NoData) /\ Follows(t, u, r)
         /\ u.hdr.page_count = t.hdr.page_count
<1> DEFINE p == rid[1]
           k == rid[2]
           pg == DeleteAt(t.page[p], k)
           H(v) == IF pg.record_num = 0 THEN ReleasePage(v.hdr, p) ELSE v.hdr
<1>1. p \in PageNum \ {HeaderPage} /\ k \in t.page[p].slots /\ p \in t.hdr.bitmap
  BY RidParts, RowIs
<1>2. /\ TightPage(pg) /\ pg.data[k] = NoData /\ (pg.record_num = 0 <=> pg.slots = {})
      /\ \A j \in Slot \ {k} : pg.data[j] = t.page[p].data[j]
  BY <1>1, SoundFields, DeleteTight
<1>3. ASSUME NEW v, SoundTable(v), v.page = t.page, v.hdr.bitmap = t.hdr.bitmap
      PROVE  LET u == DeletedAt(v, rid) IN
             /\ SoundTable(u) /\ OneRow(v, u, rid, NoData) /\ u.hdr = H(v)
             /\ u.page = [t.page EXCEPT ![p] = pg]
  <2> DEFINE u == DeletedAt(v, rid)
  <2>1. u.hdr = H(v) /\ u.page = [t.page EXCEPT ![p] = pg] /\ u.free = v.free \cup {p}
    BY <1>3 DEF DeletedAt
  <2>2. GoodTable(u)
    BY <1>1, <1>3, SoundFields, DeletedAtGood
  <2> HIDE DEF u, pg
  <2>3. Replaced(v, u, p, pg, H(v))
    BY <1>3, <2>1, <2>2 DEF Replaced
  <2>4. SoundTable(u)
    <3>1. v.free \subseteq u.free /\ p \in u.free /\ p \in v.hdr.bitmap
      BY <1>1, <1>3, <2>1
    <3>2. \/ H(v) = v.hdr /\ pg.slots # {}
          \/ H(v) = ReleasePage(v.hdr, p) /\ pg.slots = {}
      BY <1>2
    <3> HIDE DEF H
    <3> QED BY <1>1, <1>2, <1>3, <2>3, <3>1, <3>2, ReplacedSound
  <2>5. OneRow(v, u, rid, NoData)
    BY <1>2, <1>3, <2>3, <2>4, ReplacedRow
  <2> QED BY <2>1, <2>4, <2>5 DEF u
<1> DEFINE u == DeletedAt(t, rid)
<1>4. /\ SoundTable(u) /\ OneRow(t, u, rid, NoData) /\ u.hdr = H(t)
      /\ u.page = [t.page EXCEPT ![p] = pg]
  BY <1>3
<1> HIDE DEF u, pg
<1>5. u.hdr.page_count = t.hdr.page_count
  BY <1>4 DEF ReleasePage
<1>6. ASSUME NEW v, SoundTable(v), Matches(v, t)
      PROVE  ~ RedoFails(v, r) /\ SoundTable(Redo(v, r)) /\ Matches(Redo(v, r), u)
  <2>1. v.page = t.page /\ v.hdr.bitmap = t.hdr.bitmap /\ v.hdr.page_count <= t.hdr.page_count
    BY <1>6 DEF Matches
  <2>2. ~ RedoFails(v, r)
    BY <1>1, <2>1 DEF RedoFails
  <2>3. Redo(v, r) = DeletedAt(v, rid)
    BY <2>2 DEF Redo
  <2>4. /\ SoundTable(Redo(v, r)) /\ Redo(v, r).hdr = H(v)
        /\ Redo(v, r).page = [t.page EXCEPT ![p] = pg]
    BY <1>3, <1>6, <2>1, <2>3
  <2>5. Redo(v, r).hdr.bitmap = u.hdr.bitmap /\ Redo(v, r).hdr.page_count = v.hdr.page_count
    BY <1>4, <2>1, <2>4 DEF ReleasePage
  <2> QED BY <1>4, <1>5, <2>1, <2>2, <2>4, <2>5 DEF Matches
<1>7. Follows(t, u, r)
  <2>1. t.hdr.page_count \in Nat
    BY SoundFields
  <2> QED BY <1>5, <1>6, <2>1 DEF Follows
<1> QED BY <1>4, <1>5, <1>7 DEF u

LEMMA WithoutTight ==
  ASSUME NEW pg, TightPage(pg), NEW gone \in SUBSET pg.slots
  PROVE  /\ TightPage(Without(pg, gone)) /\ Without(pg, gone).slots = pg.slots \ gone
         /\ \A k \in Slot : Without(pg, gone).data[k] = IF k \in gone THEN NoData ELSE pg.data[k]
         /\ pg.record_num = Cardinality(gone) <=> pg.slots = gone
<1>1. /\ pg \in RecordPages /\ pg.slots \in SUBSET Slot /\ pg.record_num = Cardinality(pg.slots)
      /\ \A k \in pg.slots : pg.data[k] \in Data
      /\ \A k \in Slot \ pg.slots : pg.data[k] = NoData
  BY TightOf DEF TightPage, SoundPage
<1>2. IsFiniteSet(pg.slots) /\ Cardinality(pg.slots) \in Nat /\ IsFiniteSet(pg.slots \ gone)
  <2>1. pg.slots \ gone \in SUBSET Slot
    BY <1>1
  <2> QED BY <1>1, <2>1, SlotsFinite
<1>3. Counted(pg)
  BY <1>1, <1>2 DEF Counted
<1>4. /\ Counted(Without(pg, gone)) /\ Cardinality(gone) \in Nat
      /\ Cardinality(pg.slots \ gone) = Cardinality(pg.slots) - Cardinality(gone)
  BY <1>3, WithoutCounted
<1>5. /\ Without(pg, gone).slots = pg.slots \ gone
      /\ Without(pg, gone).record_num = Cardinality(pg.slots \ gone)
      /\ \A k \in Slot : Without(pg, gone).data[k] = IF k \in gone THEN NoData ELSE pg.data[k]
  BY <1>1, <1>4 DEF Without
<1>6. SoundPage(Without(pg, gone))
  <2>1. \A k \in pg.slots \ gone : Without(pg, gone).data[k] \in Data
    BY <1>1, <1>5
  <2> QED BY <1>4, <1>5, <2>1 DEF SoundPage, Counted
<1>7. TightPage(Without(pg, gone))
  BY <1>1, <1>5, <1>6 DEF TightPage
<1>8. pg.record_num = Cardinality(gone) <=> pg.slots = gone
  <2>1. ASSUME pg.record_num = Cardinality(gone) PROVE pg.slots \ gone = {}
    <3>1. Cardinality(pg.slots \ gone) = 0
      BY <1>1, <1>2, <1>4, <2>1
    <3> QED BY <1>2, <3>1, FS_EmptySet
  <2> QED BY <1>1, <2>1
<1> QED BY <1>5, <1>7, <1>8

(* ROLLBACK takes out rows, and the pages that have no other. *)
LEMMA RollbackEffect ==
  ASSUME NEW t, SoundTable(t), NEW rids \in SUBSET RID, \A rid \in rids : Row(t, rid) # NoData
  PROVE  LET u == DeletedAll(t, rids) IN
         /\ SoundTable(u) /\ u.hdr.page_count = t.hdr.page_count
         /\ \A rid \in RID : Row(u, rid) = IF rid \in rids THEN NoData ELSE Row(t, rid)
<1> DEFINE u == DeletedAll(t, rids)
           named == {rid[1] : rid \in rids}
           emptied == {p \in named : t.page[p].record_num = Cardinality(Gone(rids, p))}
<1>1. \A rid \in rids : rid[2] \in t.page[rid[1]].slots /\ rid[1] \in t.hdr.bitmap
  BY RowIs
<1>2. /\ GoodTable(t) /\ t.hdr \in FileHeader /\ t.hdr.page_count \in 1 .. MaxPageNum
      /\ t.hdr.bitmap \subseteq 0 .. t.hdr.page_count - 1
      /\ \A p \in PageNum : TightPage(t.page[p])
      /\ \A p \in PageNum : t.page[p].slots # {} <=> p \in t.hdr.bitmap \ {HeaderPage}
      /\ \A p \in 1 .. t.hdr.page_count - 1 : p \in t.hdr.bitmap \/ p \in t.free
  BY SoundFields
<1>3. /\ GoodTable(u) /\ u.free = t.free \cup named
      /\ \A p \in PageNum : /\ Gone(rids, p) \subseteq t.page[p].slots
                            /\ u.page[p] = Without(t.page[p], Gone(rids, p))
      /\ u.hdr = [page_count |-> t.hdr.page_count,
                  allocated_pages |-> t.hdr.allocated_pages - Cardinality(emptied),
                  bitmap |-> t.hdr.bitmap \ emptied]
  BY <1>1, <1>2, DeletedAllGood
<1> HIDE DEF u
<1>4. \A p \in PageNum :
        /\ TightPage(u.page[p]) /\ u.page[p].slots = t.page[p].slots \ Gone(rids, p)
        /\ \A k \in Slot : u.page[p].data[k] = IF k \in Gone(rids, p) THEN NoData ELSE t.page[p].data[k]
        /\ t.page[p].record_num = Cardinality(Gone(rids, p)) <=> t.page[p].slots = Gone(rids, p)
  BY <1>2, <1>3, WithoutTight
<1>5. u.hdr.page_count = t.hdr.page_count /\ u.hdr.bitmap = t.hdr.bitmap \ emptied
  BY <1>3
<1>6. ASSUME NEW p \in PageNum
      PROVE  u.page[p].slots # {} <=> p \in u.hdr.bitmap \ {HeaderPage}
  <2>1. CASE p \notin t.hdr.bitmap \ {HeaderPage}
    BY <1>2, <1>4, <1>5, <2>1
  <2>2. CASE p \in t.hdr.bitmap \ {HeaderPage} /\ t.page[p].slots = Gone(rids, p)
    <3>1. PICK k \in Gone(rids, p) : TRUE
      BY <1>2, <2>2
    <3>2. <<p, k>> \in rids /\ <<p, k>>[1] = p
      BY DEF Gone
    <3>3. p \in emptied
      BY <1>4, <2>2, <3>2
    <3> QED BY <1>4, <1>5, <2>2, <3>3
  <2>3. CASE p \in t.hdr.bitmap \ {HeaderPage} /\ t.page[p].slots # Gone(rids, p)
    <3>1. p \notin emptied
      BY <1>4, <2>3
    <3>2. u.page[p].slots # {}
      BY <1>3, <1>4, <2>3
    <3> HIDE DEF emptied
    <3> QED BY <1>5, <2>3, <3>1, <3>2
  <2> QED BY <2>1, <2>2, <2>3
<1>7. \A p \in 1 .. u.hdr.page_count - 1 : p \in u.hdr.bitmap \/ p \in u.free
  <2>1. emptied \subseteq u.free /\ t.free \subseteq u.free
    BY <1>3
  <2> HIDE DEF emptied
  <2> QED BY <1>2, <1>5, <2>1
<1>8. SoundTable(u)
  <2>1. u.hdr.bitmap \subseteq 0 .. u.hdr.page_count - 1
    BY <1>2, <1>5
  <2> QED BY <1>2, <1>3, <1>4, <1>5, <1>6, <1>7, <2>1 DEF SoundTable
<1>9. ASSUME NEW rid \in RID
      PROVE  Row(u, rid) = IF rid \in rids THEN NoData ELSE Row(t, rid)
  <2>1. rid = <<rid[1], rid[2]>> /\ rid[1] \in PageNum /\ rid[2] \in Slot
    BY RidParts
  <2>2. rid[2] \in Gone(rids, rid[1]) <=> rid \in rids
    BY <2>1 DEF Gone
  <2>3. Row(u, rid) = u.page[rid[1]].data[rid[2]] /\ Row(t, rid) = t.page[rid[1]].data[rid[2]]
    BY <1>8, RowIs
  <2> QED BY <1>4, <2>1, <2>2, <2>3
<1> QED BY <1>5, <1>8, <1>9 DEF u

-----------------------------------------------------------------------------
(* Replays of the log.  The redo of the changes of the transactions C in   *)
(* the first n records makes the table t and never fails.                  *)
Applies(C, r) == r.type \in Change /\ r.trx \in C

Replays(recs, n, C, t) ==
  \E f : /\ f[0] = EmptyTable
         /\ \A i \in 1 .. n : IF Applies(C, recs[i])
                              THEN ~ RedoFails(f[i - 1], recs[i]) /\ f[i] = Redo(f[i - 1], recs[i])
                              ELSE f[i] = f[i - 1]
         /\ f[n] = t

LEMMA ReplaysNone ==
  ASSUME NEW recs, NEW C
  PROVE  Replays(recs, 0, C, EmptyTable)
<1> DEFINE f == [i \in 0 .. 0 |-> EmptyTable]
<1>1. f[0] = EmptyTable /\ 1 .. 0 = {}
  OBVIOUS
<1> QED BY <1>1 DEF Replays

(* The same records, with the same transactions as far as they matter. *)
LEMMA ReplaysAgree ==
  ASSUME NEW recs, NEW n \in Nat, NEW C, NEW t, Replays(recs, n, C, t), NEW new, NEW D,
         \A i \in 1 .. n : new[i] = recs[i] /\ (Applies(D, recs[i]) <=> Applies(C, recs[i]))
  PROVE  Replays(new, n, D, t)
BY DEF Replays

(* Records of other transactions are passed over. *)
LEMMA ReplaysSkip ==
  ASSUME NEW recs, NEW n \in Nat, NEW C, NEW t, Replays(recs, n, C, t), NEW m \in Nat, n <= m,
         \A i \in n + 1 .. m : ~ Applies(C, recs[i])
  PROVE  Replays(recs, m, C, t)
<1>1. PICK f : /\ f[0] = EmptyTable
               /\ \A i \in 1 .. n : IF Applies(C, recs[i])
                                    THEN ~ RedoFails(f[i - 1], recs[i]) /\ f[i] = Redo(f[i - 1], recs[i])
                                    ELSE f[i] = f[i - 1]
               /\ f[n] = t
  BY DEF Replays
<1> DEFINE g == [i \in 0 .. m |-> IF i <= n THEN f[i] ELSE t]
<1>2. g[0] = EmptyTable /\ g[m] = t
  BY <1>1
<1>3. ASSUME NEW i \in 1 .. m
      PROVE  IF Applies(C, recs[i])
             THEN ~ RedoFails(g[i - 1], recs[i]) /\ g[i] = Redo(g[i - 1], recs[i])
             ELSE g[i] = g[i - 1]
  <2>1. CASE i <= n
    <3>1. g[i] = f[i] /\ g[i - 1] = f[i - 1] /\ i \in 1 .. n
      BY <2>1
    <3> HIDE DEF g
    <3> QED BY <1>1, <3>1
  <2>2. CASE i > n
    <3>1. g[i] = t /\ g[i - 1] = t /\ i \in n + 1 .. m
      BY <1>1, <2>2
    <3> HIDE DEF g
    <3> QED BY <3>1
  <2> QED BY <2>1, <2>2
<1> HIDE DEF g
<1> QED BY <1>2, <1>3 DEF Replays

(* One more record is redone. *)
LEMMA ReplaysRedo ==
  ASSUME NEW recs, NEW n \in Nat, NEW C, NEW t, Replays(recs, n, C, t),
         Applies(C, recs[n + 1]), ~ RedoFails(t, recs[n + 1])
  PROVE  Replays(recs, n + 1, C, Redo(t, recs[n + 1]))
<1>1. PICK f : /\ f[0] = EmptyTable
               /\ \A i \in 1 .. n : IF Applies(C, recs[i])
                                    THEN ~ RedoFails(f[i - 1], recs[i]) /\ f[i] = Redo(f[i - 1], recs[i])
                                    ELSE f[i] = f[i - 1]
               /\ f[n] = t
  BY DEF Replays
<1> DEFINE u == Redo(t, recs[n + 1])
           g == [i \in 0 .. n + 1 |-> IF i <= n THEN f[i] ELSE u]
<1>2. g[0] = EmptyTable /\ g[n + 1] = u
  BY <1>1
<1>3. ASSUME NEW i \in 1 .. n + 1
      PROVE  IF Applies(C, recs[i])
             THEN ~ RedoFails(g[i - 1], recs[i]) /\ g[i] = Redo(g[i - 1], recs[i])
             ELSE g[i] = g[i - 1]
  <2>1. CASE i <= n
    <3>1. g[i] = f[i] /\ g[i - 1] = f[i - 1] /\ i \in 1 .. n
      BY <2>1
    <3> HIDE DEF g
    <3> QED BY <1>1, <3>1
  <2>2. CASE i > n
    <3>1. g[i] = u /\ g[i - 1] = t /\ i = n + 1
      BY <1>1, <2>2
    <3> HIDE DEF g
    <3> QED BY <3>1
  <2> QED BY <2>1, <2>2
<1> HIDE DEF g, u
<1> QED BY <1>2, <1>3 DEF Replays, u

(* Recovery is the replay of the committed transactions, if it knows all.  *)
LEMMA RecoveredIs ==
  ASSUME disk = [p \in PageNum |-> ClearedPage], NEW recs \in Seq(LogRecords), NEW t,
         Replays(recs, Len(recs), CommittedTrx(recs), t),
         \A i \in 1 .. Len(recs) : recs[i].type \in Change => recs[i].trx \in KnownTrx(recs)
  PROVE  Recovered(recs).ok /\ Recovered(recs).t = t
<1> DEFINE n == Len(recs)
           C == CommittedTrx(recs)
<1>1. n \in Nat /\ \A i \in 1 .. n : recs[i] \in LogRecords
  BY LenProperties, ElementOfSeq
<1>2. PICK g : /\ g[0] = RecoveryStart
               /\ \A i \in 1 .. n : g[i] = RecoverRecord(recs, g[i - 1], recs[i])
               /\ Recovered(recs) = g[n]
  BY <1>1, RecoveredSteps
<1>3. PICK f : /\ f[0] = EmptyTable
               /\ \A i \in 1 .. n : IF Applies(C, recs[i])
                                    THEN ~ RedoFails(f[i - 1], recs[i]) /\ f[i] = Redo(f[i - 1], recs[i])
                                    ELSE f[i] = f[i - 1]
               /\ f[n] = t
  BY DEF Replays
<1> DEFINE Good(i) == g[i].ok = TRUE /\ g[i].t = f[i]
           T == {i \in Nat : i <= n /\ ~ Good(i)}
<1>4. SUFFICES ASSUME n \in T PROVE FALSE
  <2>1. n \notin T => Good(n)
    BY <1>1
  <2> QED BY <1>2, <1>3, <1>4, <2>1
<1>5. PICK m \in T : \A k \in T : m <= k
  BY <1>4, LowestIs
<1>6. Good(0)
  <2>1. IteratedPages(NewHeader) = {}
    BY DEF IteratedPages, NewHeader
  <2>2. OpenTable = EmptyTable
    BY <2>1 DEF OpenTable, EmptyTable
  <2> QED BY <1>2, <1>3, <2>2 DEF RecoveryStart
<1>7. m \in 1 .. n /\ m - 1 \in Nat /\ m - 1 <= n /\ ~ (m <= m - 1)
  BY <1>1, <1>5, <1>6
<1>8. Good(m - 1)
  BY <1>5, <1>7
<1>9. Good(m)
  <2> DEFINE a == g[m - 1]
             r == recs[m]
  <2>1. r \in LogRecords /\ g[m] = RecoverRecord(recs, a, r) /\ a.ok = TRUE /\ a.t = f[m - 1]
    BY <1>1, <1>2, <1>7, <1>8
  <2>2. r.type \in Change => r.trx \in KnownTrx(recs)
    BY <1>7
  <2>3. IF Applies(C, r) THEN ~ RedoFails(f[m - 1], r) /\ f[m] = Redo(f[m - 1], r)
        ELSE f[m] = f[m - 1]
    BY <1>3, <1>7
  <2> HIDE DEF a, r
  <2>4. CASE r.type \in {"BEGIN", "COMMIT"}
    <3>1. ~ Applies(C, r)
      BY <2>4, ChangeNotMtr DEF Applies
    <3>2. g[m] = a
      BY <2>1, <2>4 DEF RecoverRecord
    <3> QED BY <2>1, <2>3, <3>1, <3>2
  <2>5. CASE r.type \notin {"BEGIN", "COMMIT"} /\ r.trx \notin C
    <3>1. g[m] = a /\ ~ Applies(C, r)
      BY <2>1, <2>2, <2>5, RecordParts DEF RecoverRecord, Skipped, Applies
    <3> QED BY <2>1, <2>3, <3>1
  <2>6. CASE r.type \notin {"BEGIN", "COMMIT"} /\ r.trx \in C
    <3>1. Applies(C, r)
      BY <2>1, <2>6, RecordParts DEF Applies
    <3>2. g[m] = [t |-> Redo(a.t, r), disk |-> Purged(a.disk, a.t, Redo(a.t, r)),
                  ok |-> ~ RedoFails(a.t, r), max |-> Greater(a.max, r.trx)]
      BY <2>1, <2>2, <2>6, RecordParts DEF RecoverRecord, Skipped
    <3>3. ~ RedoFails(a.t, r) /\ f[m] = Redo(a.t, r)
      BY <2>1, <2>3, <3>1
    <3>4. g[m].t = f[m] /\ g[m].ok = (~ RedoFails(a.t, r))
      BY <3>2, <3>3
    <3>5. (~ RedoFails(a.t, r)) = TRUE
      BY <3>3, Zenon
    <3> QED BY <3>4, <3>5
  <2> QED BY <2>4, <2>5, <2>6
<1> QED BY <1>5, <1>9

-----------------------------------------------------------------------------
(* The log L, of which n records are synced, when `last` is the last id    *)
(* given out and c the id of the session (0: it has none).                 *)

LEMMA TrxSets ==
  ASSUME NEW recs \in Seq(LogRecords), NEW id
  PROVE  /\ id \in CommittedTrx(recs) <=>
              \E i \in 1 .. Len(recs) : recs[i].type = "COMMIT" /\ recs[i].trx = id
         /\ id \in KnownTrx(recs) <=>
              \E i \in 1 .. Len(recs) : recs[i].type \in {"BEGIN", "COMMIT"} /\ recs[i].trx = id
<1>1. DOMAIN recs = 1 .. Len(recs)
  BY LenProperties
<1> QED BY <1>1 DEF CommittedTrx, KnownTrx, Range

LEMMA Appended ==
  ASSUME NEW L \in Seq(LogRecords), NEW r \in LogRecords
  PROVE  /\ Append(L, r) \in Seq(LogRecords) /\ Len(Append(L, r)) = Len(L) + 1 /\ Len(L) \in Nat
         /\ \A i \in 1 .. Len(L) : Append(L, r)[i] = L[i]
         /\ Append(L, r)[Len(L) + 1] = r
         /\ r.type # "COMMIT" => CommittedTrx(Append(L, r)) = CommittedTrx(L)
         /\ r.type = "COMMIT" => CommittedTrx(Append(L, r)) = CommittedTrx(L) \cup {r.trx}
         /\ KnownTrx(L) \subseteq KnownTrx(Append(L, r))
         /\ r.type \in {"BEGIN", "COMMIT"} => r.trx \in KnownTrx(Append(L, r))
<1> DEFINE new == Append(L, r)
           n == Len(L)
<1>1. new \in Seq(LogRecords) /\ Len(new) = n + 1 /\ n \in Nat
  BY LenProperties
<1>2. (\A i \in 1 .. n : new[i] = L[i]) /\ new[n + 1] = r
  BY LenProperties
<1> HIDE DEF new
<1>3. \A i \in 1 .. n + 1 : i \in 1 .. n \/ i = n + 1
  BY <1>1
<1>4. \A i \in 1 .. n : i \in 1 .. n + 1
  BY <1>1
<1>5. n + 1 \in 1 .. n + 1
  BY <1>1
<1>6. ASSUME NEW id
      PROVE  id \in CommittedTrx(new) <=> id \in CommittedTrx(L) \/ (r.type = "COMMIT" /\ r.trx = id)
  <2>1. id \in CommittedTrx(new) <=> \E i \in 1 .. n + 1 : new[i].type = "COMMIT" /\ new[i].trx = id
    BY <1>1, TrxSets
  <2>2. id \in CommittedTrx(L) <=> \E i \in 1 .. n : L[i].type = "COMMIT" /\ L[i].trx = id
    BY TrxSets
  <2> HIDE DEF n
  <2> QED BY <1>2, <1>3, <1>4, <1>5, <2>1, <2>2
<1>7. ASSUME NEW id
      PROVE  id \in KnownTrx(new) <=>
               id \in KnownTrx(L) \/ (r.type \in {"BEGIN", "COMMIT"} /\ r.trx = id)
  <2>1. id \in KnownTrx(new) <=>
          \E i \in 1 .. n + 1 : new[i].type \in {"BEGIN", "COMMIT"} /\ new[i].trx = id
    BY <1>1, TrxSets
  <2>2. id \in KnownTrx(L) <=> \E i \in 1 .. n : L[i].type \in {"BEGIN", "COMMIT"} /\ L[i].trx = id
    BY TrxSets
  <2> HIDE DEF n
  <2> QED BY <1>2, <1>3, <1>4, <1>5, <2>1, <2>2
<1> QED BY <1>1, <1>2, <1>6, <1>7 DEF new

(* No change has the id 0.  A COMMIT is synced, and what is not synced is  *)
(* of transactions that have not committed.                                *)
LogOk(L, n, last, c) ==
  /\ L \in Seq(LogRecords) /\ n \in 0 .. Len(L) /\ last \in Nat /\ c \in 0 .. last
  /\ \A i \in 1 .. Len(L) : L[i].trx <= last /\ (L[i].type \in Change => L[i].trx # 0)
  /\ c # 0 => c \notin CommittedTrx(L)
  /\ \A i \in n + 1 .. Len(L) : /\ L[i].type # "COMMIT"
                                /\ L[i].type \in Change => L[i].trx \notin CommittedTrx(L)

(* Redo of the committed transactions in the synced log makes the rows     *)
(* com, in at most k pages; redo of those and of the open one, in all of   *)
(* the log, makes a table like tb.                                         *)
Redone(L, n, com, k) ==
  \E t : /\ SoundTable(t) /\ Rows(t) = com /\ t.hdr.page_count <= k
         /\ Replays(L, n, CommittedTrx(L), t)

Current(L, c, tb) ==
  \E t : SoundTable(t) /\ Matches(t, tb) /\ Replays(L, Len(L), CommittedTrx(L) \cup {c}, t)

LogInv(L, n, last, c, tb, com) ==
  LogOk(L, n, last, c) /\ Redone(L, n, com, tb.hdr.page_count) /\ Current(L, c, tb)

(* The synced part may be taken to be longer, up to all of the log. *)
LEMMA RedoneLonger ==
  ASSUME NEW L, NEW n, NEW last, NEW c, LogOk(L, n, last, c), NEW com, NEW k, Redone(L, n, com, k)
  PROVE  Redone(L, Len(L), com, k)
<1>1. Len(L) \in Nat /\ n \in Nat /\ n <= Len(L)
  BY LenProperties DEF LogOk
<1>2. PICK t : /\ SoundTable(t) /\ Rows(t) = com /\ t.hdr.page_count <= k
               /\ Replays(L, n, CommittedTrx(L), t)
  BY DEF Redone
<1>3. \A i \in n + 1 .. Len(L) : ~ Applies(CommittedTrx(L), L[i])
  BY DEF LogOk, Applies
<1>4. Replays(L, Len(L), CommittedTrx(L), t)
  BY <1>1, <1>2, <1>3, ReplaysSkip
<1> QED BY <1>2, <1>4 DEF Redone

LEMMA RedoneWider ==
  ASSUME NEW L, NEW n, NEW com, NEW k \in Nat, Redone(L, n, com, k), NEW m \in Nat, k <= m
  PROVE  Redone(L, n, com, m)
<1>1. PICK t : /\ SoundTable(t) /\ Rows(t) = com /\ t.hdr.page_count <= k
               /\ Replays(L, n, CommittedTrx(L), t)
  BY DEF Redone
<1>2. t.hdr.page_count <= m
  BY <1>1, SoundFields
<1> QED BY <1>1, <1>2 DEF Redone

(* A record that is not a COMMIT is appended. *)
LEMMA AppendOk ==
  ASSUME NEW L, NEW n, NEW last, NEW c, LogOk(L, n, last, c), NEW com, NEW k, Redone(L, n, com, k),
         NEW r \in LogRecords, r.type # "COMMIT", r.trx = c, r.type \in Change => c # 0,
         NEW m \in {n, Len(L)}
  PROVE  LogOk(Append(L, r), m, last, c) /\ Redone(Append(L, r), m, com, k)
<1> DEFINE new == Append(L, r)
<1>1. /\ L \in Seq(LogRecords) /\ Len(L) \in Nat /\ n \in 0 .. Len(L) /\ last \in Nat /\ c \in 0 .. last
      /\ m \in 0 .. Len(L) /\ n <= m
  BY LenProperties DEF LogOk
<1>2. /\ new \in Seq(LogRecords) /\ Len(new) = Len(L) + 1
      /\ \A i \in 1 .. Len(L) : new[i] = L[i]
      /\ new[Len(L) + 1] = r /\ CommittedTrx(new) = CommittedTrx(L)
  BY <1>1, Appended
<1> HIDE DEF new
<1>3. \A i \in 1 .. Len(new) : i \in 1 .. Len(L) \/ (i = Len(L) + 1 /\ new[i] = r)
  BY <1>1, <1>2
<1>4. \A i \in 1 .. Len(new) : new[i].trx <= last /\ (new[i].type \in Change => new[i].trx # 0)
  <2>1. r.trx <= last /\ (r.type \in Change => r.trx # 0)
    BY <1>1
  <2> QED BY <1>2, <1>3, <2>1 DEF LogOk
<1>5. \A i \in m + 1 .. Len(new) :
        new[i].type # "COMMIT" /\ (new[i].type \in Change => new[i].trx \notin CommittedTrx(new))
  <2> SUFFICES ASSUME NEW i \in m + 1 .. Len(new)
               PROVE  /\ new[i].type # "COMMIT"
                      /\ new[i].type \in Change => new[i].trx \notin CommittedTrx(new)
    OBVIOUS
  <2>1. CASE i = Len(L) + 1
    BY <1>2, <2>1 DEF LogOk
  <2>2. CASE i # Len(L) + 1
    <3>1. i \in n + 1 .. Len(L) /\ i \in 1 .. Len(L)
      BY <1>1, <1>2, <2>2
    <3> QED BY <1>2, <3>1 DEF LogOk
  <2> QED BY <2>1, <2>2
<1>6. LogOk(new, m, last, c)
  <2>1. m \in 0 .. Len(new)
    BY <1>1, <1>2
  <2> QED BY <1>1, <1>2, <1>4, <1>5, <2>1 DEF LogOk
<1>7. Redone(new, m, com, k)
  <2>1. Redone(L, m, com, k)
    BY RedoneLonger
  <2>2. PICK t : /\ SoundTable(t) /\ Rows(t) = com /\ t.hdr.page_count <= k
                 /\ Replays(L, m, CommittedTrx(L), t)
    BY <2>1 DEF Redone
  <2>3. m \in Nat /\ \A i \in 1 .. m : new[i] = L[i]
    BY <1>1, <1>2
  <2>4. Replays(new, m, CommittedTrx(new), t)
    BY <1>2, <2>2, <2>3, ReplaysAgree
  <2> QED BY <2>2, <2>4 DEF Redone
<1> QED BY <1>6, <1>7 DEF new

LEMMA AppendBegin ==
  ASSUME NEW L, NEW n, NEW last, NEW c, NEW tb, NEW com, LogInv(L, n, last, c, tb, com),
         NEW r \in LogRecords, r.type = "BEGIN", r.trx = c, NEW m \in {n, Len(L)}
  PROVE  LogInv(Append(L, r), m, last, c, tb, com)
<1> DEFINE new == Append(L, r)
           C == CommittedTrx(L) \cup {c}
<1>1. /\ LogOk(L, n, last, c) /\ Redone(L, n, com, tb.hdr.page_count) /\ Current(L, c, tb)
      /\ L \in Seq(LogRecords)
  BY DEF LogInv, LogOk
<1>2. r.type # "COMMIT" /\ r.type \notin Change
  BY DEF Change
<1>3. LogOk(new, m, last, c) /\ Redone(new, m, com, tb.hdr.page_count)
  BY <1>1, <1>2, AppendOk
<1>4. /\ Len(new) = Len(L) + 1 /\ Len(L) \in Nat
      /\ \A i \in 1 .. Len(L) : new[i] = L[i]
      /\ new[Len(L) + 1] = r /\ CommittedTrx(new) = CommittedTrx(L)
  BY <1>1, <1>2, Appended
<1> HIDE DEF new
<1>5. PICK t : SoundTable(t) /\ Matches(t, tb) /\ Replays(L, Len(L), C, t)
  BY <1>1 DEF Current
<1>6. Replays(new, Len(L), C, t)
  BY <1>4, <1>5, ReplaysAgree
<1>7. \A i \in Len(L) + 1 .. Len(L) + 1 : ~ Applies(C, new[i])
  BY <1>2, <1>4 DEF Applies
<1>8. Replays(new, Len(new), C, t)
  <2>1. Len(L) + 1 \in Nat /\ Len(L) <= Len(L) + 1
    BY <1>4
  <2> QED BY <1>4, <1>6, <1>7, <2>1, ReplaysSkip
<1>9. Current(new, c, tb)
  BY <1>4, <1>5, <1>8 DEF Current
<1> QED BY <1>3, <1>9 DEF LogInv, new

(* A change of the open transaction, with the table tb2 that it makes. *)
LEMMA AppendChange ==
  ASSUME NEW L, NEW n, NEW last, NEW c, NEW tb, NEW com, LogInv(L, n, last, c, tb, com),
         NEW r \in LogRecords, r.type \in Change, r.trx = c, c # 0, NEW m \in {n, Len(L)},
         NEW tb2, Follows(tb, tb2, r)
  PROVE  LogInv(Append(L, r), m, last, c, tb2, com)
<1> DEFINE new == Append(L, r)
           C == CommittedTrx(L) \cup {c}
<1>1. /\ LogOk(L, n, last, c) /\ Redone(L, n, com, tb.hdr.page_count) /\ Current(L, c, tb)
      /\ L \in Seq(LogRecords)
  BY DEF LogInv, LogOk
<1>2. r.type # "COMMIT"
  BY ChangeNotMtr
<1>3. LogOk(new, m, last, c) /\ Redone(new, m, com, tb2.hdr.page_count)
  <2>1. LogOk(new, m, last, c) /\ Redone(new, m, com, tb.hdr.page_count)
    BY <1>1, <1>2, AppendOk
  <2> HIDE DEF new
  <2> QED BY <2>1, RedoneWider DEF Follows
<1>4. /\ Len(new) = Len(L) + 1 /\ Len(L) \in Nat
      /\ \A i \in 1 .. Len(L) : new[i] = L[i]
      /\ new[Len(L) + 1] = r /\ CommittedTrx(new) = CommittedTrx(L)
  BY <1>1, <1>2, Appended
<1> HIDE DEF new
<1>5. PICK t : SoundTable(t) /\ Matches(t, tb) /\ Replays(L, Len(L), C, t)
  BY <1>1 DEF Current
<1>6. ~ RedoFails(t, r) /\ SoundTable(Redo(t, r)) /\ Matches(Redo(t, r), tb2)
  BY <1>5 DEF Follows
<1>7. Replays(new, Len(L), C, t)
  BY <1>4, <1>5, ReplaysAgree
<1>8. Applies(C, new[Len(L) + 1])
  BY <1>4 DEF Applies
<1>9. Replays(new, Len(new), C, Redo(t, r))
  BY <1>4, <1>6, <1>7, <1>8, ReplaysRedo
<1>10. Current(new, c, tb2)
  BY <1>4, <1>6, <1>9 DEF Current
<1> QED BY <1>3, <1>10 DEF LogInv, new

(* COMMIT: what redo of the open transaction makes is now committed, and   *)
(* the session goes on with an id that is new.                             *)
LEMMA AppendCommit ==
  ASSUME NEW L, NEW n, NEW last, NEW c, NEW tb, NEW com, LogInv(L, n, last, c, tb, com),
         SoundTable(tb), NEW r \in LogRecords, r.type = "COMMIT", r.trx = c
  PROVE  LogInv(Append(L, r), Len(L) + 1, last + 1, last + 1, tb, Rows(tb))
<1> DEFINE new == Append(L, r)
           C == CommittedTrx(L) \cup {c}
           next == last + 1
<1>1. /\ LogOk(L, n, last, c) /\ Current(L, c, tb) /\ L \in Seq(LogRecords)
      /\ last \in Nat /\ c \in 0 .. last
  BY DEF LogInv, LogOk
<1>2. r.type \notin Change
  BY DEF Change
<1>3. /\ new \in Seq(LogRecords) /\ Len(new) = Len(L) + 1 /\ Len(L) \in Nat
      /\ \A i \in 1 .. Len(L) : new[i] = L[i]
      /\ new[Len(L) + 1] = r /\ CommittedTrx(new) = C
  BY <1>1, Appended
<1> HIDE DEF new
<1>4. \A i \in 1 .. Len(new) : i \in 1 .. Len(L) \/ (i = Len(L) + 1 /\ new[i] = r)
  BY <1>3
<1>5. \A i \in 1 .. Len(new) : /\ new[i].trx \in Nat /\ new[i].trx <= last
                               /\ new[i].type \in Change => new[i].trx # 0
  <2>1. \A i \in 1 .. Len(new) : new[i].trx \in Nat
    BY <1>3, ElementOfSeq, RecordParts
  <2>2. r.trx <= last /\ r.type \notin Change
    BY <1>1, <1>2
  <2> QED BY <1>1, <1>3, <1>4, <2>1, <2>2 DEF LogOk
<1>6. next \in Nat /\ next \in 0 .. next /\ \A i \in 1 .. Len(new) : new[i].trx # next /\ new[i].trx <= next
  BY <1>1, <1>5
<1>7. next \notin CommittedTrx(new)
  BY <1>3, <1>6, TrxSets
<1> HIDE DEF next
<1>8. LogOk(new, Len(new), next, next)
  <2>1. Len(new) \in 0 .. Len(new) /\ Len(new) + 1 .. Len(new) = {}
    BY <1>3
  <2> QED BY <1>3, <1>5, <1>6, <1>7, <2>1 DEF LogOk
<1>9. PICK t : SoundTable(t) /\ Matches(t, tb) /\ Replays(L, Len(L), C, t)
  BY <1>1 DEF Current
<1>10. Replays(new, Len(new), C, t)
  <2>1. Replays(new, Len(L), C, t)
    BY <1>3, <1>9, ReplaysAgree
  <2>2. \A i \in Len(L) + 1 .. Len(L) + 1 : ~ Applies(C, new[i])
    BY <1>2, <1>3 DEF Applies
  <2>3. Len(L) + 1 \in Nat /\ Len(L) <= Len(L) + 1
    BY <1>3
  <2> QED BY <1>3, <2>1, <2>2, <2>3, ReplaysSkip
<1>11. Redone(new, Len(new), Rows(tb), tb.hdr.page_count)
  <2>1. t.page = tb.page /\ t.hdr.page_count <= tb.hdr.page_count
    BY <1>9 DEF Matches
  <2>2. Rows(t) = Rows(tb)
    BY <1>9, <2>1, SamePagesRows
  <2> QED BY <1>3, <1>9, <1>10, <2>1, <2>2 DEF Redone
<1>12. Current(new, next, tb)
  <2>1. \A i \in 1 .. Len(new) : Applies(C \cup {next}, new[i]) <=> Applies(C, new[i])
    BY <1>6 DEF Applies
  <2>2. Len(new) \in Nat
    BY <1>3
  <2>3. Replays(new, Len(new), C \cup {next}, t)
    BY <1>10, <2>1, <2>2, ReplaysAgree
  <2> QED BY <1>3, <1>9, <2>3 DEF Current
<1> QED BY <1>3, <1>8, <1>11, <1>12 DEF LogInv, new, next

(* A session without an id is given one. *)
LEMMA NewId ==
  ASSUME NEW L, NEW n, NEW last, NEW tb, NEW com, LogInv(L, n, last, 0, tb, com)
  PROVE  LogInv(L, n, last + 1, last + 1, tb, com)
<1> DEFINE next == last + 1
           C == CommittedTrx(L)
<1>1. /\ LogOk(L, n, last, 0) /\ Redone(L, n, com, tb.hdr.page_count) /\ Current(L, 0, tb) /\ L \in Seq(LogRecords)
      /\ last \in Nat /\ Len(L) \in Nat
  BY LenProperties DEF LogInv, LogOk
<1>2. \A i \in 1 .. Len(L) : L[i].trx \in Nat
  BY <1>1, ElementOfSeq, RecordParts
<1>3. /\ next \in Nat /\ next \in 0 .. next
      /\ \A i \in 1 .. Len(L) : L[i].trx # next /\ L[i].trx <= next
  BY <1>1, <1>2 DEF LogOk
<1>4. next \notin C
  BY <1>1, <1>3, TrxSets
<1> HIDE DEF next
<1>5. LogOk(L, n, next, next)
  BY <1>1, <1>3, <1>4 DEF LogOk
<1>6. PICK t : SoundTable(t) /\ Matches(t, tb) /\ Replays(L, Len(L), C \cup {0}, t)
  BY <1>1 DEF Current
<1>7. \A i \in 1 .. Len(L) : Applies(C \cup {next}, L[i]) <=> Applies(C \cup {0}, L[i])
  BY <1>1, <1>3 DEF Applies, LogOk
<1>8. Replays(L, Len(L), C \cup {next}, t)
  BY <1>1, <1>6, <1>7, ReplaysAgree
<1>9. Current(L, next, tb)
  BY <1>6, <1>8 DEF Current
<1> QED BY <1>1, <1>5, <1>9 DEF LogInv, next

(* ROLLBACK: the table has the committed rows again, and the session no id; *)
(* CLOG_SYNC syncs the log before.                                          *)
LEMMA ForgetId ==
  ASSUME NEW L, NEW n, NEW last, NEW c, NEW tb, NEW com, LogInv(L, n, last, c, tb, com),
         NEW m \in {n, Len(L)}, NEW tb2, SoundTable(tb2), Rows(tb2) = com,
         tb2.hdr.page_count = tb.hdr.page_count
  PROVE  LogInv(L, m, last, 0, tb2, com)
<1> DEFINE C == CommittedTrx(L)
           k == tb2.hdr.page_count
<1>1. /\ LogOk(L, n, last, c) /\ Redone(L, n, com, k) /\ L \in Seq(LogRecords)
      /\ last \in Nat /\ Len(L) \in Nat /\ n \in 0 .. Len(L)
  BY LenProperties DEF LogInv, LogOk
<1>2. LogOk(L, m, last, 0)
  <2>1. 0 \in 0 .. last /\ m \in 0 .. Len(L) /\ \A i \in m + 1 .. Len(L) : i \in n + 1 .. Len(L)
    BY <1>1
  <2> QED BY <1>1, <2>1 DEF LogOk
<1>3. Redone(L, Len(L), com, k) /\ Redone(L, m, com, k)
  BY <1>1, RedoneLonger
<1>4. PICK t : /\ SoundTable(t) /\ Rows(t) = com /\ t.hdr.page_count <= k
               /\ Replays(L, Len(L), C, t)
  BY <1>3 DEF Redone
<1>5. Matches(t, tb2)
  BY <1>4, SoundDetermined DEF Matches
<1>6. \A i \in 1 .. Len(L) : Applies(C \cup {0}, L[i]) <=> Applies(C, L[i])
  BY <1>1 DEF Applies, LogOk
<1>7. Replays(L, Len(L), C \cup {0}, t)
  BY <1>1, <1>4, <1>6, ReplaysAgree
<1>8. Current(L, 0, tb2)
  BY <1>4, <1>5, <1>7 DEF Current
<1> QED BY <1>2, <1>3, <1>8 DEF LogInv

LEMMA SameLogInv ==
  ASSUME NEW L, NEW n, NEW last, NEW c, NEW tb, NEW com, LogInv(L, n, last, c, tb, com),
         NEW tb2, tb2.page = tb.page, tb2.hdr = tb.hdr
  PROVE  LogInv(L, n, last, c, tb2, com)
BY DEF LogInv, Current, Matches

(* A crash leaves the synced records, and recovery from those is the       *)
(* replay of the committed transactions.                                   *)
LEMMA RecoverLog ==
  ASSUME NEW L, NEW n, NEW last, NEW c, NEW tb, NEW com, LogInv(L, n, last, c, tb, com),
         disk = [p \in PageNum |-> ClearedPage],
         \A i \in 1 .. n : L[i].type \in Change => L[i].trx \in KnownTrx(SubSeq(L, 1, n))
  PROVE  LET S == SubSeq(L, 1, n)
             a == Recovered(S)
         IN  /\ a.ok /\ SoundTable(a.t) /\ Rows(a.t) = com
             /\ \A last2 \in Nat : (\A i \in 1 .. n : S[i].trx <= last2)
                                     => LogInv(S, n, last2, 0, a.t, com)
<1> DEFINE S == SubSeq(L, 1, n)
           a == Recovered(S)
           C == CommittedTrx(L)
<1>1. /\ LogOk(L, n, last, c) /\ Redone(L, n, com, tb.hdr.page_count) /\ L \in Seq(LogRecords)
      /\ Len(L) \in Nat /\ n \in Nat /\ n <= Len(L)
  BY LenProperties DEF LogInv, LogOk
<1>2. S \in Seq(LogRecords) /\ Len(S) = n /\ \A i \in 1 .. n : S[i] = L[i] /\ L[i] \in LogRecords
  <2>1. \A i \in 1 .. n : L[i] \in LogRecords
    BY <1>1, ElementOfSeq
  <2> QED BY <1>1, <2>1, SubSeqProperties
<1> HIDE DEF S
<1>3. CommittedTrx(S) = C
  <2>1. ASSUME NEW id PROVE id \in CommittedTrx(S) <=> id \in C
    <3>1. id \in CommittedTrx(S) <=> \E i \in 1 .. n : S[i].type = "COMMIT" /\ S[i].trx = id
      BY <1>2, TrxSets
    <3>2. id \in C <=> \E i \in 1 .. Len(L) : L[i].type = "COMMIT" /\ L[i].trx = id
      BY <1>1, TrxSets
    <3>3. \A i \in 1 .. Len(L) : L[i].type = "COMMIT" => i \in 1 .. n
      BY <1>1 DEF LogOk
    <3>4. \A i \in 1 .. n : i \in 1 .. Len(L)
      BY <1>1
    <3> HIDE DEF C
    <3> QED BY <1>2, <3>1, <3>2, <3>3, <3>4
  <2> QED BY <2>1
<1>4. PICK t : SoundTable(t) /\ t.hdr.page_count \in Nat /\ Rows(t) = com /\ Replays(L, n, C, t)
  BY <1>1, SoundFields DEF Redone
<1>5. Replays(S, n, C, t)
  BY <1>1, <1>2, <1>4, ReplaysAgree
<1>6. \A i \in 1 .. Len(S) : S[i].type \in Change => S[i].trx \in KnownTrx(S)
  BY <1>2 DEF S
<1>7. a.ok /\ a.t = t
  BY <1>2, <1>3, <1>5, <1>6, RecoveredIs
<1> HIDE DEF a
<1>8. ASSUME NEW last2 \in Nat, \A i \in 1 .. n : S[i].trx <= last2
      PROVE  LogInv(S, n, last2, 0, a.t, com)
  <2>1. LogOk(S, n, last2, 0)
    <3>1. n \in 0 .. Len(S) /\ 0 \in 0 .. last2 /\ n + 1 .. Len(S) = {}
      BY <1>1, <1>2
    <3>2. \A i \in 1 .. Len(S) : S[i].trx <= last2 /\ (S[i].type \in Change => S[i].trx # 0)
      <4>1. \A i \in 1 .. n : i \in 1 .. Len(L)
        BY <1>1
      <4> QED BY <1>1, <1>2, <1>8, <4>1 DEF LogOk
    <3> QED BY <1>2, <3>1, <3>2 DEF LogOk
  <2>2. Redone(S, n, com, a.t.hdr.page_count)
    <3>1. t.hdr.page_count <= a.t.hdr.page_count
      BY <1>4, <1>7
    <3> QED BY <1>3, <1>4, <1>5, <3>1 DEF Redone
  <2>3. \A i \in 1 .. n : Applies(C \cup {0}, S[i]) <=> Applies(C, S[i])
    BY <1>2, <2>1 DEF LogOk, Applies
  <2>4. Replays(S, n, C \cup {0}, t)
    BY <1>1, <1>5, <2>3, ReplaysAgree
  <2>5. Current(S, 0, a.t)
    <3>1. Matches(t, a.t)
      BY <1>4, <1>7 DEF Matches
    <3> QED BY <1>2, <1>3, <1>4, <2>4, <3>1 DEF Current
  <2> QED BY <2>1, <2>2, <2>5 DEF LogInv
<1> QED BY <1>4, <1>7, <1>8 DEF a, S

-----------------------------------------------------------------------------
(* Which transactions recovery knows: those with a BEGIN or a COMMIT. *)

KnownSynced(L, n) ==
  \A i \in 1 .. n : L[i].type \in Change => L[i].trx \in KnownTrx(SubSeq(L, 1, n))

KnownBut(L, c) ==
  \A i \in 1 .. Len(L) : L[i].type \in Change => L[i].trx \in KnownTrx(L) \/ L[i].trx = c

AllKnown(L) ==
  \A i \in 1 .. Len(L) : L[i].type \in Change => L[i].trx \in KnownTrx(L)

LEMMA KnownPrefix ==
  ASSUME NEW L \in Seq(LogRecords), NEW n \in 0 .. Len(L), KnownSynced(L, n), NEW r \in LogRecords
  PROVE  KnownSynced(Append(L, r), n)
<1> DEFINE new == Append(L, r)
<1>1. /\ new \in Seq(LogRecords) /\ Len(L) \in Nat /\ Len(new) = Len(L) + 1
      /\ \A i \in 1 .. Len(L) : new[i] = L[i]
  BY Appended
<1> HIDE DEF new
<1>2. \A i \in 1 .. n : new[i] = L[i] /\ L[i] \in LogRecords
  BY <1>1, ElementOfSeq
<1>3. SubSeq(new, 1, n) = SubSeq(L, 1, n)
  <2>1. /\ SubSeq(new, 1, n) \in Seq(LogRecords) /\ Len(SubSeq(new, 1, n)) = n
        /\ \A i \in 1 .. n : SubSeq(new, 1, n)[i] = new[i]
    BY <1>1, <1>2, SubSeqProperties
  <2>2. /\ SubSeq(L, 1, n) \in Seq(LogRecords) /\ Len(SubSeq(L, 1, n)) = n
        /\ \A i \in 1 .. n : SubSeq(L, 1, n)[i] = L[i]
    BY <1>1, <1>2, SubSeqProperties
  <2> QED BY <1>2, <2>1, <2>2, SeqEqual
<1> QED BY <1>2, <1>3 DEF KnownSynced, new

LEMMA KnownWhole ==
  ASSUME NEW L \in Seq(LogRecords), AllKnown(L)
  PROVE  KnownSynced(L, Len(L))
BY SubSeqFull DEF KnownSynced, AllKnown

LEMMA KnownAppend ==
  ASSUME NEW L \in Seq(LogRecords), NEW c, KnownBut(L, c), NEW r \in LogRecords, r.trx = c
  PROVE  /\ KnownBut(Append(L, r), c)
         /\ r.type \in {"BEGIN", "COMMIT"} => AllKnown(Append(L, r)) /\ c \in KnownTrx(Append(L, r))
         /\ AllKnown(L) /\ c \in KnownTrx(L) => AllKnown(Append(L, r)) /\ c \in KnownTrx(Append(L, r))
<1> DEFINE new == Append(L, r)
<1>1. /\ Len(new) = Len(L) + 1 /\ Len(L) \in Nat /\ (\A i \in 1 .. Len(L) : new[i] = L[i])
      /\ new[Len(L) + 1] = r /\ KnownTrx(L) \subseteq KnownTrx(new)
      /\ r.type \in {"BEGIN", "COMMIT"} => c \in KnownTrx(new)
  BY Appended
<1> HIDE DEF new
<1>2. \A i \in 1 .. Len(new) : i \in 1 .. Len(L) \/ (i = Len(L) + 1 /\ new[i] = r)
  BY <1>1
<1>3. KnownBut(new, c)
  BY <1>1, <1>2 DEF KnownBut
<1>4. c \in KnownTrx(new) => AllKnown(new)
  BY <1>3 DEF KnownBut, AllKnown
<1> QED BY <1>1, <1>3, <1>4 DEF new

-----------------------------------------------------------------------------
(* The invariant of a server with the one session s, before Reasons. *)

CurId(s) == IF trx[s] = NoTrx THEN 0 ELSE trx[s].id

Unsynced == Len(log) - synced

(* A page where the session changed something is not past the end of the   *)
(* file, and a row it deleted is gone until it is inserted again.          *)
OpsInv(s) ==
  trx[s] # NoTrx =>
    \A rid \in RID : /\ trx[s].ops[rid] # "NONE" => rid[1] < tab.hdr.page_count
                     /\ trx[s].ops[rid] = "DELETE" => Row(tab, rid) = NoData

(* A session that ROLLBACK would not be safe for. *)
NoRollback(s) ==
  trx[s] # NoTrx /\ ~ trx[s].multi /\ \E rid \in DOMAIN pend[s] : trx[s].ops[rid] # "INSERT"

(* A DELETE that met a full buffer outside of a transaction leaves a record *)
(* of a transaction that is not known yet; it is the only one that is not   *)
(* synced, and the next statement that logs anything makes it known.        *)
KnownInv(s) ==
  /\ KnownSynced(log, synced)
  /\ KnownBut(log, CurId(s))
  /\ AllKnown(log) \/ (NoRollback(s) /\ Unsynced = 1)
  /\ trx[s] # NoTrx /\ trx[s].multi /\ trx[s].id # 0 => trx[s].id \in KnownTrx(log)
  /\ \/ Unsynced <= 1
     \/ trx[s] # NoTrx /\ (trx[s].multi \/ trx[s].id = 0)

SafeInv(s) ==
  /\ TypeInv
  /\ SoundTable(tab)
  /\ OpsInv(s)
  /\ Rows(tab) = Changed(committed, pend[s])
  /\ LogInv(log, synced, trx_id, CurId(s), tab, committed)
  /\ KnownInv(s)

LEMMA ChangedNothing ==
  ASSUME NEW com \in [RID -> Data \cup {NoData}], NEW c, DOMAIN c = {}
  PROVE  Changed(com, c) = com
BY DEF Changed

LEMMA ChangedOne ==
  ASSUME NEW com, NEW c, NEW rid \in RID, NEW d, NEW t, Rows(t) = Changed(com, c),
         NEW u, OneRow(t, u, rid, d)
  PROVE  Rows(u) = Changed(com, Mine(c, rid, d))
<1> DEFINE new == Mine(c, rid, d)
<1>1. DOMAIN new = DOMAIN c \cup {rid} /\ new[rid] = d /\ \A r \in DOMAIN c \ {rid} : new[r] = c[r]
  BY DEF Mine
<1> HIDE DEF new
<1>2. ASSUME NEW r \in RID PROVE Row(u, r) = IF r \in DOMAIN new THEN new[r] ELSE com[r]
  <2>1. CASE r = rid
    BY <1>1, <2>1 DEF OneRow
  <2>2. CASE r # rid
    <3>1. Row(u, r) = Row(t, r)
      BY <2>2 DEF OneRow
    <3>2. Row(t, r) = Changed(com, c)[r]
      BY RowsAt
    <3>3. Changed(com, c)[r] = IF r \in DOMAIN c THEN c[r] ELSE com[r]
      BY DEF Changed
    <3> QED BY <1>1, <2>2, <3>1, <3>2, <3>3
  <2> QED BY <2>1, <2>2
<1> QED BY <1>2 DEF Rows, Changed, new

LEMMA LoggedOne ==
  ASSUME LogType, NEW r \in LogRecords, Logged(<<r>>)
  PROVE  /\ log' = Append(log, r) /\ Len(log') = Len(log) + 1
         /\ synced' = IF r.type = "COMMIT" THEN Len(log) + 1
                      ELSE IF BufferFull THEN Len(log) ELSE synced
<1>1. <<r>> \in Seq(LogRecords) /\ Len(<<r>>) = 1 /\ <<r>>[1] = r
  OBVIOUS
<1>2. log' = log \o <<r>> /\ log \o <<r>> = Append(log, r)
  BY DEF Logged, LogType
<1>3. Len(log') = Len(log) + 1
  BY <1>2, Appended DEF LogType
<1> QED BY <1>1, <1>2, <1>3 DEF Logged

LEMMA LoggedTwo ==
  ASSUME LogType, NEW r \in LogRecords, NEW q \in LogRecords, q.type = "COMMIT", Logged(<<r, q>>)
  PROVE  log' = Append(Append(log, r), q) /\ Len(log') = Len(log) + 2 /\ synced' = Len(log')
<1>1. <<r, q>> \in Seq(LogRecords) /\ Len(<<r, q>>) = 2 /\ <<r, q>>[1] = r /\ <<r, q>>[2] = q
  OBVIOUS
<1>2. log' = log \o <<r, q>> /\ Len(log) \in Nat
  BY LenProperties DEF Logged, LogType
<1>3. synced' = Len(log')
  BY <1>1 DEF Logged
<1> DEFINE one == Append(log, r)
           two == Append(one, q)
<1>4. /\ one \in Seq(LogRecords) /\ Len(one) = Len(log) + 1 /\ one[Len(log) + 1] = r
      /\ \A i \in 1 .. Len(log) : one[i] = log[i]
  BY Appended DEF LogType
<1> HIDE DEF one
<1>5. /\ two \in Seq(LogRecords) /\ Len(two) = Len(log) + 2 /\ two[Len(log) + 2] = q
      /\ \A i \in 1 .. Len(log) + 1 : two[i] = one[i]
  <2>1. /\ two \in Seq(LogRecords) /\ Len(two) = Len(one) + 1 /\ two[Len(one) + 1] = q
        /\ \A i \in 1 .. Len(one) : two[i] = one[i]
    BY <1>4, Appended
  <2> QED BY <1>2, <1>4, <2>1
<1> HIDE DEF two
<1>6. /\ log' \in Seq(LogRecords) /\ Len(log') = Len(log) + 2
      /\ \A i \in 1 .. Len(log) + 2 : log'[i] = IF i <= Len(log) THEN log[i] ELSE <<r, q>>[i - Len(log)]
  BY <1>1, <1>2, ConcatProperties DEF LogType
<1>7. \A i \in 1 .. Len(log') : log'[i] = two[i]
  <2> SUFFICES ASSUME NEW i \in 1 .. Len(log) + 2 PROVE log'[i] = two[i]
    BY <1>6
  <2>1. CASE i <= Len(log)
    BY <1>2, <1>4, <1>5, <1>6, <2>1
  <2>2. CASE i = Len(log) + 1
    <3>1. i - Len(log) = 1 /\ ~ (i <= Len(log)) /\ i \in 1 .. Len(log) + 1
      BY <1>2, <2>2
    <3> QED BY <1>1, <1>4, <1>5, <1>6, <2>2, <3>1
  <2>3. CASE i = Len(log) + 2
    <3>1. i - Len(log) = 2 /\ ~ (i <= Len(log))
      BY <1>2, <2>3
    <3> QED BY <1>1, <1>5, <1>6, <2>3, <3>1
  <2> QED BY <1>2, <2>1, <2>2, <2>3
<1>8. log' = two
  BY <1>5, <1>6, <1>7, SeqEqual
<1> QED BY <1>3, <1>6, <1>8 DEF one, two

(* The end of a statement that changed the row rec.rid, with the id that   *)
(* its record has.                                                         *)
LEMMA FinishedSafe ==
  ASSUME NEW s \in Sessions, SafeInv(s), trx[s] # NoTrx, NEW ops \in Operations,
         NEW rec \in LogRecords, rec.type \in Change, rec.trx # 0, NEW last \in Nat,
         LogInv(log, synced, last, rec.trx, tab, committed), KnownBut(log, rec.trx),
         trx[s].multi => rec.trx = trx[s].id,
         SoundTable(tab'), Follows(tab, tab', rec), OneRow(tab, tab', rec.rid, rec.data),
         trx[s].multi \/ BufferFull => trx[s].multi \/ ops[rec.rid] # "INSERT",
         Finished(s, ops, rec, last)
  PROVE  /\ LogInv(log', synced', trx_id', CurId(s)', tab', committed')
         /\ Rows(tab') = Changed(committed', pend'[s])
         /\ KnownInv(s)' /\ trx'[s] # NoTrx /\ trx'[s].ops = ops
<1> DEFINE mine == Mine(pend[s], rec.rid, rec.data)
           one == Append(log, rec)
<1>1. /\ LogType /\ SessionType /\ KnownInv(s) /\ Rows(tab) = Changed(committed, pend[s])
      /\ trx \in [Sessions -> TrxType \cup {NoTrx}] /\ pend \in [Sessions -> Changes]
      /\ trx[s].multi \in BOOLEAN /\ rec.trx \in Nat /\ rec.rid \in RID
      /\ log \in Seq(LogRecords) /\ synced \in 0 .. Len(log) /\ Len(log) \in Nat
  BY TypeParts, SessionTrx, RecordParts, LenProperties DEF SafeInv, LogType, SessionType
<1>2. Rows(tab') = Changed(committed, mine)
  BY <1>1, ChangedOne
<1>3. rec.rid \in DOMAIN mine
  BY DEF Mine
<1>4. KnownBut(one, rec.trx) /\ one \in Seq(LogRecords) /\ Len(one) = Len(log) + 1
  BY <1>1, KnownAppend, Appended
<1>5. rec.type # "COMMIT"
  BY ChangeNotMtr
<1> HIDE DEF mine
<1>6. CASE trx[s].multi \/ BufferFull
  <2> DEFINE x == TrxOf(rec.trx, trx[s].multi, ops)
  <2>1. /\ Logged(<<rec>>) /\ trx_id' = last /\ trx' = [trx EXCEPT ![s] = x]
        /\ pend' = [pend EXCEPT ![s] = mine] /\ committed' = committed
    BY <1>6 DEF Finished, Mine, mine
  <2>2. x \in TrxType /\ x.id = rec.trx /\ x.multi = trx[s].multi /\ x.ops = ops
    BY <1>1, TrxMade
  <2> HIDE DEF x
  <2>3. trx'[s] = x /\ pend'[s] = mine /\ trx'[s] # NoTrx /\ CurId(s)' = rec.trx
    BY <1>1, <2>1, <2>2, TrxParts DEF CurId
  <2>4. log' = one /\ Len(log') = Len(log) + 1 /\ synced' = IF BufferFull THEN Len(log) ELSE synced
    BY <1>1, <1>5, <2>1, LoggedOne
  <2>5. LogInv(log', synced', trx_id', CurId(s)', tab', committed')
    <3>1. synced' \in {synced, Len(log)}
      BY <2>4
    <3>2. LogInv(one, synced', last, rec.trx, tab', committed)
      BY <3>1, AppendChange
    <3> QED BY <2>1, <2>3, <2>4, <3>2
  <2>6. AllKnown(log)
    <3>1. CASE trx[s].multi
      BY <1>1, <3>1 DEF KnownInv, NoRollback
    <3>2. CASE BufferFull
      <4>1. Unsynced # 1
        BY <1>1, <3>2, BufferRecordsAssumption DEF BufferFull, Unsynced
      <4> QED BY <1>1, <4>1 DEF KnownInv
    <3> QED BY <1>6, <3>1, <3>2
  <2>7. KnownSynced(log', synced')
    <3>1. KnownSynced(one, Len(log)) /\ KnownSynced(one, synced)
      <4>1. KnownSynced(log, Len(log)) /\ KnownSynced(log, synced) /\ Len(log) \in 0 .. Len(log)
        BY <1>1, <2>6, KnownWhole DEF KnownInv
      <4> QED BY <1>1, <4>1, KnownPrefix
    <3> QED BY <2>4, <3>1
  <2>8. KnownBut(log', CurId(s)')
    BY <1>4, <2>3, <2>4
  <2>9. CASE trx[s].multi
    <3>1. rec.trx \in KnownTrx(log)
      BY <2>9, <1>1 DEF KnownInv
    <3>2. AllKnown(one) /\ rec.trx \in KnownTrx(one)
      BY <1>1, <2>6, <3>1, KnownAppend
    <3>3. trx'[s].multi /\ trx'[s].id = rec.trx
      BY <2>2, <2>3, <2>9
    <3>4. KnownInv(s)'
      BY <2>3, <2>4, <2>7, <2>8, <3>2, <3>3 DEF KnownInv
    <3> QED BY <1>2, <2>1, <2>2, <2>3, <2>5, <3>4
  <2>10. CASE ~ trx[s].multi
    <3>1. BufferFull /\ ops[rec.rid] # "INSERT"
      BY <1>6, <2>10
    <3>2. Unsynced' = 1
      BY <1>1, <2>4, <3>1 DEF Unsynced
    <3>3. ~ trx'[s].multi /\ trx'[s].ops = ops
      BY <2>2, <2>3, <2>10
    <3>4. NoRollback(s)'
      BY <1>3, <2>3, <3>1, <3>3 DEF NoRollback
    <3>5. KnownInv(s)'
      BY <2>7, <2>8, <3>2, <3>3, <3>4 DEF KnownInv
    <3> QED BY <1>2, <2>1, <2>2, <2>3, <2>5, <3>5
  <2> QED BY <2>9, <2>10
<1>7. CASE ~ (trx[s].multi \/ BufferFull)
  <2> DEFINE x == TrxOf(last + 1, FALSE, ops)
             end == MtrRecord("COMMIT", rec.trx)
             two == Append(one, end)
  <2>1. /\ Logged(<<rec, end>>) /\ trx_id' = last + 1 /\ trx' = [trx EXCEPT ![s] = x]
        /\ pend' = [pend EXCEPT ![s] = NoChange] /\ committed' = Changed(committed, mine)
    BY <1>7 DEF Finished, Promised, Mine, mine
  <2>2. x \in TrxType /\ x.id = last + 1 /\ x.multi = FALSE /\ x.ops = ops
    BY NextTrx, Zenon
  <2>3. end \in LogRecords /\ end.type = "COMMIT" /\ end.trx = rec.trx
    BY <1>1, MtrRecordType
  <2> HIDE DEF x, end
  <2>4. /\ trx'[s] = x /\ pend'[s] = NoChange /\ trx'[s] # NoTrx /\ CurId(s)' = last + 1
        /\ ~ trx'[s].multi
    BY <1>1, <2>1, <2>2, TrxParts DEF CurId
  <2>5. log' = two /\ synced' = Len(log') /\ Len(log') = Len(one) + 1
    <3>1. log' = two /\ synced' = Len(log') /\ Len(log') = Len(log) + 2
      BY <1>1, <2>1, <2>3, LoggedTwo
    <3> QED BY <1>1, <1>4, <3>1
  <2>6. LogInv(log', synced', trx_id', CurId(s)', tab', committed')
    <3>1. LogInv(one, synced, last, rec.trx, tab', committed)
      BY AppendChange
    <3>2. LogInv(two, Len(one) + 1, last + 1, last + 1, tab', Rows(tab'))
      BY <2>3, <3>1, AppendCommit
    <3> QED BY <1>2, <2>1, <2>4, <2>5, <3>2
  <2>7. Rows(tab') = Changed(committed', pend'[s])
    <3>1. rec.data \in Data \cup {NoData} /\ committed \in [RID -> Data \cup {NoData}]
      BY <1>1, RecordParts DEF SessionType
    <3>2. mine \in Changes
      BY <1>1, <3>1, MineType DEF mine
    <3>3. committed' \in [RID -> Data \cup {NoData}]
      BY <2>1, <3>1, <3>2, ChangedType
    <3> QED BY <1>2, <2>1, <2>4, <3>3, NoChangeType, ChangedNothing
  <2>8. AllKnown(two) /\ two \in Seq(LogRecords)
    BY <1>4, <2>3, KnownAppend, Appended
  <2>9. KnownInv(s)'
    <3>1. KnownSynced(two, Len(two))
      BY <2>8, KnownWhole
    <3>2. KnownBut(two, CurId(s)')
      BY <2>8 DEF AllKnown, KnownBut
    <3>3. Unsynced' <= 1
      BY <1>1, <1>4, <2>5 DEF Unsynced
    <3> HIDE DEF two
    <3> QED BY <2>4, <2>5, <2>8, <3>1, <3>2, <3>3 DEF KnownInv
  <2> QED BY <2>2, <2>4, <2>6, <2>7, <2>9
<1> QED BY <1>6, <1>7

-----------------------------------------------------------------------------
(* The invariant: one lemma per operation *)

LEMMA InitSafe ==
  ASSUME Init, NEW s \in Sessions
  PROVE  SafeInv(s)
<1>1. /\ TypeInv /\ disk = [p \in PageNum |-> ClearedPage] /\ log = <<>> /\ synced = 0 /\ trx_id = 0
      /\ committed = [rid \in RID |-> NoData] /\ trx[s] = NoTrx /\ pend[s] = NoChange
      /\ tab = OpenTable
  BY InitType DEF Init
<1>2. tab = EmptyTable
  <2>1. IteratedPages(NewHeader) = {}
    BY DEF IteratedPages, NewHeader
  <2> QED BY <1>1, <2>1 DEF OpenTable, EmptyTable
<1>3. SoundTable(tab) /\ Rows(tab) = committed
  BY <1>1, <1>2, EmptyTableSound
<1>4. Rows(tab) = Changed(committed, pend[s])
  BY <1>1, <1>3, NoChangeType, ChangedNothing
<1>5. CurId(s) = 0 /\ Len(log) = 0 /\ log \in Seq(LogRecords)
  BY <1>1 DEF CurId
<1>6. LogInv(log, synced, trx_id, CurId(s), tab, committed)
  <2>1. LogOk(log, 0, 0, 0)
    BY <1>5 DEF LogOk
  <2>2. tab.hdr.page_count <= tab.hdr.page_count
    BY <1>3, SoundFields
  <2>3. Redone(log, 0, committed, tab.hdr.page_count)
    BY <1>2, <1>3, <2>2, ReplaysNone DEF Redone
  <2>4. Current(log, 0, tab)
    BY <1>2, <1>3, <1>5, <2>2, ReplaysNone DEF Current, Matches
  <2> QED BY <1>1, <1>5, <2>1, <2>3, <2>4 DEF LogInv
<1>7. KnownInv(s)
  <2>1. KnownSynced(log, 0) /\ KnownBut(log, 0) /\ AllKnown(log)
    BY <1>5 DEF KnownSynced, KnownBut, AllKnown
  <2>2. Unsynced <= 1
    BY <1>1, <1>5 DEF Unsynced
  <2> QED BY <1>1, <1>5, <2>1, <2>2 DEF KnownInv
<1>8. OpsInv(s)
  BY <1>1 DEF OpsInv
<1> QED BY <1>1, <1>3, <1>4, <1>6, <1>7, <1>8 DEF SafeInv

LEMMA SafeParts ==
  ASSUME NEW s \in Sessions, SafeInv(s)
  PROVE  /\ TableType /\ LogType /\ SessionType /\ TypeInv /\ SoundTable(tab) /\ GoodTable(tab)
         /\ trx \in [Sessions -> TrxType \cup {NoTrx}] /\ pend \in [Sessions -> Changes]
         /\ committed \in [RID -> Data \cup {NoData}]
         /\ log \in Seq(LogRecords) /\ synced \in 0 .. Len(log) /\ Len(log) \in Nat /\ trx_id \in Nat
         /\ trx[s] # NoTrx => /\ trx[s] \in TrxType /\ trx[s].id \in Nat /\ trx[s].multi \in BOOLEAN
                              /\ trx[s].ops \in Operations /\ CurId(s) = trx[s].id
BY TypeParts, SessionTrx, LenProperties, SoundFields DEF SafeInv, LogType, SessionType, CurId

LEMMA ConnectSafe ==
  ASSUME NEW s \in Sessions, SafeInv(s), Connect(s)
  PROVE  SafeInv(s)'
<1>1. /\ trx \in [Sessions -> TrxType \cup {NoTrx}] /\ trx[s] = NoTrx /\ CurId(s) = 0 /\ trx_id \in Nat
      /\ trx_id' = trx_id + 1 /\ trx' = [trx EXCEPT ![s] = NewTrx(trx_id + 1)]
      /\ UNCHANGED <<tab, disk, log, synced, pend, committed>>
      /\ log \in Seq(LogRecords)
  BY SafeParts DEF Connect, CurId
<1>2. TypeInv'
  BY SafeParts, ConnectType
<1>3. /\ trx'[s] # NoTrx /\ trx'[s].id = trx_id' /\ ~ trx'[s].multi /\ trx'[s].ops = NoOperations
      /\ CurId(s)' = trx_id'
  <2>1. trx_id' \in Nat /\ trx'[s] = NewTrx(trx_id')
    BY <1>1
  <2> QED BY <2>1, NewTrxType, TrxParts DEF CurId
<1>4. LogInv(log, synced, trx_id', trx_id', tab, committed)
  BY <1>1, NewId DEF SafeInv
<1>5. OpsInv(s)'
  BY <1>3 DEF OpsInv, NoOperations
<1>6. KnownInv(s)'
  <2>1. KnownSynced(log, synced) /\ AllKnown(log) /\ Unsynced <= 1
    BY <1>1 DEF SafeInv, KnownInv, NoRollback
  <2>2. KnownBut(log, CurId(s)')
    BY <2>1 DEF KnownBut, AllKnown
  <2> QED BY <1>1, <1>3, <2>1, <2>2 DEF KnownInv, Unsynced
<1> QED BY <1>1, <1>2, <1>3, <1>4, <1>5, <1>6 DEF SafeInv

LEMMA BeginSafe ==
  ASSUME NEW s \in Sessions, SafeInv(s), Begin(s)
  PROVE  SafeInv(s)'
<1> DEFINE id == trx[s].id
           x == TrxOf(id, TRUE, trx[s].ops)
           r == MtrRecord("BEGIN", id)
<1>1. /\ trx[s] # NoTrx /\ Logged(<<r>>) /\ trx' = [trx EXCEPT ![s] = x]
      /\ UNCHANGED <<tab, disk, trx_id, pend, committed>>
  BY DEF Begin
<1>2. /\ trx \in [Sessions -> TrxType \cup {NoTrx}] /\ id \in Nat /\ trx[s].ops \in Operations
      /\ CurId(s) = id /\ LogType /\ log \in Seq(LogRecords) /\ synced \in 0 .. Len(log) /\ Len(log) \in Nat
  BY <1>1, SafeParts
<1>3. TypeInv'
  BY <1>1, SafeParts, BeginType
<1>4. x \in TrxType /\ x.id = id /\ x.multi = TRUE /\ x.ops = trx[s].ops
  BY <1>2, BegunTrx
<1>5. r \in LogRecords /\ r.type = "BEGIN" /\ r.trx = id
  BY <1>2, MtrRecordType
<1> HIDE DEF x, r
<1>6. /\ trx'[s] # NoTrx /\ trx'[s].id = id /\ trx'[s].multi /\ trx'[s].ops = trx[s].ops
      /\ CurId(s)' = id
  BY <1>1, <1>2, <1>4, TrxParts DEF CurId
<1>7. log' = Append(log, r) /\ synced' = IF BufferFull THEN Len(log) ELSE synced
  BY <1>1, <1>2, <1>5, LoggedOne
<1>8. LogInv(log', synced', trx_id', CurId(s)', tab', committed')
  <2>1. LogInv(log, synced, trx_id, id, tab, committed) /\ synced' \in {synced, Len(log)}
    BY <1>2, <1>7 DEF SafeInv
  <2>2. LogInv(Append(log, r), synced', trx_id, id, tab, committed)
    BY <1>5, <2>1, AppendBegin
  <2> QED BY <1>1, <1>6, <1>7, <2>2
<1>9. OpsInv(s)'
  BY <1>1, <1>6 DEF SafeInv, OpsInv
<1>10. KnownInv(s)'
  <2>1. KnownSynced(log, synced) /\ KnownBut(log, id) /\ (Unsynced # 1 => AllKnown(log))
    BY <1>2 DEF SafeInv, KnownInv
  <2>2. AllKnown(log') /\ id \in KnownTrx(log')
    BY <1>2, <1>5, <1>7, <2>1, KnownAppend
  <2>3. KnownSynced(log', synced')
    <3>1. CASE BufferFull
      <4>1. Unsynced # 1
        BY <1>2, <3>1, BufferRecordsAssumption DEF BufferFull, Unsynced
      <4>2. KnownSynced(log, Len(log)) /\ Len(log) \in 0 .. Len(log)
        BY <1>2, <2>1, <4>1, KnownWhole
      <4> QED BY <1>2, <1>5, <1>7, <3>1, <4>2, KnownPrefix
    <3>2. CASE ~ BufferFull
      BY <1>2, <1>5, <1>7, <2>1, <3>2, KnownPrefix
    <3> QED BY <3>1, <3>2
  <2>4. KnownBut(log', id)
    BY <2>2 DEF KnownBut, AllKnown
  <2> HIDE DEF id
  <2> QED BY <1>1, <1>6, <2>2, <2>3, <2>4 DEF KnownInv
<1> QED BY <1>1, <1>3, <1>8, <1>9, <1>10 DEF SafeInv

LEMMA CommitSafe ==
  ASSUME NEW s \in Sessions, SafeInv(s), Commit(s)
  PROVE  SafeInv(s)'
<1> DEFINE id == trx[s].id
           x == TrxOf(trx_id + 1, FALSE, trx[s].ops)
           r == MtrRecord("COMMIT", id)
<1>1. /\ trx[s] # NoTrx /\ Logged(<<r>>) /\ trx' = [trx EXCEPT ![s] = x] /\ trx_id' = trx_id + 1
      /\ committed' = Changed(committed, pend[s]) /\ pend' = [pend EXCEPT ![s] = NoChange]
      /\ UNCHANGED <<tab, disk>>
  BY DEF Commit, Promised
<1>2. /\ trx \in [Sessions -> TrxType \cup {NoTrx}] /\ id \in Nat /\ trx[s].ops \in Operations
      /\ CurId(s) = id /\ LogType /\ log \in Seq(LogRecords) /\ Len(log) \in Nat /\ trx_id \in Nat
      /\ pend \in [Sessions -> Changes] /\ Rows(tab) = Changed(committed, pend[s])
  BY <1>1, SafeParts DEF SafeInv
<1>3. TypeInv'
  BY SafeParts, CommitType
<1>4. x \in TrxType /\ x.id = trx_id + 1 /\ x.multi = FALSE /\ x.ops = trx[s].ops
  BY <1>2, NextTrx, Zenon
<1>5. r \in LogRecords /\ r.type = "COMMIT" /\ r.trx = id
  BY <1>2, MtrRecordType
<1> HIDE DEF x, r
<1>6. /\ trx'[s] # NoTrx /\ trx'[s].id = trx_id' /\ ~ trx'[s].multi /\ trx'[s].ops = trx[s].ops
      /\ CurId(s)' = trx_id' /\ pend'[s] = NoChange
  BY <1>1, <1>2, <1>4, TrxParts DEF CurId
<1>7. log' = Append(log, r) /\ synced' = Len(log) + 1 /\ Len(log') = Len(log) + 1
  BY <1>1, <1>2, <1>5, LoggedOne
<1>8. LogInv(log', synced', trx_id', CurId(s)', tab', committed')
  <2>1. LogInv(log, synced, trx_id, id, tab, committed)
    BY <1>2 DEF SafeInv
  <2>2. LogInv(Append(log, r), Len(log) + 1, trx_id + 1, trx_id + 1, tab, Rows(tab))
    BY <1>5, <2>1, AppendCommit DEF SafeInv
  <2> QED BY <1>1, <1>2, <1>6, <1>7, <2>2
<1>9. OpsInv(s)'
  BY <1>1, <1>6 DEF SafeInv, OpsInv
<1>10. Rows(tab') = Changed(committed', pend'[s])
  <2>1. committed' \in [RID -> Data \cup {NoData}]
    BY <1>3 DEF TypeInv
  <2> QED BY <1>1, <1>2, <1>6, <2>1, NoChangeType, ChangedNothing
<1>11. KnownInv(s)'
  <2>1. KnownBut(log, id)
    BY <1>2 DEF SafeInv, KnownInv
  <2>2. AllKnown(log') /\ log' \in Seq(LogRecords)
    BY <1>2, <1>5, <1>7, <2>1, KnownAppend, Appended
  <2>3. KnownSynced(log', synced')
    BY <1>7, <2>2, KnownWhole
  <2>4. KnownBut(log', CurId(s)')
    BY <2>2 DEF KnownBut, AllKnown
  <2>5. Unsynced' <= 1
    BY <1>2, <1>7 DEF Unsynced
  <2> QED BY <1>6, <2>2, <2>3, <2>4, <2>5 DEF KnownInv
<1> QED BY <1>1, <1>3, <1>8, <1>9, <1>10, <1>11 DEF SafeInv

LEMMA NotSpoilt ==
  ASSUME NEW bad, NEW why, SpoiltIf(bad, why), spoilt' = {}
  PROVE  ~ bad
BY DEF SpoiltIf

(* Outside of a transaction, a session with an id does not meet a full     *)
(* buffer.                                                                 *)
LEMMA RoomWithId ==
  ASSUME NEW s \in Sessions, SafeInv(s), trx[s].id # 0
  PROVE  trx[s].multi \/ ~ BufferFull
<1>1. synced \in 0 .. Len(log) /\ Len(log) \in Nat /\ KnownInv(s)
  BY SafeParts DEF SafeInv
<1>2. CASE Unsynced <= 1
  BY <1>1, <1>2, BufferRecordsAssumption DEF BufferFull, Unsynced
<1>3. CASE ~ (Unsynced <= 1)
  BY <1>1, <1>3 DEF KnownInv
<1> QED BY <1>2, <1>3

LEMMA InsertSafe ==
  ASSUME NEW s \in Sessions, SafeInv(s), NEW d \in Data, Insert(s, d), spoilt' = {}
  PROVE  SafeInv(s)'
<1> DEFINE id == trx[s].id
           Rid(p) == RidFor(tab, p)
           T(p) == InsertedAt(tab, Rid(p), d)
           Ok(p) == trx[s].ops[Rid(p)] \in {"NONE", "DELETE"}
           Ops(p) == [trx[s].ops EXCEPT ![Rid(p)] = "INSERT"]
           Rec(p) == LogRecord("INSERT", id, Rid(p), d)
<1>1. trx[s] # NoTrx /\ CanInsert(tab)
  BY DEF Insert
<1>2. /\ SoundTable(tab) /\ id \in Nat /\ trx[s].ops \in Operations
      /\ CurId(s) = id /\ trx_id \in Nat
      /\ OpsInv(s) /\ KnownInv(s) /\ LogInv(log, synced, trx_id, id, tab, committed)
      /\ Rows(tab) = Changed(committed, pend[s])
  BY <1>1, SafeParts DEF SafeInv
<1>3. TypeInv'
  BY <1>1, SafeParts, InsertType
<1>4. PICK p \in InsertPages(tab) :
        /\ tab' = IF Ok(p) THEN T(p) ELSE DeletedAt(T(p), Rid(p))
        /\ IF Ok(p) THEN Finished(s, Ops(p), Rec(p), trx_id) ELSE Failed
        /\ IF p \in WithRoom(tab) \ tab.hdr.bitmap THEN SpoiltIf(TRUE, "stranded")
           ELSE SpoiltIf(Ok(p) /\ id = 0, "noid")
  BY DEF Insert
<1>5. p \notin WithRoom(tab) \ tab.hdr.bitmap /\ (Ok(p) => id # 0)
  BY <1>4, NotSpoilt
<1>6. /\ Rid(p) \in RID /\ Rid(p)[1] = p /\ SoundTable(T(p)) /\ OneRow(tab, T(p), Rid(p), d)
      /\ tab.hdr.page_count <= T(p).hdr.page_count /\ p < T(p).hdr.page_count
      /\ p \in tab.hdr.bitmap \/ p = tab.hdr.page_count
      /\ tab.hdr.page_count \in Nat /\ T(p).hdr.page_count \in Nat /\ p \in Nat
  <2>1. /\ Rid(p) \in RID /\ Rid(p)[1] = p /\ SoundTable(T(p)) /\ OneRow(tab, T(p), Rid(p), d)
        /\ tab.hdr.page_count <= T(p).hdr.page_count /\ p < T(p).hdr.page_count
        /\ p \in tab.hdr.bitmap \/ p = tab.hdr.page_count
        /\ p \in PageNum \ {HeaderPage}
    BY <1>1, <1>2, <1>5, InsertEffect
  <2>2. tab.hdr.page_count \in Nat /\ T(p).hdr.page_count \in Nat
    BY <1>2, <2>1, SoundFields
  <2> QED BY <2>1, <2>2 DEF PageNum
<1>7. CASE Ok(p)
  <2> DEFINE rec == Rec(p)
             ops == Ops(p)
             u == T(p)
  <2>1. tab' = u /\ Finished(s, ops, rec, trx_id)
    BY <1>4, <1>7
  <2>2. /\ rec \in LogRecords /\ rec.type = "INSERT" /\ rec.type \in Change /\ rec.trx = id
        /\ rec.rid = Rid(p) /\ rec.data = d
    <3>1. "INSERT" \in Change /\ "INSERT" # "DELETE"
      BY DEF Change
    <3> QED BY <1>2, <1>6, <3>1, LogRecordType
  <2>3. Follows(tab, u, rec)
    BY <1>1, <1>2, <1>5, <2>2, InsertFollows
  <2>4. /\ ops \in Operations /\ ops[Rid(p)] = "INSERT"
        /\ \A q \in RID \ {Rid(p)} : ops[q] = trx[s].ops[q]
    BY <1>2, <1>6 DEF Operations, Change
  <2>5. KnownBut(log, rec.trx) /\ (trx[s].multi \/ ~ BufferFull)
    BY <1>2, <1>5, <1>7, <2>2, RoomWithId DEF KnownInv
  <2> HIDE DEF rec, ops, u, Rid, T, Ops, Rec
  <2>6. /\ LogInv(log', synced', trx_id', CurId(s)', tab', committed')
        /\ Rows(tab') = Changed(committed', pend'[s])
        /\ KnownInv(s)' /\ trx'[s] # NoTrx /\ trx'[s].ops = ops
    <3>1. OneRow(tab, tab', rec.rid, rec.data) /\ Follows(tab, tab', rec)
      BY <1>6, <2>1, <2>2, <2>3 DEF u
    <3>2. LogInv(log, synced, trx_id, rec.trx, tab, committed) /\ rec.trx # 0 /\ SoundTable(tab')
      BY <1>2, <1>5, <1>6, <1>7, <2>1, <2>2 DEF u
    <3>3. trx[s].multi \/ BufferFull => trx[s].multi \/ ops[rec.rid] # "INSERT"
      BY <2>5
    <3> QED BY <1>1, <1>2, <2>1, <2>2, <2>4, <2>5, <3>1, <3>2, <3>3, FinishedSafe
  <2>7. OpsInv(s)'
    <3> SUFFICES ASSUME NEW q \in RID
                 PROVE  /\ ops[q] # "NONE" => q[1] < tab'.hdr.page_count
                        /\ ops[q] = "DELETE" => Row(tab', q) = NoData
      BY <2>6 DEF OpsInv
    <3>1. CASE q = Rid(p)
      BY <1>6, <2>1, <2>4, <3>1 DEF u
    <3>2. CASE q # Rid(p)
      <4>1. Row(tab', q) = Row(tab, q)
        BY <1>6, <2>1, <3>2 DEF OneRow, u
      <4>2. /\ trx[s].ops[q] # "NONE" => q[1] < tab'.hdr.page_count
            /\ trx[s].ops[q] = "DELETE" => Row(tab, q) = NoData
        <5>1. q[1] \in Nat
          BY RidParts DEF PageNum
        <5> QED BY <1>1, <1>2, <1>6, <2>1, <5>1 DEF OpsInv, u
      <4> QED BY <1>6, <2>1, <2>4, <3>2, <4>1, <4>2 DEF u
    <3> QED BY <3>1, <3>2
  <2> QED BY <1>3, <1>6, <2>1, <2>6, <2>7 DEF SafeInv, u
<1>8. CASE ~ Ok(p)
  <2>1. tab' = DeletedAt(T(p), Rid(p)) /\ UNCHANGED <<log, synced, trx_id, trx, pend, committed>>
    BY <1>4, <1>8 DEF Failed
  <2>2. p \in tab.hdr.bitmap
    <3>1. p < tab.hdr.page_count
      BY <1>1, <1>2, <1>6, <1>8 DEF OpsInv
    <3> QED BY <1>6, <3>1
  <2>3. SoundTable(tab') /\ tab'.page = tab.page /\ tab'.hdr = tab.hdr
    BY <1>1, <1>2, <2>1, <2>2, RefusedInsertEffect
  <2>4. Rows(tab') = Rows(tab) /\ \A q \in RID : Row(tab', q) = Row(tab, q)
    BY <1>2, <2>3, SamePagesRows
  <2>5. CurId(s)' = id
    BY <1>2, <2>1 DEF CurId
  <2>6. LogInv(log', synced', trx_id', CurId(s)', tab', committed')
    BY <1>2, <2>1, <2>3, <2>5, SameLogInv
  <2>7. OpsInv(s)'
    BY <1>2, <2>1, <2>3, <2>4 DEF OpsInv
  <2>8. KnownInv(s)'
    BY <1>2, <2>1, <2>5 DEF KnownInv, NoRollback, Unsynced
  <2> QED BY <1>2, <1>3, <2>1, <2>3, <2>4, <2>6, <2>7, <2>8 DEF SafeInv
<1> QED BY <1>7, <1>8

LEMMA UpdateSafe ==
  ASSUME NEW s \in Sessions, SafeInv(s), NEW rid \in RID, NEW d \in Data,
         Update(s, rid, d), spoilt' = {}
  PROVE  SafeInv(s)'
<1> DEFINE id == trx[s].id
           op == trx[s].ops[rid]
           ops == [trx[s].ops EXCEPT ![rid] = IF op = "NONE" THEN "UPDATE" ELSE op]
           rec == LogRecord("UPDATE", id, rid, d)
<1>1. /\ trx[s] # NoTrx /\ Row(tab, rid) # NoData /\ tab' = UpdatedAt(tab, rid, d)
      /\ IF op # "DELETE" THEN Finished(s, ops, rec, trx_id) ELSE Failed
      /\ SpoiltIf(op # "DELETE" /\ id = 0, "noid")
  BY DEF Update, StoredRids
<1>2. /\ SoundTable(tab) /\ id \in Nat /\ trx[s].ops \in Operations
      /\ CurId(s) = id /\ trx_id \in Nat
      /\ OpsInv(s) /\ KnownInv(s) /\ LogInv(log, synced, trx_id, id, tab, committed)
  BY <1>1, SafeParts DEF SafeInv
<1>3. TypeInv'
  BY <1>1, SafeParts, UpdateType
<1>4. op # "DELETE" /\ Finished(s, ops, rec, trx_id) /\ id # 0
  <2>1. op # "DELETE"
    BY <1>1, <1>2 DEF OpsInv
  <2> QED BY <1>1, <2>1, NotSpoilt
<1>5. /\ rec \in LogRecords /\ rec.type = "UPDATE" /\ rec.type \in Change /\ rec.trx = id
      /\ rec.rid = rid /\ rec.data = d
  <2>1. "UPDATE" \in Change /\ "UPDATE" # "DELETE"
    BY DEF Change
  <2> QED BY <1>2, <2>1, LogRecordType
<1>6. /\ ops \in Operations /\ ops[rid] # "DELETE"
      /\ \A q \in RID \ {rid} : ops[q] = trx[s].ops[q]
  BY <1>2, <1>4 DEF Operations, Change
<1> HIDE DEF rec, ops
<1>7. SoundTable(tab') /\ OneRow(tab, tab', rid, d) /\ tab'.hdr = tab.hdr /\ Follows(tab, tab', rec)
  BY <1>1, <1>2, <1>5, UpdateEffect
<1>8. KnownBut(log, rec.trx) /\ (trx[s].multi \/ ~ BufferFull)
  BY <1>2, <1>4, <1>5, RoomWithId DEF KnownInv
<1>9. /\ LogInv(log', synced', trx_id', CurId(s)', tab', committed')
      /\ Rows(tab') = Changed(committed', pend'[s])
      /\ KnownInv(s)' /\ trx'[s] # NoTrx /\ trx'[s].ops = ops
  <2>1. OneRow(tab, tab', rec.rid, rec.data)
    BY <1>5, <1>7
  <2>2. LogInv(log, synced, trx_id, rec.trx, tab, committed) /\ rec.trx # 0
    BY <1>2, <1>4, <1>5
  <2>3. trx[s].multi \/ BufferFull => trx[s].multi \/ ops[rec.rid] # "INSERT"
    BY <1>8
  <2> QED BY <1>1, <1>2, <1>4, <1>5, <1>6, <1>7, <1>8, <2>1, <2>2, <2>3, FinishedSafe
<1>10. OpsInv(s)'
  <2> SUFFICES ASSUME NEW q \in RID
               PROVE  /\ ops[q] # "NONE" => q[1] < tab'.hdr.page_count
                      /\ ops[q] = "DELETE" => Row(tab', q) = NoData
    BY <1>9 DEF OpsInv
  <2>1. CASE q = rid
    BY <1>1, <1>2, <1>6, <1>7, <2>1, RowIs
  <2>2. CASE q # rid
    <3>1. Row(tab', q) = Row(tab, q)
      BY <1>7, <2>2 DEF OneRow
    <3> QED BY <1>1, <1>2, <1>6, <1>7, <2>2, <3>1 DEF OpsInv
  <2> QED BY <2>1, <2>2
<1> QED BY <1>1, <1>2, <1>3, <1>7, <1>9, <1>10 DEF SafeInv

LEMMA DeleteSafe ==
  ASSUME NEW s \in Sessions, SafeInv(s), NEW rid \in RID, Delete(s, rid), spoilt' = {}
  PROVE  SafeInv(s)'
<1> DEFINE op == trx[s].ops[rid]
           ops == [trx[s].ops EXCEPT ![rid] =
                     IF op = "INSERT" THEN "NONE" ELSE IF op = "NONE" THEN "DELETE" ELSE op]
           last == IF trx[s].id = 0 THEN trx_id + 1 ELSE trx_id
           id == IF trx[s].id = 0 THEN last ELSE trx[s].id
           rec == LogRecord("DELETE", id, rid, NoData)
<1>1. /\ trx[s] # NoTrx /\ Row(tab, rid) # NoData /\ tab' = DeletedAt(tab, rid)
      /\ Finished(s, ops, rec, last) /\ SpoiltIf(trx[s].multi /\ trx[s].id = 0, "noid")
  BY DEF Delete, StoredRids
<1>2. /\ SoundTable(tab) /\ trx[s].id \in Nat /\ trx[s].ops \in Operations
      /\ CurId(s) = trx[s].id /\ trx_id \in Nat
      /\ OpsInv(s) /\ KnownInv(s) /\ LogInv(log, synced, trx_id, trx[s].id, tab, committed)
  BY <1>1, SafeParts DEF SafeInv
<1>3. TypeInv'
  BY SafeParts, DeleteType
<1>4. ~ (trx[s].multi /\ trx[s].id = 0)
  BY <1>1, NotSpoilt
<1>5. last \in Nat /\ id \in Nat /\ id # 0
  BY <1>2
<1>6. LogInv(log, synced, last, id, tab, committed)
  <2>1. CASE trx[s].id = 0
    BY <1>2, <2>1, NewId
  <2>2. CASE trx[s].id # 0
    BY <1>2, <2>2
  <2> QED BY <2>1, <2>2
<1>7. KnownBut(log, id)
  <2>1. CASE trx[s].id = 0
    <3>1. \A i \in 1 .. Len(log) : log[i].type \in Change => log[i].trx # 0
      BY <1>2 DEF LogInv, LogOk
    <3>2. KnownBut(log, 0)
      BY <1>2, <2>1 DEF KnownInv
    <3> QED BY <3>1, <3>2 DEF KnownBut
  <2>2. CASE trx[s].id # 0
    BY <1>2, <2>2 DEF KnownInv
  <2> QED BY <2>1, <2>2
<1>8. trx[s].multi => id = trx[s].id
  BY <1>4
<1> HIDE DEF last, id
<1>9. /\ rec \in LogRecords /\ rec.type = "DELETE" /\ rec.type \in Change /\ rec.trx = id
      /\ rec.rid = rid /\ rec.data = NoData
  <2>1. "DELETE" \in Change /\ NoData \in Data \cup {NoData}
    BY DEF Change
  <2> QED BY <1>5, <2>1, LogRecordType
<1>10. /\ ops \in Operations /\ ops[rid] # "INSERT" /\ (ops[rid] # "NONE" => op # "INSERT")
       /\ \A q \in RID \ {rid} : ops[q] = trx[s].ops[q]
  BY <1>2 DEF Operations, Change
<1> HIDE DEF rec, ops
<1>11. /\ SoundTable(tab') /\ OneRow(tab, tab', rid, NoData) /\ Follows(tab, tab', rec)
       /\ tab'.hdr.page_count = tab.hdr.page_count
  BY <1>1, <1>2, <1>9, DeleteEffect
<1>12. /\ LogInv(log', synced', trx_id', CurId(s)', tab', committed')
       /\ Rows(tab') = Changed(committed', pend'[s])
       /\ KnownInv(s)' /\ trx'[s] # NoTrx /\ trx'[s].ops = ops
  <2>1. OneRow(tab, tab', rec.rid, rec.data)
    BY <1>9, <1>11
  <2>2. LogInv(log, synced, last, rec.trx, tab, committed) /\ KnownBut(log, rec.trx) /\ rec.trx # 0
    BY <1>5, <1>6, <1>7, <1>9
  <2>3. trx[s].multi \/ BufferFull => trx[s].multi \/ ops[rec.rid] # "INSERT"
    BY <1>9, <1>10
  <2>4. trx[s].multi => rec.trx = trx[s].id
    BY <1>8, <1>9
  <2> QED BY <1>1, <1>5, <1>9, <1>10, <1>11, <2>1, <2>2, <2>3, <2>4, FinishedSafe
<1>13. OpsInv(s)'
  <2> SUFFICES ASSUME NEW q \in RID
               PROVE  /\ ops[q] # "NONE" => q[1] < tab'.hdr.page_count
                      /\ ops[q] = "DELETE" => Row(tab', q) = NoData
    BY <1>12 DEF OpsInv
  <2>1. CASE q = rid
    BY <1>1, <1>2, <1>11, <2>1, RowIs DEF OneRow
  <2>2. CASE q # rid
    <3>1. Row(tab', q) = Row(tab, q)
      BY <1>11, <2>2 DEF OneRow
    <3> QED BY <1>1, <1>2, <1>10, <1>11, <2>2, <3>1 DEF OpsInv
  <2> QED BY <2>1, <2>2
<1> QED BY <1>3, <1>11, <1>12, <1>13 DEF SafeInv

LEMMA RollbackSafe ==
  ASSUME NEW s \in Sessions, SafeInv(s), RolledBack(s), spoilt' = {}, log' = log,
         synced' \in {synced, Len(log)}
  PROVE  SafeInv(s)'
<1> DEFINE rids == Held(Inserted(s))
<1>1. /\ trx[s] # NoTrx /\ tab' = DeletedAll(tab, rids)
      /\ trx' = [trx EXCEPT ![s] = NewTrx(0)] /\ pend' = [pend EXCEPT ![s] = NoChange]
      /\ UNCHANGED <<trx_id, committed>>
      /\ Inserted(s) = DOMAIN pend[s] /\ \A rid \in Inserted(s) : committed[rid] = NoData
  <2>1. OnlyOpenInserts(s)
    BY NotSpoilt DEF RolledBack
  <2> QED BY <2>1 DEF RolledBack, OnlyOpenInserts
<1>2. /\ SoundTable(tab) /\ trx \in [Sessions -> TrxType \cup {NoTrx}] /\ pend \in [Sessions -> Changes]
      /\ committed \in [RID -> Data \cup {NoData}] /\ KnownInv(s)
      /\ log \in Seq(LogRecords) /\ synced \in 0 .. Len(log) /\ Len(log) \in Nat
      /\ LogInv(log, synced, trx_id, CurId(s), tab, committed)
      /\ Rows(tab) = Changed(committed, pend[s])
  BY SafeParts DEF SafeInv
<1>3. TypeInv'
  BY <1>1, SafeParts, RolledBackType
<1>4. Inserted(s) \subseteq RID /\ rids \in SUBSET RID
  BY DEF Inserted, Held
<1>5. \A rid \in Inserted(s) : rid \in rids <=> Row(tab, rid) # NoData
  BY <1>2, <1>4, RowIs DEF Held
<1>6. rids \subseteq Inserted(s)
  BY DEF Held
<1> HIDE DEF rids
<1>7. /\ SoundTable(tab') /\ tab'.hdr.page_count = tab.hdr.page_count
      /\ \A rid \in RID : Row(tab', rid) = IF rid \in rids THEN NoData ELSE Row(tab, rid)
  BY <1>1, <1>2, <1>4, <1>5, <1>6, RollbackEffect
<1>8. Rows(tab') = committed
  <2>1. ASSUME NEW rid \in RID PROVE Row(tab', rid) = committed[rid]
    <3>1. Row(tab, rid) = IF rid \in DOMAIN pend[s] THEN pend[s][rid] ELSE committed[rid]
      BY <1>2, RowsAt DEF Changed
    <3>2. CASE rid \in rids
      BY <1>1, <1>6, <1>7, <3>2
    <3>3. CASE rid \notin rids /\ rid \in Inserted(s)
      <4>1. Row(tab, rid) = NoData
        BY <1>5, <3>3
      <4> QED BY <1>1, <1>7, <3>3, <4>1
    <3>4. CASE rid \notin rids /\ rid \notin Inserted(s)
      BY <1>1, <1>7, <3>1, <3>4
    <3> QED BY <3>2, <3>3, <3>4
  <2> QED BY <1>2, <2>1, RowsEqual
<1>9. /\ trx'[s] # NoTrx /\ trx'[s].id = 0 /\ ~ trx'[s].multi /\ trx'[s].ops = NoOperations
      /\ CurId(s)' = 0 /\ pend'[s] = NoChange
  <2>1. trx'[s] = NewTrx(0) /\ pend'[s] = NoChange
    BY <1>1, <1>2
  <2> QED BY <2>1, NewTrxType, TrxParts DEF CurId
<1>10. LogInv(log', synced', trx_id', CurId(s)', tab', committed')
  BY <1>1, <1>2, <1>7, <1>8, <1>9, ForgetId
<1>11. Rows(tab') = Changed(committed', pend'[s])
  BY <1>1, <1>2, <1>8, <1>9, NoChangeType, ChangedNothing
<1>12. OpsInv(s)'
  BY <1>9 DEF OpsInv, NoOperations
<1>13. KnownInv(s)'
  <2>1. ~ NoRollback(s)
    BY <1>1 DEF NoRollback, Inserted
  <2>2. KnownSynced(log, synced) /\ AllKnown(log)
    BY <1>2, <2>1 DEF KnownInv
  <2>3. KnownBut(log, 0)
    BY <2>2 DEF KnownBut, AllKnown
  <2>4. KnownSynced(log', synced')
    BY <1>2, <2>2, KnownWhole
  <2> QED BY <1>9, <2>2, <2>3, <2>4 DEF KnownInv
<1> QED BY <1>3, <1>7, <1>10, <1>11, <1>12, <1>13 DEF SafeInv

LEMMA EvictSafe ==
  ASSUME NEW s \in Sessions, SafeInv(s), NEW p \in PageNum, EvictPage(p)
  PROVE  SafeInv(s)'
<1>1. TypeInv'
  BY SafeParts, EvictPageType
<1>2. UNCHANGED <<tab, log, synced, trx_id, trx, pend, committed>>
  BY DEF EvictPage
<1> QED BY <1>1, <1>2 DEF SafeInv, OpsInv, KnownInv, NoRollback, Unsynced, CurId

(* Recovery from the synced log. *)
LEMMA RecoverSafe ==
  ASSUME NEW s \in Sessions, SafeInv(s), Evicted = {}
  PROVE  LET a == Recovered(SyncedLog)
         IN  /\ a.ok /\ SoundTable(a.t) /\ Rows(a.t) = committed /\ a.max \in Nat
             /\ \A last \in Nat : (\A i \in 1 .. synced : SyncedLog[i].trx <= last)
                                    => LogInv(SyncedLog, synced, last, 0, a.t, committed)
<1>1. SyncedLog \in Seq(LogRecords)
  BY SafeParts, SyncedLogType
<1>2. Recovered(SyncedLog).max \in Nat
  BY <1>1, SafeParts, RecoveredGood DEF GoodState
<1>3. \A i \in 1 .. synced : log[i].type \in Change => log[i].trx \in KnownTrx(SubSeq(log, 1, synced))
  BY DEF SafeInv, KnownInv, KnownSynced
<1>4. LogInv(log, synced, trx_id, CurId(s), tab, committed) /\ disk = [p \in PageNum |-> ClearedPage]
  <2>1. disk \in [PageNum -> RecordPages] /\ \A p \in PageNum : disk[p] = ClearedPage
    BY DEF SafeInv, TypeInv, GoodDisk, Evicted
  <2> QED BY <2>1 DEF SafeInv
<1>5. LET a == Recovered(SubSeq(log, 1, synced))
      IN  /\ a.ok /\ SoundTable(a.t) /\ Rows(a.t) = committed
          /\ \A last2 \in Nat : (\A i \in 1 .. synced : SubSeq(log, 1, synced)[i].trx <= last2)
                                  => LogInv(SubSeq(log, 1, synced), synced, last2, 0, a.t, committed)
  BY <1>3, <1>4, RecoverLog
<1>6. SyncedLog = SubSeq(log, 1, synced)
  BY DEF SyncedLog
<1> HIDE DEF SyncedLog
<1> QED BY <1>2, <1>5, <1>6

LEMMA RestartSafe ==
  ASSUME NEW s \in Sessions, SafeInv(s), Restart, spoilt' = {}
  PROVE  SafeInv(s)'
<1> DEFINE a == Recovered(SyncedLog)
<1>1. /\ tab' = a.t /\ log' = SyncedLog /\ synced' = synced /\ committed' = committed
      /\ trx_id' = IF a.ok THEN a.max ELSE 0
      /\ trx' = [q \in Sessions |-> NoTrx] /\ pend' = [q \in Sessions |-> NoChange]
      /\ Evicted = {} /\ ~ \E r \in Range(SyncedLog) : r.trx > trx_id'
  BY NotSpoilt DEF Restart
<1>2. /\ SyncedLog \in Seq(LogRecords) /\ Len(SyncedLog) = synced /\ synced \in Nat
      /\ committed \in [RID -> Data \cup {NoData}]
      /\ \A i \in 1 .. synced : SyncedLog[i] = log[i]
  BY SafeParts, SyncedLogType
<1>3. /\ a.ok /\ SoundTable(a.t) /\ Rows(a.t) = committed /\ a.max \in Nat
      /\ \A last \in Nat : (\A i \in 1 .. synced : SyncedLog[i].trx <= last)
                             => LogInv(SyncedLog, synced, last, 0, a.t, committed)
  BY <1>1, RecoverSafe
<1> HIDE DEF a
<1>4. TypeInv'
  BY SafeParts, RestartType
<1>5. trx_id' = a.max
  BY <1>1, <1>3
<1>6. \A i \in 1 .. synced : SyncedLog[i].trx <= a.max
  <2>1. \A i \in 1 .. synced : SyncedLog[i] \in Range(SyncedLog)
    BY <1>2, LenProperties DEF Range
  <2>2. \A i \in 1 .. synced : SyncedLog[i].trx \in Nat
    BY <1>2, ElementOfSeq, RecordParts
  <2> QED BY <1>1, <1>3, <1>5, <2>1, <2>2
<1>7. trx'[s] = NoTrx /\ pend'[s] = NoChange /\ CurId(s)' = 0
  BY <1>1 DEF CurId
<1>8. LogInv(log', synced', trx_id', CurId(s)', tab', committed')
  BY <1>1, <1>3, <1>5, <1>6, <1>7
<1>9. Rows(tab') = Changed(committed', pend'[s])
  BY <1>1, <1>2, <1>3, <1>7, NoChangeType, ChangedNothing
<1>10. OpsInv(s)'
  BY <1>7 DEF OpsInv
<1>11. KnownInv(s)'
  <2>1. \A i \in 1 .. synced : log[i].type \in Change => log[i].trx \in KnownTrx(SyncedLog)
    BY DEF SafeInv, KnownInv, KnownSynced, SyncedLog
  <2>2. AllKnown(SyncedLog)
    BY <1>2, <2>1 DEF AllKnown
  <2>3. KnownSynced(SyncedLog, synced)
    BY <1>2, <2>2, KnownWhole
  <2>4. KnownBut(SyncedLog, 0)
    BY <2>2 DEF AllKnown, KnownBut
  <2>5. Unsynced' <= 1
    BY <1>1, <1>2 DEF Unsynced
  <2> QED BY <1>1, <1>7, <2>2, <2>3, <2>4, <2>5 DEF KnownInv
<1> QED BY <1>1, <1>3, <1>4, <1>8, <1>9, <1>10, <1>11 DEF SafeInv

LEMMA NextSafe ==
  ASSUME NEW s, Sessions = {s}, SafeInv(s), Next, spoilt' = {}
  PROVE  SafeInv(s)'
<1>1. s \in Sessions /\ \A q \in Sessions : q = s
  OBVIOUS
<1>2. \/ Connect(s) \/ Begin(s) \/ Commit(s) \/ Rollback(s) \/ ClogSyncStatement(s)
      \/ \E d \in Data : Insert(s, d) \/ \E rid \in RID : Update(s, rid, d)
      \/ \E rid \in RID : Delete(s, rid)
      \/ \E p \in PageNum : EvictPage(p)
      \/ Restart
  BY <1>1 DEF Next
<1>3. Rollback(s) \/ ClogSyncStatement(s) => SafeInv(s)'
  BY <1>1, RollbackSafe DEF Rollback, ClogSyncStatement
<1> QED BY <1>1, <1>2, <1>3, ConnectSafe, BeginSafe, CommitSafe, InsertSafe, UpdateSafe,
           DeleteSafe, EvictSafe, RestartSafe

LEMMA SafeStutters ==
  ASSUME NEW s, SafeInv(s), UNCHANGED vars
  PROVE  SafeInv(s)'
<1>1. /\ tab' = tab /\ disk' = disk /\ log' = log /\ synced' = synced /\ trx_id' = trx_id
      /\ trx' = trx /\ pend' = pend /\ committed' = committed /\ restarts' = restarts
  BY DEF vars
<1> QED BY <1>1 DEF SafeInv, TypeInv, OpsInv, KnownInv, NoRollback, Unsynced, CurId

(* The inductive invariant. *)
Unspoilt(s) ==
  TypeInv /\ spoilt \subseteq Reasons /\ (spoilt = {} => SafeInv(s))

LEMMA UnspoiltHolds ==
  ASSUME NEW s, Sessions = {s}
  PROVE  (Init => Unspoilt(s)) /\ (Unspoilt(s) /\ [Next]_vars => Unspoilt(s)')
<1>1. Init => Unspoilt(s)
  BY InitSafe, InitType DEF Unspoilt, Init
<1>2. ASSUME Unspoilt(s), [Next]_vars PROVE Unspoilt(s)'
  <2>1. TypeInv' /\ spoilt' \subseteq Reasons /\ spoilt \subseteq spoilt'
    BY <1>2, NextType, TypeStutters, SpoiltGrows DEF Unspoilt, Grown
  <2>2. ASSUME spoilt' = {} PROVE SafeInv(s)'
    <3>1. SafeInv(s)
      BY <1>2, <2>1, <2>2 DEF Unspoilt
    <3> QED BY <1>2, <2>2, <3>1, NextSafe, SafeStutters
  <2> QED BY <2>1, <2>2 DEF Unspoilt
<1> QED BY <1>1, <1>2

LEMMA UnspoiltImplies ==
  ASSUME NEW s, Sessions = {s}, Unspoilt(s)
  PROVE  CommittedVisible /\ CrashSafe
<1>1. s \in Sessions
  OBVIOUS
<1>2. CommittedVisible
  <2> SUFFICES ASSUME spoilt = {}, DOMAIN pend[s] = {} PROVE Rows(tab) = committed
    BY <1>1 DEF CommittedVisible, Visible
  <2>1. SafeInv(s)
    BY DEF Unspoilt
  <2>2. Rows(tab) = Changed(committed, pend[s]) /\ committed \in [RID -> Data \cup {NoData}]
    BY <1>1, <2>1, SafeParts DEF SafeInv
  <2> QED BY <2>2, ChangedNothing
<1>3. CrashSafe
  <2> SUFFICES ASSUME spoilt = {}, Evicted = {} PROVE Recoverable
    BY DEF CrashSafe
  <2>1. SafeInv(s)
    BY DEF Unspoilt
  <2> QED BY <1>1, <2>1, RecoverSafe DEF Recoverable
<1> QED BY <1>2, <1>3

(* CommittedVisible: with one session, whenever no transaction has changes *)
(* open the table holds exactly the rows whose COMMIT the client was       *)
(* promised, after every statement, eviction and restart, until one of     *)
(* Reasons happens.                                                        *)
THEOREM CommittedVisibleCorrect ==
  ASSUME NEW s, Sessions = {s}
  PROVE  Spec => []CommittedVisible
<1>1. (Init => Unspoilt(s)) /\ (Unspoilt(s) /\ [Next]_vars => Unspoilt(s)')
  BY UnspoiltHolds
<1>2. Unspoilt(s) => CommittedVisible
  BY UnspoiltImplies
<1> QED BY <1>1, <1>2, PTL DEF Spec

(* CrashSafe: with one session, whenever the server goes down, Db::recover *)
(* gets to the end of what is synced of the log and brings back exactly    *)
(* the committed rows, however often the server went down before, unless   *)
(* one of Reasons has happened or a page with records has been evicted.    *)
THEOREM CrashSafeCorrect ==
  ASSUME NEW s, Sessions = {s}
  PROVE  Spec => []CrashSafe
<1>1. (Init => Unspoilt(s)) /\ (Unspoilt(s) /\ [Next]_vars => Unspoilt(s)')
  BY UnspoiltHolds
<1>2. Unspoilt(s) => CrashSafe
  BY UnspoiltImplies
<1> QED BY <1>1, <1>2, PTL DEF Spec

=============================================================================
