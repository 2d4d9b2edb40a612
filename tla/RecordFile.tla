----------------------------- MODULE RecordFile -----------------------------
(***************************************************************************)
(* The records of one table file: RecordFileHandler and RecordFileScanner  *)
(* (record_manager.cpp) on an open DiskBufferPool.  DiskBufferPool is used *)
(* through what it implements (PageStore): `page` is the content its       *)
(* callers see, whether cached or not, and the pages pinned between calls  *)
(* are the ones scanners hold.                                             *)
(*                                                                         *)
(*   hdr        the file header           page[p]   the records of page p  *)
(*   free       free_pages_               disposed  disposed_pages         *)
(*   scan[s]    a RecordFileScanner                                        *)
(*   stored     what the callers were told: the records inserted and not   *)
(*              deleted, by their RID (history, not in the code)           *)
(*   stranded   those of them that were put into a page while it was       *)
(*              disposed of (history)                                      *)
(*                                                                         *)
(* Each call is one step.  The buffer pool has a frame for every call.     *)
(***************************************************************************)
EXTENDS PageFile, RecordPage

CONSTANTS
  Scanners,       \* scans that may be in progress at a time
  Closed          \* a scanner that is not in use

VARIABLES hdr, page, free, disposed, scan, stored, stranded

vars == <<hdr, page, free, disposed, scan, stored, stranded>>

RID == (PageNum \ {HeaderPage}) \X Slot

NoPage == -1

(* A scanner: bp_iterator_ (size, fixed when the scan opens, and current   *)
(* page), the page record_page_handler_ has pinned, next_slot_num_ of the  *)
(* page iterator, next_record_; and, as history, the records it returned   *)
(* and the ones it owes its caller: in the file since it was opened, and   *)
(* not hidden from it by a deletion (see HiddenBehind).                    *)
Scan ==
  [size : Nat, cur : PageNum, held : PageNum \cup {NoPage},
   slot : Slot \cup {NoBit}, next : RID \cup {<<>>},
   seen : SUBSET RID, owed : SUBSET RID]

ASSUME ClosedAssumption == Closed \notin Scan

TypeOK ==
  /\ hdr \in FileHeader
  /\ page \in [PageNum -> RecordPages]
  /\ free \subseteq PageNum \ {HeaderPage}
  /\ disposed \subseteq PageNum \ {HeaderPage}
  /\ scan \in [Scanners -> Scan \cup {Closed}]
  /\ stored \in [RID -> Data \cup {NoData}]
  /\ stranded \subseteq RID

Init ==
  /\ hdr = NewHeader
  /\ page = [p \in PageNum |-> ClearedPage]
  /\ free = {}
  /\ disposed = {}
  /\ scan = [s \in Scanners |-> Closed]
  /\ stored = [rid \in RID |-> NoData]
  /\ stranded = {}

-----------------------------------------------------------------------------
(* The file *)

Opened == {s \in Scanners : scan[s] # Closed}

PinnedPages == {scan[s].held : s \in Opened}

StoredRids == {rid \in RID : stored[rid] # NoData}

(* RecordFileHandler::init, when the table is opened (so that nobody scans *)
(* it): a new handler finds the pages that are not full.                   *)
InitHandler ==
  /\ Opened = {}
  /\ free' = {p \in IteratedPages(hdr) : ~ IsFull(page[p])}
  /\ UNCHANGED <<hdr, page, disposed, scan, stored, stranded>>

(* delete_record leaves an emptied page in free_pages_, although its bit   *)
(* is clear, or will be when the last scan lets go of it: a record that is *)
(* inserted there is out of the reach of the file.                         *)
IsStale(p) == p \in disposed \/ p \notin hdr.bitmap

\* (Were the slot in use, its record would still be owed to who inserted it.)
InsertInto(p, pg, d, rows) ==
  LET s == FreeSlot(pg) IN
  /\ page' = [page EXCEPT ![p] = PutRecord(pg, s, d)]
  /\ stored' = [rows EXCEPT ![<<p, s>>] = IF @ = NoData THEN d ELSE @]

(* insert_record tries the free pages, in the order of the hash set, and   *)
(* drops the full ones it meets.                                           *)
InsertRecord(d) ==
  /\ \E full \in SUBSET {p \in free : IsFull(page[p])},
        p \in {q \in free : ~ IsFull(page[q])} :
       /\ free' = free \ full
       /\ InsertInto(p, page[p], d, stored)
       /\ stranded' = IF IsStale(p) THEN stranded \cup {<<p, FreeSlot(page[p])>>}
                      ELSE stranded
  /\ UNCHANGED <<hdr, disposed, scan>>

(* insert_record when no free page has room: allocate_page and             *)
(* init_empty_page, which wipes out the records stranded in the page.      *)
InsertRecordInNewPage(d) ==
  LET reuse == HasFreePage(hdr)
      p == IF reuse THEN FirstFreePage(hdr) ELSE hdr.page_count
      pg == InitEmptyPage(IF reuse THEN page[p] ELSE ClearedPage)
      wiped == {rid \in stranded : rid[1] = p}
  IN
  /\ \A q \in free : IsFull(page[q])
  /\ reuse \/ ~ FileIsFull(hdr)
  /\ hdr' = IF reuse THEN ReusePage(hdr, p) ELSE ExtendFile(hdr)
  /\ free' = {p}
  /\ InsertInto(p, pg, d, [rid \in RID |-> IF rid \in wiped THEN NoData ELSE stored[rid]])
  /\ stranded' = stranded \ wiped
  /\ UNCHANGED <<disposed, scan>>

(* update_record of a record the caller knows. *)
UpdateRecord(rid, d) ==
  /\ rid \in StoredRids
  /\ rid[2] \in page[rid[1]].slots
  /\ page' = [page EXCEPT ![rid[1]] = UpdateAt(@, rid[2], d)]
  /\ stored' = [stored EXCEPT ![rid] = d]
  /\ UNCHANGED <<hdr, free, disposed, scan, stranded>>

(* next_setted_bit, started at bit `start` of page p, misses these slots   *)
(* when no bit is left in the byte of `start` (Bitmap).                    *)
HiddenBehind(p, start) ==
  {rid \in RID : rid[1] = p /\ start <= rid[2] /\ rid[2] % ByteBits < start % ByteBits}

(* The slots in the byte where the iterator of a scan searches on, once it *)
(* has returned the record it stands at.                                   *)
ByteAhead(sc, slots) ==
  {k \in slots : k \div ByteBits = (sc.slot + 1) \div ByteBits}

(* delete_record: a page without records is disposed of, when its last     *)
(* holder unpins it if a scan has it pinned.  The page is put in           *)
(* free_pages_ in any case.                                                *)
DeleteRecord(rid) ==
  LET p == rid[1]
      pg == DeleteAt(page[p], rid[2])
      empty == pg.record_num = 0
  IN
  /\ rid \in StoredRids
  /\ rid[2] \in page[p].slots
  /\ page' = [page EXCEPT ![p] = pg]
  /\ hdr' = IF empty /\ p \notin PinnedPages THEN ReleasePage(hdr, p) ELSE hdr
  /\ disposed' = IF empty /\ p \in PinnedPages THEN disposed \cup {p} ELSE disposed
  /\ free' = free \cup {p}
  /\ stored' = [stored EXCEPT ![rid] = NoData]
  /\ stranded' = stranded \ {rid}
  /\ scan' = [s \in Scanners |->
       LET sc == scan[s]
           hidden == IF sc.held = p /\ sc.slot # NoBit /\ ByteAhead(sc, pg.slots) = {}
                     THEN HiddenBehind(p, sc.slot + 1) ELSE {}
       IN  IF s \in Opened THEN [sc EXCEPT !.owed = @ \ ({rid} \cup hidden)]
           ELSE Closed]

-----------------------------------------------------------------------------
(* Scans *)

(* unpin_page of the page scanner s held: the last holder of a page in     *)
(* disposed_pages disposes of it.                                          *)
UnpinHeld(s) ==
  LET p == scan[s].held
      last == p \in disposed /\ \A t \in Opened \ {s} : scan[t].held # p
  IN
  /\ hdr' = IF last THEN ReleasePage(hdr, p) ELSE hdr
  /\ disposed' = IF last THEN disposed \ {p} ELSE disposed

\* Mutant: the last page is left out.
PagesAheadShort(sc) == {p \in hdr.bitmap : sc.cur < p /\ p < sc.size - 1}

(* The pages fetch_next_record can still visit, and the one it stops at:   *)
(* the first with a record, or the last one.  The bit of the current page  *)
(* is set, so next_setted_bit finds each of them.                          *)
PagesAhead(sc) == {p \in hdr.bitmap : sc.cur < p /\ p < sc.size}

StopPage(sc) ==
  LET full == {p \in PagesAhead(sc) : page[p].slots # {}}
  IN  IF full # {} THEN Lowest(full)
      ELSE CHOOSE p \in PagesAhead(sc) : \A q \in PagesAhead(sc) : q <= p

\* Mutant: the iterator does not step past the slot it returns.
AtSlotAgain(sc, p, s) ==
  [sc EXCEPT !.cur = p, !.held = p,
             !.next = IF s = NoBit THEN <<>> ELSE <<p, s>>,
             !.slot = IF s = NoBit THEN NoBit
                      ELSE next_setted_bit(page[p].slots, Capacity, s)]

(* fetch_next_record_in_page returns the slot and moves the iterator on.   *)
AtSlot(sc, p, s) ==
  [sc EXCEPT !.cur = p, !.held = p,
             !.next = IF s = NoBit THEN <<>> ELSE <<p, s>>,
             !.slot = IF s = NoBit THEN NoBit
                      ELSE next_setted_bit(page[p].slots, Capacity, s + 1)]

(* fetch_next_record of scanner s, whose other fields are in sc. *)
FetchNextRecord(s, sc) ==
  IF sc.held # NoPage /\ sc.slot # NoBit
  THEN /\ scan' = [scan EXCEPT ![s] = AtSlot(sc, sc.held, sc.slot)]
       /\ UNCHANGED <<hdr, disposed>>
  ELSE IF PagesAhead(sc) = {}
  THEN /\ scan' = [scan EXCEPT ![s] = [sc EXCEPT !.next = <<>>]]
       /\ UNCHANGED <<hdr, disposed>>
  ELSE LET p == StopPage(sc) IN
       /\ scan' = [scan EXCEPT ![s] =
            AtSlot(sc, p, next_setted_bit(page[p].slots, Capacity, 0))]
       /\ IF sc.held = NoPage THEN UNCHANGED <<hdr, disposed>> ELSE UnpinHeld(s)

(* open_scan, with no condition. *)
OpenScan(s) ==
  /\ scan[s] = Closed
  /\ FetchNextRecord(s,
       [size |-> hdr.page_count, cur |-> 0, held |-> NoPage, slot |-> NoBit,
        next |-> <<>>, seen |-> {}, owed |-> StoredRids \ stranded])
  /\ UNCHANGED <<page, free, stored, stranded>>

(* next: return next_record_ and fetch the one after it. *)
NextRecord(s) ==
  /\ scan[s] # Closed
  /\ scan[s].next # <<>>
  /\ FetchNextRecord(s, [scan[s] EXCEPT !.seen = @ \cup {scan[s].next}])
  /\ UNCHANGED <<page, free, stored, stranded>>

(* close_scan and the destructor, which unpins the page.  A finished scan  *)
(* keeps its last page pinned until here.                                  *)
CloseScan(s) ==
  /\ scan[s] # Closed
  /\ IF scan[s].held = NoPage THEN UNCHANGED <<hdr, disposed>> ELSE UnpinHeld(s)
  /\ scan' = [scan EXCEPT ![s] = Closed]
  /\ UNCHANGED <<page, free, stored, stranded>>

Next ==
  \/ InitHandler
  \/ \E d \in Data : InsertRecord(d) \/ InsertRecordInNewPage(d)
  \/ \E rid \in RID : DeleteRecord(rid) \/ \E d \in Data : UpdateRecord(rid, d)
  \/ \E s \in Scanners : OpenScan(s) \/ NextRecord(s) \/ CloseScan(s)

Spec == Init /\ [][Next]_vars

-----------------------------------------------------------------------------
(* Properties *)

(* The records of the file, as a scan or get_record finds them. *)
Rows ==
  [rid \in RID |->
     IF rid[1] \in hdr.bitmap /\ rid[2] \in page[rid[1]].slots
     THEN page[rid[1]].data[rid[2]] ELSE NoData]

(* The file holds exactly the records its callers inserted and did not     *)
(* delete, with their last contents: no insert, disposal or reuse of a     *)
(* page loses or revives another record.  Only of a record that was put    *)
(* into a page while it was disposed of nothing is said, until its page is *)
(* allocated again.                                                        *)
RowsKept == \A rid \in RID \ stranded : Rows[rid] = stored[rid]

(* A scan that has ended has returned every record that was in the file    *)
(* all along, whatever was inserted, updated and deleted meanwhile, except *)
(* those behind a byte of the slot bitmap that was emptied while the scan  *)
(* stood in it.                                                            *)
ScanComplete ==
  \A s \in Opened : scan[s].next = <<>> => scan[s].owed \subseteq scan[s].seen

(* A scan never returns a record a second time, whatever is inserted,      *)
(* updated, deleted and disposed of meanwhile: the one it will return next *)
(* (next_record_) is not among those it has returned.                      *)
ScanOnce == \A s \in Opened : scan[s].next \notin scan[s].seen

(* "ASSERT_EQ(count, rids.size())" (record_manager_test.cpp:160): every    *)
(* record that was inserted is in the file.  It is not, after an insert    *)
(* into a page that was emptied.                                           *)
AllRowsKept == Rows = stored

=============================================================================
