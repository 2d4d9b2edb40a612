------------------------------ MODULE Recovery ------------------------------
(***************************************************************************)
(* Transactions on one table and recovery from the redo log: ExecuteStage  *)
(* (do_insert, do_update, do_delete, do_begin, do_commit, ROLLBACK), Trx,  *)
(* the record operations of Table, and Db::recover.  The log is used       *)
(* through what CLog keeps: a sequence of records of which a crash leaves  *)
(* the synced ones.  The table file is a header and record pages (PageFile *)
(* and RecordPage); what has reached the disk of it is kept apart.         *)
(*                                                                         *)
(*   tab      the table in memory: hdr, page, free (free_pages_)           *)
(*   disk     the pages of its file; the header frame is pinned, so that   *)
(*            the header on disk stays as create_file wrote it             *)
(*   log      the log records, the first `synced` of them in the file      *)
(*   trx_id   Trx::trx_id                                                  *)
(*   trx[s]   the Trx of session s, and trx_multi_operation_mode_          *)
(*   pend[s]  what s changed in its open transaction    (history)          *)
(*   committed   the rows the clients were promised     (history)          *)
(*   spoilt   what has happened that takes rows from    (history)          *)
(*            the clients for good: see Reasons                            *)
(*                                                                         *)
(* A statement affects one row and is one step: the server's threads run   *)
(* statements without any locking between them, but the project's README   *)
(* asks for no concurrency.                                                *)
(***************************************************************************)
EXTENDS PageFile, RecordPage, Sequences, Functions

CONSTANTS
  Sessions,
  NoTrx,           \* a session without a Trx
  BufferRecords,   \* the records that fit in the log buffer
  MaxLog,          \* bound: records in the log
  MaxRestarts      \* bound: restarts

\* A statement that met a full buffer leaves room for the next one.
ASSUME BufferRecordsAssumption == BufferRecords \in Nat /\ BufferRecords >= 2

VARIABLES tab, disk, log, synced, trx_id, trx, pend, committed, restarts, spoilt

vars == <<tab, disk, log, synced, trx_id, trx, pend, committed, restarts, spoilt>>

RID == (PageNum \ {HeaderPage}) \X Slot

\* what a redo record, and an operation of a Trx, may be about
Change == {"INSERT", "UPDATE", "DELETE"}

TrxType == [id : Nat, multi : BOOLEAN, ops : [RID -> Change \cup {"NONE"}]]

ASSUME NoTrxAssumption == NoTrx \notin TrxType

(* CLogRecord: rid and data are those of REDO_INSERT, UPDATE and DELETE.   *)
LogRecord(type, id, rid, d) == [type |-> type, trx |-> id, rid |-> rid, data |-> d]

MtrRecord(type, id) == LogRecord(type, id, <<>>, NoData)

\* the operations_ of a Trx: the rids it has an operation for, by type
NoOperations == [rid \in RID |-> "NONE"]

TrxOf(id, multi, ops) == [id |-> id, multi |-> multi, ops |-> ops]

NewTrx(id) == TrxOf(id, FALSE, NoOperations)

NoChange == [rid \in {} |-> NoData]

(* The steps after which the code keeps no promise any more.               *)
(*   "rollback"  ROLLBACK or CLOG_SYNC of a Trx that holds more than the   *)
(*               inserts of its open transaction                           *)
(*   "noid"      a change of a Trx without an id is logged under 0, or     *)
(*               under an id that its BEGIN did not have                   *)
(*   "stranded"  a record is inserted into a page that was disposed of     *)
(*   "ids"       a restart that leaves Trx::trx_id behind an id in the log *)
(*   "evicted"   a restart that finds records in the pages on disk         *)
Reasons == {"rollback", "noid", "stranded", "ids", "evicted"}

SpoiltIf(bad, why) == spoilt' = IF bad THEN spoilt \cup {why} ELSE spoilt

TypeOK ==
  /\ tab.hdr \in FileHeader
  /\ {tab.page, disk} \subseteq [PageNum -> RecordPages]
  /\ tab.free \subseteq PageNum \ {HeaderPage}
  /\ synced \in 0 .. Len(log)
  /\ trx_id \in Nat
  /\ \A s \in Sessions : trx[s] = NoTrx \/ trx[s].id \in 0 .. trx_id
  /\ committed \in [RID -> Data \cup {NoData}]
  /\ spoilt \subseteq Reasons

(* The table when it is opened: the header of the file and what is on disk *)
(* of its pages; the new handler looks for pages that are not full.        *)
OpenTable ==
  [hdr |-> NewHeader, page |-> disk,
   free |-> {p \in IteratedPages(NewHeader) : ~ IsFull(disk[p])}]

Init ==
  /\ disk = [p \in PageNum |-> ClearedPage]
  /\ tab = OpenTable
  /\ log = <<>>
  /\ synced = 0
  /\ trx_id = 0
  /\ trx = [s \in Sessions |-> NoTrx]
  /\ pend = [s \in Sessions |-> NoChange]
  /\ committed = [rid \in RID |-> NoData]
  /\ restarts = 0
  /\ spoilt = {}

-----------------------------------------------------------------------------
(* The table file *)

\* as a scan finds it
Row(t, rid) ==
  IF rid[1] \in IteratedPages(t.hdr) /\ rid[2] \in t.page[rid[1]].slots
  THEN t.page[rid[1]].data[rid[2]] ELSE NoData

Rows(t) == [rid \in RID |-> Row(t, rid)]

StoredRids == {rid \in RID : Row(tab, rid) # NoData}

WithRoom(t) == {p \in t.free : ~ IsFull(t.page[p])}

CanInsert(t) == WithRoom(t) # {} \/ HasFreePage(t.hdr) \/ ~ FileIsFull(t.hdr)

(* The page RecordFileHandler::insert_record puts a record in: a free one  *)
(* with room (full ones are skipped), or one allocated and formatted.      *)
InsertPages(t) ==
  IF WithRoom(t) # {} THEN WithRoom(t)
  ELSE IF HasFreePage(t.hdr) THEN {FirstFreePage(t.hdr)} ELSE {t.hdr.page_count}

TableFor(t, p) ==
  IF p \in WithRoom(t) THEN t
  ELSE [hdr |-> IF HasFreePage(t.hdr) THEN ReusePage(t.hdr, p) ELSE ExtendFile(t.hdr),
        page |-> [t.page EXCEPT ![p] = InitEmptyPage(@)],
        free |-> t.free \cup {p}]

RidFor(t, p) == <<p, FreeSlot(TableFor(t, p).page[p])>>

WithPage(t, p, pg) == [hdr |-> t.hdr, page |-> [t.page EXCEPT ![p] = pg], free |-> t.free]

InsertedAt(t, rid, d) ==
  LET u == TableFor(t, rid[1]) IN WithPage(u, rid[1], PutRecord(u.page[rid[1]], rid[2], d))

(* RecordFileHandler::delete_record; a page without records is disposed of. *)
DeletedAt(t, rid) ==
  LET pg == DeleteAt(t.page[rid[1]], rid[2]) IN
  [hdr |-> IF pg.record_num = 0 THEN ReleasePage(t.hdr, rid[1]) ELSE t.hdr,
   page |-> [t.page EXCEPT ![rid[1]] = pg],
   free |-> t.free \cup {rid[1]}]

UpdatedAt(t, rid, d) == WithPage(t, rid[1], UpdateAt(t.page[rid[1]], rid[2], d))

(* A page is written to disk when it is emptied (dispose_page flushes it)  *)
(* and when it is formatted; d is what is on disk when t becomes u.        *)
Purged(d, t, u) ==
  [p \in PageNum |->
     IF t.page[p] # u.page[p] /\ u.page[p].record_num = 0 THEN ClearedPage ELSE d[p]]

Formatted(t, p) == IF p \in WithRoom(t) THEN disk ELSE [disk EXCEPT ![p] = ClearedPage]

-----------------------------------------------------------------------------
(* Statements *)

\* Mutant: the log is not synced when a transaction commits.
LoggedUnsynced(recs) ==
  /\ Len(log) + Len(recs) <= MaxLog
  /\ log' = log \o recs
  /\ UNCHANGED synced

(* clog_append_record of these records.  A COMMIT syncs the log; a record  *)
(* that meets a full buffer syncs what is there and is put in the empty    *)
(* buffer.  (A COMMIT that does not fit is reported as a failure and not   *)
(* synced: here it fits.)                                                  *)
BufferFull == Len(log) - synced >= BufferRecords

Logged(recs) ==
  /\ Len(log) + Len(recs) <= MaxLog
  /\ log' = log \o recs
  /\ synced' = IF recs[Len(recs)].type = "COMMIT" THEN Len(log')
               ELSE IF BufferFull THEN Len(log) ELSE synced

Changed(old, new) ==
  [rid \in RID |-> IF rid \in DOMAIN new THEN new[rid] ELSE old[rid]]

(* What the client is promised by a COMMIT of the changes c of session s.  *)
Promised(s, c) ==
  /\ committed' = Changed(committed, c)
  /\ pend' = [pend EXCEPT ![s] = NoChange]

(* The end of do_insert, do_update and do_delete, with the redo record and *)
(* the value of Trx::trx_id: outside a multi statement transaction a       *)
(* COMMIT record follows and the Trx goes on with the next id.  A redo     *)
(* record that met a full buffer is in the log and its row in the table,   *)
(* but the statement ends there, a failure.  Nothing clears operations_.   *)
Finished(s, ops, rec, last) ==
  LET mine == [rid \in DOMAIN pend[s] \cup {rec.rid} |->
                 IF rid = rec.rid THEN rec.data ELSE pend[s][rid]] IN
  /\ IF trx[s].multi \/ BufferFull
     THEN /\ Logged(<<rec>>)
          /\ trx_id' = last
          /\ trx' = [trx EXCEPT ![s] = TrxOf(rec.trx, trx[s].multi, ops)]
          /\ pend' = [pend EXCEPT ![s] = mine]
          /\ UNCHANGED committed
     ELSE /\ Logged(<<rec, MtrRecord("COMMIT", rec.trx)>>)
          /\ trx_id' = last + 1
          /\ trx' = [trx EXCEPT ![s] = TrxOf(last + 1, FALSE, ops)]
          /\ Promised(s, mine)
  /\ UNCHANGED restarts

Failed == UNCHANGED <<log, synced, trx_id, trx, pend, committed, restarts>>

\* Mutant: the new Trx takes the next id and leaves the counter behind.
ConnectUncounted(s) ==
  /\ trx[s] = NoTrx
  /\ trx' = [trx EXCEPT ![s] = NewTrx(trx_id + 1)]
  /\ UNCHANGED <<tab, disk, log, synced, trx_id, pend, committed, restarts, spoilt>>

(* The first statement of a session: Session::current_trx makes a Trx. *)
Connect(s) ==
  /\ trx[s] = NoTrx
  /\ trx_id' = trx_id + 1
  /\ trx' = [trx EXCEPT ![s] = NewTrx(trx_id + 1)]
  /\ UNCHANGED <<tab, disk, log, synced, pend, committed, restarts, spoilt>>

(* INSERT: Table::insert_record, then Trx::insert_record, which refuses a  *)
(* record where the session already inserted or updated one; the record is *)
(* then taken out again.  A page that lost its last record was disposed of *)
(* but is still in free_pages_ (RecordFile): it may be chosen.             *)
Insert(s, d) ==
  /\ trx[s] # NoTrx
  /\ CanInsert(tab)
  /\ \E p \in InsertPages(tab) :
       LET rid == RidFor(tab, p)
           t == InsertedAt(tab, rid, d)
           ok == trx[s].ops[rid] \in {"NONE", "DELETE"}
       IN
       /\ tab' = IF ok THEN t ELSE DeletedAt(t, rid)
       /\ disk' = Formatted(tab, p)
       /\ IF ok THEN Finished(s, [trx[s].ops EXCEPT ![rid] = "INSERT"],
                              LogRecord("INSERT", trx[s].id, rid, d), trx_id)
          ELSE Failed
       /\ IF p \in WithRoom(tab) \ tab.hdr.bitmap THEN SpoiltIf(TRUE, "stranded")
          ELSE SpoiltIf(ok /\ trx[s].id = 0, "noid")

(* UPDATE: the record is updated in place, then Trx::update_record refuses *)
(* one the session has deleted.                                            *)
Update(s, rid, d) ==
  LET op == trx[s].ops[rid] IN
  /\ trx[s] # NoTrx
  /\ rid \in StoredRids
  /\ tab' = UpdatedAt(tab, rid, d)
  /\ IF op # "DELETE"
     THEN Finished(s, [trx[s].ops EXCEPT ![rid] = IF op = "NONE" THEN "UPDATE" ELSE op],
                   LogRecord("UPDATE", trx[s].id, rid, d), trx_id)
     ELSE Failed
  /\ SpoiltIf(op # "DELETE" /\ trx[s].id = 0, "noid")
  /\ UNCHANGED disk

(* DELETE: the record is deleted at once.  What Trx::delete_record returns *)
(* is not looked at, but it is the one operation that gives a Trx without  *)
(* an id a new one.                                                        *)
Delete(s, rid) ==
  LET t == DeletedAt(tab, rid)
      op == trx[s].ops[rid]
      last == IF trx[s].id = 0 THEN trx_id + 1 ELSE trx_id
      id == IF trx[s].id = 0 THEN last ELSE trx[s].id
  IN
  /\ trx[s] # NoTrx
  /\ rid \in StoredRids
  /\ tab' = t
  /\ disk' = Purged(disk, tab, t)
  /\ Finished(s, [trx[s].ops EXCEPT ![rid] =
                    IF op = "INSERT" THEN "NONE" ELSE IF op = "NONE" THEN "DELETE" ELSE op],
              LogRecord("DELETE", id, rid, NoData), last)
  /\ SpoiltIf(trx[s].multi /\ trx[s].id = 0, "noid")

(* BEGIN: do_begin. *)
Begin(s) ==
  /\ trx[s] # NoTrx
  /\ Logged(<<MtrRecord("BEGIN", trx[s].id)>>)
  /\ trx' = [trx EXCEPT ![s] = TrxOf(trx[s].id, TRUE, trx[s].ops)]
  /\ UNCHANGED <<tab, disk, trx_id, pend, committed, restarts, spoilt>>

(* COMMIT: do_commit.  Trx::commit is not called. *)
Commit(s) ==
  /\ trx[s] # NoTrx
  /\ Logged(<<MtrRecord("COMMIT", trx[s].id)>>)
  /\ trx_id' = trx_id + 1
  /\ trx' = [trx EXCEPT ![s] = TrxOf(trx_id + 1, FALSE, trx[s].ops)]
  /\ Promised(s, pend[s])
  /\ UNCHANGED <<tab, disk, restarts, spoilt>>

(* ROLLBACK: Trx::rollback.  rollback_insert deletes the record, if it is  *)
(* still there; rollback_update and rollback_delete change nothing (there  *)
(* is no old record to put back).  All operations since the session began  *)
(* are undone, nothing is logged, and the Trx is left without an id:       *)
(* COMMIT and DELETE give it one again.                                    *)
Inserted(s) == {rid \in RID : trx[s].ops[rid] = "INSERT"}

Held(rids) == {rid \in rids : rid[2] \in tab.page[rid[1]].slots}

(* The Trx holds the inserts of its open transaction and nothing else: not *)
(* an update or a delete, nor an operation of a committed transaction.     *)
OnlyOpenInserts(s) ==
  /\ \A rid \in RID : trx[s].ops[rid] # "NONE" => rid \in Inserted(s)
  /\ Inserted(s) = DOMAIN pend[s]
  /\ \A rid \in Inserted(s) : committed[rid] = NoData

(* delete_record of all these rids, one after the other. *)
DeletedAll(t, rids) ==
  LET Gone(p) == {s \in Slot : <<p, s>> \in rids}
      pages == {rid[1] : rid \in rids}
      emptied == {p \in pages : t.page[p].record_num = Cardinality(Gone(p))}
  IN [hdr |-> [page_count |-> t.hdr.page_count,
               allocated_pages |-> t.hdr.allocated_pages - Cardinality(emptied),
               bitmap |-> t.hdr.bitmap \ emptied],
      page |-> [p \in PageNum |->
                  [record_num |-> t.page[p].record_num - Cardinality(Gone(p)),
                   slots |-> t.page[p].slots \ Gone(p),
                   data |-> [s \in Slot |-> IF s \in Gone(p) THEN NoData ELSE t.page[p].data[s]]]],
      free |-> t.free \cup pages]

RolledBack(s) ==
  /\ trx[s] # NoTrx
  /\ tab' = DeletedAll(tab, Held(Inserted(s)))
  /\ disk' = Purged(disk, tab, tab')
  /\ trx' = [trx EXCEPT ![s] = NewTrx(0)]
  /\ pend' = [pend EXCEPT ![s] = NoChange]
  /\ SpoiltIf(~ OnlyOpenInserts(s), "rollback")
  /\ UNCHANGED <<trx_id, committed, restarts>>

Rollback(s) == RolledBack(s) /\ UNCHANGED <<log, synced>>

(* CLOG_SYNC: do_clog_sync, and then on into the case of ROLLBACK. *)
ClogSyncStatement(s) == RolledBack(s) /\ synced' = Len(log) /\ UNCHANGED log

(* The buffer pool evicts a page of the table: it is written to disk. *)
EvictPage(p) ==
  /\ p # HeaderPage
  /\ disk' = [disk EXCEPT ![p] = tab.page[p]]
  /\ UNCHANGED <<tab, log, synced, trx_id, trx, pend, committed, restarts, spoilt>>

Evicted == {p \in PageNum : disk[p] # ClearedPage}

-----------------------------------------------------------------------------
(* Recovery *)

(* CLogMTRManager::trx_commited: the transactions of the log, and those    *)
(* with a COMMIT.                                                          *)
KnownTrx(recs) == {r.trx : r \in {x \in Range(recs) : x.type \in {"BEGIN", "COMMIT"}}}

CommittedTrx(recs) == {r.trx : r \in {x \in Range(recs) : x.type = "COMMIT"}}

(* Db::recover redoes one record; `ok` is whether it goes on.  The page of *)
(* an insert or update is added to the header first (recover_init).        *)
RedoFails(t, r) ==
  IF r.type = "INSERT" THEN RecoverInsertFails(t.page[r.rid[1]])
  ELSE r.rid[2] \notin t.page[r.rid[1]].slots

RecoverPage(t, p) == [hdr |-> RecoverPageBit(t.hdr, p), page |-> t.page, free |-> t.free]

Redo(t, r) ==
  LET u == RecoverPage(t, r.rid[1]) IN
  IF r.type = "DELETE" THEN IF RedoFails(t, r) THEN t ELSE DeletedAt(t, r.rid)
  ELSE IF RedoFails(t, r) THEN u
  ELSE IF r.type = "UPDATE" THEN UpdatedAt(u, r.rid, r.data)
  ELSE WithPage(u, r.rid[1], PutRecord(t.page[r.rid[1]], r.rid[2], r.data))

Greater(i, j) == IF i > j THEN i ELSE j

\* Mutant: what a transaction did is redone whether or not it committed.
SkippedNever(recs, r) == FALSE

Skipped(recs, r) == r.trx \notin CommittedTrx(recs)

(* Db::recover on the records of the log file: the table, what is on disk  *)
(* of it, the last trx id redone, and whether it got to the end.  It gives *)
(* up at a record of an unknown transaction and at one that cannot be      *)
(* redone.                                                                 *)
RecoveryStart == [t |-> OpenTable, disk |-> disk, ok |-> TRUE, max |-> 0]

RecoverRecord(recs, a, r) ==
  IF ~ a.ok \/ r.type \in {"BEGIN", "COMMIT"} THEN a
  ELSE IF r.trx \notin KnownTrx(recs)
  THEN [t |-> a.t, disk |-> a.disk, ok |-> FALSE, max |-> a.max]
  ELSE IF Skipped(recs, r) THEN a
  ELSE [t |-> Redo(a.t, r), disk |-> Purged(a.disk, a.t, Redo(a.t, r)),
        ok |-> ~ RedoFails(a.t, r), max |-> Greater(a.max, r.trx)]

Recovered(recs) ==
  LET after[i \in 0 .. Len(recs)] ==
        IF i = 0 THEN RecoveryStart ELSE RecoverRecord(recs, after[i - 1], recs[i])
  IN after[Len(recs)]

SyncedLog == SubSeq(log, 1, synced)

(* A crash and the next start: open_db, which goes on whatever Db::recover *)
(* returns.  Trx::trx_id starts from 0.                                    *)
Restart ==
  LET a == Recovered(SyncedLog) IN
  /\ restarts < MaxRestarts
  /\ restarts' = restarts + 1
  /\ tab' = a.t
  /\ disk' = a.disk
  /\ log' = SyncedLog
  /\ trx_id' = IF a.ok THEN a.max ELSE 0
  /\ trx' = [s \in Sessions |-> NoTrx]
  /\ pend' = [s \in Sessions |-> NoChange]
  /\ IF Evicted # {} THEN SpoiltIf(TRUE, "evicted")
     ELSE SpoiltIf(\E r \in Range(SyncedLog) : r.trx > trx_id', "ids")
  /\ UNCHANGED <<synced, committed>>

Next ==
  \/ \E s \in Sessions :
       \/ Connect(s) \/ Begin(s) \/ Commit(s) \/ Rollback(s) \/ ClogSyncStatement(s)
       \/ \E d \in Data : Insert(s, d) \/ \E rid \in RID : Update(s, rid, d)
       \/ \E rid \in RID : Delete(s, rid)
  \/ \E p \in PageNum : EvictPage(p)
  \/ Restart

Spec == Init /\ [][Next]_vars

-----------------------------------------------------------------------------
(* Properties *)

Visible == (\A s \in Sessions : DOMAIN pend[s] = {}) => Rows(tab) = committed

Recoverable ==
  LET a == Recovered(SyncedLog) IN a.ok /\ Rows(a.t) = committed

(* Whenever no transaction has changes open, in normal operation and after *)
(* every restart, a scan of the table finds exactly the rows whose COMMIT  *)
(* the clients were promised, unless one of Reasons has happened: pages    *)
(* that are emptied, written back and replayed, and transactions that are  *)
(* left open, rolled back and replayed, take no row away and bring none    *)
(* back.                                                                   *)
CommittedVisible == spoilt = {} => Visible

(* Whenever the server goes down, recovery from the synced log gets to the *)
(* end and brings back exactly the committed rows: none of an open or      *)
(* rolled back transaction, though its records may be in the file, of this *)
(* run or of an earlier one: "in theory the clog rolls back uncommitted    *)
(* transactions at replay" (disk_buffer_pool.cpp:229).  Excepted is what   *)
(* comes after one of Reasons, and a crash while a page that was evicted   *)
(* has records on disk.                                                    *)
CrashSafe == spoilt = {} /\ Evicted = {} => Recoverable

(* "supports commit or rollback" (trx.h:77): a ROLLBACK takes no committed *)
(* row away.  It does.                                                     *)
RollbackKeepsCommitted == spoilt \subseteq {"rollback"} => Visible

=============================================================================
