---------------------------- MODULE TableIndexes ----------------------------
(***************************************************************************)
(* The rows of a table and the entries of its indexes, under the INSERT,   *)
(* UPDATE, DELETE, CREATE INDEX and ROLLBACK statements of one session:    *)
(* Table, IndexMeta and BplusTreeIndex, with the operators that call them. *)
(* A record is the bytes of its fields and its null bitmap; an index keeps *)
(* pairs of the bytes of ONE field and a rid (BPlusTree is how).           *)
(*                                                                         *)
(*   rows      the records of the table file, by slot                      *)
(*   indexes   Table::indexes_, in the order they were created             *)
(*   entries   the entries of each index                                   *)
(*   ops       Trx::operations_ of the session (nothing but ROLLBACK       *)
(*             clears it: Recovery)                                        *)
(*   stmt      the statement that is half done: its kind, the rids it has  *)
(*             yet to visit and, of an UPDATE, what it sets                *)
(*   moved     an UPDATE has changed the key of a row in some index, or    *)
(*             has left one out (history)                                  *)
(*   unindexed the rids of the rows that an UPDATE has left out of some    *)
(*             index (history)                                             *)
(*   faults    how often a tree could not get a page for an entry          *)
(*                                                                         *)
(* A step is one row of a statement; the session has no other statement    *)
(* until that one ends.  An INSERT of several rows is several steps and no *)
(* more: do_insert leaves the rows before one that fails where they are,   *)
(* so that it does what INSERTs of one row each would do.                  *)
(***************************************************************************)
EXTENDS Integers, SequencesExt, TLC

CONSTANTS
  Slots,        \* the records that fit in the table
  Fields,
  Nullable,     \* the fields declared nullable
  Value,        \* integers: what the bytes of a field can be
  Null,
  IndexDefs,    \* the indexes clients may create: [attributes, unique]
  MaxIndexes,   \* bound: indexes of the table
  MaxFaults     \* bound: pages a tree asks for in vain

ASSUME TableAssumption ==
  /\ Slots \in Nat \ {0}
  /\ Nullable \subseteq Fields
  /\ Value \subseteq Int
  /\ Null \notin Value
  /\ MaxIndexes \in Nat
  /\ MaxFaults \in Nat

ASSUME IndexDefsAssumption ==
  \A ix \in IndexDefs : ix.attributes \in Seq(Fields) \ {<<>>} /\ ix.unique \in BOOLEAN

VARIABLES rows, indexes, entries, ops, stmt, moved, unindexed, faults

vars == <<rows, indexes, entries, ops, stmt, moved, unindexed, faults>>

RID == 1 .. Slots

Row == [val : [Fields -> Value], null : SUBSET Nullable]

(* What UPDATE sets: a value or NULL for some of the fields. *)
Sets == UNION {[fs -> Value \cup {Null}] : fs \in (SUBSET Fields) \ {{}}}

Stmt(kind, rids) == [kind |-> kind, rids |-> rids, set |-> <<>>]

Idle == Stmt("NONE", {})

(* IndexMeta::init gets the fields from the last attribute to the first,   *)
(* and the tree is built on the first of them.                             *)
IndexFields(ix) == Reverse(ix.attributes)

KeyOf(ix, row) == row.val[Head(IndexFields(ix))]

EntryOf(ix, row, rid) == <<KeyOf(ix, row), rid>>

Kinds == {"NONE", "DELETE", "LOAD", "LOADED", "COMMIT", "ROLLBACK"}

TypeOK ==
  /\ rows \in UNION {[rids -> Row] : rids \in SUBSET RID}
  /\ indexes \in Seq(IndexDefs) /\ Len(indexes) <= MaxIndexes
  /\ entries \in [DOMAIN indexes -> SUBSET (Value \X RID)]
  /\ ops \in [RID -> {"NONE", "INSERT", "UPDATE", "DELETE"}]
  /\ stmt \in [kind : Kinds, rids : SUBSET RID, set : {<<>>}]
              \cup [kind : {"UPDATE"}, rids : SUBSET RID, set : Sets]
  /\ moved \in BOOLEAN
  /\ unindexed \subseteq RID
  /\ faults \in 0 .. MaxFaults

NoOperations == [rid \in RID |-> "NONE"]

Init ==
  /\ rows = <<>>
  /\ indexes = <<>>
  /\ entries = <<>>
  /\ ops = NoOperations
  /\ stmt = Idle
  /\ moved = FALSE
  /\ unindexed = {}
  /\ faults = 0

-----------------------------------------------------------------------------
(* The rows that is_unique_key's filter accepts: equal in all fields of    *)
(* the index, where nothing equals NULL.  The scan looks at every record,  *)
(* the one that is being updated included.                                 *)
SameKey(ix, r1, r2) ==
  \A i \in DOMAIN ix.attributes :
    LET f == ix.attributes[i] IN f \notin r1.null \cup r2.null /\ r1.val[f] = r2.val[f]

\* Mutant: the first unique index decides.
IsUniqueInFirst(row) ==
  LET unique == SelectSeq(indexes, LAMBDA ix : ix.unique) IN
  ~ \E rid \in DOMAIN rows : unique # <<>> /\ SameKey(Head(unique), rows[rid], row)

IsUniqueKey(row) ==
  ~ \E i \in DOMAIN indexes, rid \in DOMAIN rows :
      indexes[i].unique /\ SameKey(indexes[i], rows[rid], row)

(* insert_entry_of_indexes goes through the indexes up to the first that   *)
(* fails: it has the entry already, or its tree gets no page.              *)
Refuses(es, row, rid, full) ==
  {i \in DOMAIN es : i = full \/ EntryOf(indexes[i], row, rid) \in es[i]}

InsertEntries(es, row, rid, full) ==
  [i \in DOMAIN es |->
     IF \E j \in Refuses(es, row, rid, full) : j <= i THEN es[i]
     ELSE es[i] \cup {EntryOf(indexes[i], row, rid)}]

(* delete_entry_of_indexes with error_on_not_exists false stops at the     *)
(* first index without the entry.                                          *)
Lacks(es, row, rid) == {i \in DOMAIN es : EntryOf(indexes[i], row, rid) \notin es[i]}

DeleteEntries(es, row, rid) ==
  [i \in DOMAIN es |->
     IF \E j \in Lacks(es, row, rid) : j <= i THEN es[i]
     ELSE es[i] \ {EntryOf(indexes[i], row, rid)}]

\* Mutant: the compensation leaves the entries that were made.
CompensateRecordOnly(es, row, rid) == es

(* With error_on_not_exists true it would go on after RECORD_INVALID_KEY,  *)
(* but a tree without the entry says RECORD_RECORD_NOT_EXIST.              *)
Compensate(es, row, rid) == DeleteEntries(es, row, rid)

(* The tree of index full is asked for an entry, and gets no page for it:  *)
(* insert_entry_of_indexes comes as far.  0 stands for no such tree.       *)
GetsNoPage(es, row, rid, full) ==
  /\ full \in DOMAIN indexes /\ faults < MaxFaults
  /\ \A i \in Refuses(es, row, rid, 0) : full < i

TreesFail(es, row, rid, full) ==
  \/ full = 0 /\ UNCHANGED faults
  \/ GetsNoPage(es, row, rid, full) /\ faults' = faults + 1

(* RecordFileHandler::insert_record takes the first free slot, and a scan  *)
(* visits records by slot.                                                 *)
IsFirst(rid, rids) == rid \in rids /\ \A other \in rids : rid <= other

(* Table::insert_record refuses a duplicate key and a full table.  The     *)
(* operation of the Trx cannot be added for a rid that it has inserted or  *)
(* updated before; then the record is taken out again.                     *)
CanInsert(row, rid) == IsUniqueKey(row) /\ IsFirst(rid, RID \ DOMAIN rows)

CanLog(rid) == ops[rid] \in {"NONE", "DELETE"}

DropRow(rid) ==
  /\ rows' = [r \in DOMAIN rows \ {rid} |-> rows[r]]
  /\ unindexed' = unindexed \ {rid}

(* When an index fails, the entries made before and the record are taken   *)
(* out again, but the operation stays.                                     *)
Indexed(row, rid) ==
  /\ Refuses(entries, row, rid, 0) = {}
  /\ entries' = InsertEntries(entries, row, rid, 0)
  /\ rows' = [r \in DOMAIN rows \cup {rid} |-> IF r = rid THEN row ELSE rows[r]]

Undone(row, rid, full) ==
  /\ Refuses(entries, row, rid, full) # {}
  /\ entries' = Compensate(InsertEntries(entries, row, rid, full), row, rid)
  /\ UNCHANGED rows

-----------------------------------------------------------------------------
(* INSERT *)

(* The row is one that make_record makes of the values.  The bytes of a    *)
(* NULL are whatever it finds in the memory it gets.  (Values of another   *)
(* number or type, or a NULL for a field that is not nullable, are refused *)
(* and change nothing.)                                                    *)
Insert(row, rid) ==
  /\ stmt = Idle
  /\ CanInsert(row, rid) /\ CanLog(rid)
  /\ Indexed(row, rid)
  /\ ops' = [ops EXCEPT ![rid] = "INSERT"]
  /\ UNCHANGED <<indexes, stmt, moved, unindexed, faults>>

InsertFails(row, rid, full) ==
  /\ stmt = Idle
  /\ CanInsert(row, rid) /\ CanLog(rid)
  /\ TreesFail(entries, row, rid, full)
  /\ Undone(row, rid, full)
  /\ ops' = [ops EXCEPT ![rid] = "INSERT"]
  /\ UNCHANGED <<indexes, stmt, moved, unindexed>>

-----------------------------------------------------------------------------
(* UPDATE and DELETE *)

(* The rids a WHERE can select: rows with the same fields go together.  *)
Selections ==
  {{rid \in DOMAIN rows : rows[rid] \in chosen} : chosen \in SUBSET Range(rows)} \ {{}}

(* A statement that visits rows begins with some, or is on its way.  It    *)
(* ends with the last one, or with the first that fails.                   *)
Selected == IF stmt = Idle THEN Selections ELSE {stmt.rids}

Visits(rid, kind, rids, set) ==
  /\ IsFirst(rid, rids)
  /\ stmt \in {Idle, [kind |-> kind, rids |-> rids, set |-> set]}

GoesOn(s) == stmt' = IF s.rids = {} THEN Idle ELSE s

(* UpdateOperator changes the bytes of the fields it sets, and only the    *)
(* null bitmap when it sets NULL.                                          *)
SetFields(row, set) ==
  [val |-> [f \in Fields |-> IF f \in DOMAIN set /\ set[f] # Null THEN set[f] ELSE row.val[f]],
   null |-> (row.null \ DOMAIN set) \cup {f \in DOMAIN set : set[f] = Null}]

\* Mutant: a nullable field is taken for any field.
AllowedAlways(set) == TRUE

Allowed(set) == \A f \in DOMAIN set : set[f] = Null => f \in Nullable

\* Mutant: the entries of the new record are deleted and not made again.
UpdateEntriesNoInsert(es, new, rid, full) == DeleteEntries(es, new, rid)

(* Table::update_record.  The record is changed in its page before it is   *)
(* called, so that the entries taken out are those of the NEW record; and  *)
(* what the two calls on the indexes return is not looked at: when a tree  *)
(* gets no page, it and the indexes after it stay without the new entry.   *)
UpdateEntries(es, new, rid, full) ==
  InsertEntries(DeleteEntries(es, new, rid), new, rid, full)

(* UPDATE ... SET ... WHERE, for one row: UpdateOperator::open. *)
Update(rids, rid, set, full) ==
  LET new == SetFields(rows[rid], set) IN
  /\ Visits(rid, "UPDATE", rids, set)
  /\ Allowed(set) /\ IsUniqueKey(new) /\ ops[rid] # "DELETE"
  /\ TreesFail(DeleteEntries(entries, new, rid), new, rid, full)
  /\ rows' = [rows EXCEPT ![rid] = new]
  /\ entries' = UpdateEntries(entries, new, rid, full)
  /\ ops' = [ops EXCEPT ![rid] = IF @ = "NONE" THEN "UPDATE" ELSE @]
  /\ moved' = (moved \/ full # 0 \/ \E i \in DOMAIN indexes :
                                      KeyOf(indexes[i], new) # KeyOf(indexes[i], rows[rid]))
  /\ unindexed' = IF full = 0 THEN unindexed \ {rid} ELSE unindexed \cup {rid}
  /\ GoesOn([kind |-> "UPDATE", rids |-> rids \ {rid}, set |-> set])
  /\ UNCHANGED indexes

(* Trx::update_record refuses a rid with a DELETE operation, where LOAD    *)
(* DATA has put a record after a DELETE of the same transaction.  By then  *)
(* the record is changed and its entries are out of the indexes.           *)
UpdateUnlogged(rids, rid, set) ==
  LET new == SetFields(rows[rid], set) IN
  /\ Visits(rid, "UPDATE", rids, set)
  /\ Allowed(set) /\ IsUniqueKey(new) /\ ops[rid] = "DELETE"
  /\ rows' = [rows EXCEPT ![rid] = new]
  /\ entries' = DeleteEntries(entries, new, rid)
  /\ moved' = TRUE
  /\ unindexed' = unindexed \cup {rid}
  /\ stmt' = Idle
  /\ UNCHANGED <<indexes, ops, faults>>

(* An UPDATE that ends at a row with the key of another. *)
UpdateFails(rid) ==
  /\ stmt.kind = "UPDATE" /\ IsFirst(rid, stmt.rids)
  /\ ~ IsUniqueKey(SetFields(rows[rid], stmt.set))
  /\ stmt' = Idle
  /\ UNCHANGED <<rows, indexes, entries, ops, moved, unindexed, faults>>

(* DELETE ... WHERE, for one row: Table::delete_record.  The record stays  *)
(* when an entry of it is missing.  Trx::delete_record forgets an INSERT   *)
(* and refuses (unheard) an UPDATE.                                        *)
Delete(rids, rid) ==
  /\ Visits(rid, "DELETE", rids, <<>>)
  /\ Lacks(entries, rows[rid], rid) = {}
  /\ entries' = DeleteEntries(entries, rows[rid], rid)
  /\ DropRow(rid)
  /\ ops' = [ops EXCEPT ![rid] = IF @ = "INSERT" THEN "NONE" ELSE IF @ = "NONE" THEN "DELETE" ELSE @]
  /\ GoesOn(Stmt("DELETE", rids \ {rid}))
  /\ UNCHANGED <<indexes, moved, faults>>

DeleteFails(rids, rid) ==
  /\ Visits(rid, "DELETE", rids, <<>>)
  /\ Lacks(entries, rows[rid], rid) # {}
  /\ entries' = DeleteEntries(entries, rows[rid], rid)
  /\ stmt' = Idle
  /\ UNCHANGED <<rows, indexes, ops, moved, unindexed, faults>>

-----------------------------------------------------------------------------
(* ROLLBACK: Trx::rollback.  (A rollback of an update or a delete changes  *)
(* no record.)  The operations are in an unordered set.                    *)

(* The last step of a ROLLBACK or COMMIT clears Trx::operations_. *)
EndsTrx(kind, rids) ==
  /\ GoesOn(Stmt(kind, rids))
  /\ ops' = IF rids = {} THEN NoOperations ELSE ops

Rollback ==
  /\ stmt = Idle
  /\ EndsTrx("ROLLBACK", {rid \in RID : ops[rid] = "INSERT"})
  /\ UNCHANGED <<rows, indexes, entries, moved, unindexed, faults>>

(* Table::rollback_insert: nothing when the record is not there any more;  *)
(* it stays when an entry of it is missing.                                *)
RollbackInsert(rid) ==
  /\ stmt.kind = "ROLLBACK" /\ rid \in stmt.rids
  /\ \/ rid \notin DOMAIN rows /\ UNCHANGED <<rows, entries, unindexed>>
     \/ /\ rid \in DOMAIN rows
        /\ entries' = DeleteEntries(entries, rows[rid], rid)
        /\ IF Lacks(entries, rows[rid], rid) = {} THEN DropRow(rid) ELSE UNCHANGED <<rows, unindexed>>
  /\ EndsTrx("ROLLBACK", stmt.rids \ {rid})
  /\ UNCHANGED <<indexes, moved, faults>>

-----------------------------------------------------------------------------
(* LOAD DATA: the lines of the file up to the first that fails, in no      *)
(* transaction; after which the transaction of the SESSION is committed,   *)
(* unless it was begun with BEGIN.  (DROP INDEX is not supported and ends  *)
(* up here with no lines.)                                                 *)

Loading == {Idle, Stmt("LOAD", {})}

(* insert_record_from_file: a field of the file is never NULL. *)
LoadRow(row, rid) ==
  /\ stmt \in Loading
  /\ row.null = {}
  /\ CanInsert(row, rid)
  /\ Indexed(row, rid)
  /\ stmt' = Stmt("LOAD", {})
  /\ UNCHANGED <<indexes, ops, moved, unindexed, faults>>

LoadRefused(row) ==
  /\ stmt \in Loading
  /\ row.null = {}
  /\ \A rid \in RID : ~ CanInsert(row, rid)
  /\ stmt' = Stmt("LOADED", {})
  /\ UNCHANGED <<rows, indexes, entries, ops, moved, unindexed, faults>>

LoadFails(row, rid, full) ==
  /\ stmt \in Loading
  /\ row.null = {}
  /\ CanInsert(row, rid)
  /\ TreesFail(entries, row, rid, full)
  /\ Undone(row, rid, full)
  /\ stmt' = Stmt("LOADED", {})
  /\ UNCHANGED <<indexes, ops, moved, unindexed>>

(* Trx::commit has nothing to do for an INSERT or an UPDATE but to clear   *)
(* the transaction number of the record.                                   *)
EndLoad(multi) ==
  /\ stmt \in Loading \cup {Stmt("LOADED", {})}
  /\ IF multi THEN stmt' = Idle /\ UNCHANGED ops
     ELSE EndsTrx("COMMIT", {rid \in RID : ops[rid] = "DELETE"})
  /\ UNCHANGED <<rows, indexes, entries, moved, unindexed, faults>>

(* Table::commit_delete removes the record that is at the rid by then. *)
CommitDelete(rid) ==
  /\ stmt.kind = "COMMIT" /\ rid \in stmt.rids
  /\ IF rid \in DOMAIN rows
     THEN DropRow(rid) /\ entries' = DeleteEntries(entries, rows[rid], rid)
     ELSE UNCHANGED <<rows, entries, unindexed>>
  /\ EndsTrx("COMMIT", stmt.rids \ {rid})
  /\ UNCHANGED <<indexes, moved, faults>>

-----------------------------------------------------------------------------
(* CREATE INDEX: Table::create_index, which refuses a second index of the  *)
(* same fields and puts every record in the new tree.  Nothing looks for   *)
(* records with the same key.  (Its files are in Catalog.)                 *)
SameFields(ix1, ix2) ==
  /\ Len(ix1.attributes) = Len(ix2.attributes)
  /\ Range(ix1.attributes) = Range(ix2.attributes)

CreateIndex(ix) ==
  /\ stmt = Idle
  /\ Len(indexes) < MaxIndexes
  /\ ~ \E old \in Range(indexes) : SameFields(old, ix)
  /\ indexes' = Append(indexes, ix)
  /\ entries' = Append(entries, {EntryOf(ix, rows[rid], rid) : rid \in DOMAIN rows})
  /\ UNCHANGED <<rows, ops, stmt, moved, unindexed, faults>>

Next ==
  \/ \E row \in Row, rid \in RID :
       \/ Insert(row, rid)
       \/ LoadRow(row, rid)
       \/ \E full \in 0 .. MaxIndexes : InsertFails(row, rid, full) \/ LoadFails(row, rid, full)
  \/ \E row \in Row : LoadRefused(row)
  \/ \E multi \in BOOLEAN : EndLoad(multi)
  \/ \E rids \in Selected, rid \in RID :
       \/ \E set \in Sets, full \in 0 .. MaxIndexes : Update(rids, rid, set, full)
       \/ \E set \in Sets : UpdateUnlogged(rids, rid, set)
       \/ Delete(rids, rid)
       \/ DeleteFails(rids, rid)
  \/ \E rid \in RID : UpdateFails(rid) \/ CommitDelete(rid) \/ RollbackInsert(rid)
  \/ \E ix \in IndexDefs : CreateIndex(ix)
  \/ Rollback

Spec == Init /\ [][Next]_vars

-----------------------------------------------------------------------------
(* The index TableMeta::find_index_by_field finds has the one field only.  *)
IndexesOfField(f) == {i \in DOMAIN indexes : indexes[i].attributes = <<f>>}

(* The indexes try_to_create_index_scan_operator may choose for a SELECT   *)
(* that compares a field with a constant.                                  *)
ScannedIndexes == UNION {IndexesOfField(f) : f \in Fields}

Before(e1, e2) == e1[1] < e2[1] \/ (e1[1] = e2[1] /\ e1[2] < e2[2])

(* The entries of a tree from the leftmost leaf to the last. *)
ScanOrder(es) ==
  CHOOSE q \in [1 .. Cardinality(es) -> es] :
    /\ Range(q) = es
    /\ \A k \in 1 .. Cardinality(es) - 1 : Before(q[k], q[k + 1])

(* What IndexScanOperator reads of index i.  It is given no bounds (the    *)
(* constant is read as an expression of another class), so that it reads   *)
(* the whole tree, and ends at the first entry whose record is gone.       *)
IndexScan(i) ==
  LET rids == [k \in 1 .. Cardinality(entries[i]) |-> ScanOrder(entries[i])[k][2]]
      gone == {k \in DOMAIN rids : rids[k] \notin DOMAIN rows}
  IN
  IF gone = {} THEN rids ELSE SubSeq(rids, 1, Min(gone) - 1)

(***************************************************************************)
(* Every row is in every index under its current key, although UPDATE      *)
(* takes out and puts in entries of the new record only: an index scan can *)
(* find each row, but the ones that an UPDATE left out, because the Trx    *)
(* refused it or a tree got no page for the new entry (Table::             *)
(* update_record overlooks that one), and no statement but another UPDATE  *)
(* of the row has put back.  (With up to two indexes; the third may miss a *)
(* row.)                                                                   *)
(***************************************************************************)
IndexCovers ==
  \A i \in DOMAIN indexes, rid \in DOMAIN rows \ unindexed :
    EntryOf(indexes[i], rows[rid], rid) \in entries[i]

(***************************************************************************)
(* As long as no UPDATE has moved a key or left a row out of an index, a   *)
(* SELECT that uses an index returns every row once, by key: whatever      *)
(* INSERT left undone, rolled back or compensated.                         *)
(***************************************************************************)
IndexSelect ==
  ~ moved => \A i \in ScannedIndexes :
    LET found == IndexScan(i) IN
    /\ Range(found) = DOMAIN rows
    /\ Len(found) = Cardinality(DOMAIN rows)
    /\ \A k \in 1 .. Len(found) - 1 :
         KeyOf(indexes[i], rows[found[k]]) <= KeyOf(indexes[i], rows[found[k + 1]])

Duplicates(rs, ix) ==
  {pair \in (DOMAIN rs) \X (DOMAIN rs) :
     pair[1] # pair[2] /\ SameKey(ix, rs[pair[1]], rs[pair[2]])}

(***************************************************************************)
(* No statement makes two rows with the same key of a unique index: there  *)
(* are none but those CREATE INDEX has found (it does not look).           *)
(***************************************************************************)
UniqueKept ==
  [][\A i \in DOMAIN indexes :
       indexes[i].unique => Duplicates(rows', indexes[i]) \subseteq Duplicates(rows, indexes[i])]_vars

(***************************************************************************)
(* The records LOAD DATA has put in the table, and reports as loaded, are  *)
(* there when it ends.                                                     *)
(***************************************************************************)
LoadedKept ==
  [][stmt.kind \in {"LOAD", "COMMIT"} => DOMAIN rows \subseteq DOMAIN rows']_vars
=============================================================================
