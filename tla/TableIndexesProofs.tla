------------------------- MODULE TableIndexesProofs -------------------------
(***************************************************************************)
(* Theorems about the rows of a table and the entries of its indexes, for  *)
(* any number of slots, any fields, values and indexes, and any failures   *)
(* of the trees; IndexCovers for up to two indexes, as the code needs it.  *)
(***************************************************************************)
EXTENDS TableIndexes, FiniteSetTheorems, SequenceTheorems, WellFoundedInduction, TLAPS

(* The rows that an UPDATE or a DELETE has yet to visit are there: the     *)
(* statement itself takes out only rows it has visited.                    *)
Placed == stmt.kind \in {"UPDATE", "DELETE"} => stmt.rids \subseteq DOMAIN rows

TypeInv == TypeOK /\ Placed

(* Until an UPDATE moves a key or leaves a row out, each index has the     *)
(* entries of the rows and no other.                                       *)
IndexExact ==
  ~ moved => \A i \in DOMAIN indexes :
    entries[i] = {EntryOf(indexes[i], rows[rid], rid) : rid \in DOMAIN rows}

-----------------------------------------------------------------------------
(* Types of what the statements handle *)

LEMMA RowsType ==
  ASSUME TypeOK
  PROVE  DOMAIN rows \subseteq RID /\ rows \in [DOMAIN rows -> Row]
BY DEF TypeOK

LEMMA RowsTypeNext ==
  ASSUME NEW rids \in SUBSET RID, NEW rs \in [rids -> Row]
  PROVE  rs \in UNION {[x -> Row] : x \in SUBSET RID}
OBVIOUS

LEMMA KeyType ==
  ASSUME NEW ix \in IndexDefs, NEW row \in Row
  PROVE  KeyOf(ix, row) \in Value
<1>1. ix.attributes \in Seq(Fields) /\ ix.attributes # <<>>
  BY IndexDefsAssumption
<1>2. Len(ix.attributes) \in Nat /\ Len(ix.attributes) > 0
  BY <1>1
<1>3. IndexFields(ix)[1] = ix.attributes[Len(ix.attributes)]
  BY <1>2 DEF IndexFields, Reverse
<1>4. Head(IndexFields(ix)) = IndexFields(ix)[1]
  OBVIOUS
<1>5. ix.attributes[Len(ix.attributes)] \in Fields
  BY <1>1, <1>2
<1> QED BY <1>3, <1>4, <1>5 DEF KeyOf, Row

LEMMA EntryType ==
  ASSUME NEW ix \in IndexDefs, NEW row \in Row, NEW rid \in RID
  PROVE  EntryOf(ix, row, rid) \in Value \X RID
BY KeyType DEF EntryOf

LEMMA EntryDiffers ==
  ASSUME NEW ix, NEW jx, NEW row, NEW other, NEW rid, NEW rid2, rid # rid2
  PROVE  EntryOf(ix, row, rid) # EntryOf(jx, other, rid2)
BY DEF EntryOf

LEMMA IndexType ==
  ASSUME TypeOK
  PROVE  /\ DOMAIN indexes = 1 .. Len(indexes) /\ Len(indexes) \in Nat
         /\ \A i \in DOMAIN indexes : indexes[i] \in IndexDefs
         /\ DOMAIN entries = DOMAIN indexes
         /\ \A i \in DOMAIN indexes : entries[i] \in SUBSET (Value \X RID)
BY DEF TypeOK

LEMMA SetFieldsType ==
  ASSUME NEW row \in Row, NEW set \in Sets, Allowed(set)
  PROVE  SetFields(row, set) \in Row
<1>1. PICK fs \in SUBSET Fields : set \in [fs -> Value \cup {Null}]
  BY DEF Sets
<1>2. [f \in Fields |-> IF f \in DOMAIN set /\ set[f] # Null THEN set[f] ELSE row.val[f]]
        \in [Fields -> Value]
  BY <1>1 DEF Row
<1>3. (row.null \ DOMAIN set) \cup {f \in DOMAIN set : set[f] = Null} \in SUBSET Nullable
  BY DEF Row, Allowed
<1> QED BY <1>2, <1>3 DEF SetFields, Row

-----------------------------------------------------------------------------
(* What the operations on all indexes do to the entries *)

LEMMA InsertEntriesIs ==
  ASSUME NEW es, NEW row, NEW rid, NEW full, NEW i \in DOMAIN es
  PROVE  LET e == EntryOf(indexes[i], row, rid)
             r == InsertEntries(es, row, rid, full)
         IN  /\ DOMAIN r = DOMAIN es
             /\ r[i] = es[i] \/ r[i] = es[i] \cup {e}
             /\ Refuses(es, row, rid, full) = {} => r[i] = es[i] \cup {e}
BY DEF InsertEntries

LEMMA DeleteEntriesIs ==
  ASSUME NEW es, NEW row, NEW rid, NEW i \in DOMAIN es
  PROVE  LET e == EntryOf(indexes[i], row, rid)
             r == DeleteEntries(es, row, rid)
         IN  /\ DOMAIN r = DOMAIN es
             /\ r[i] = es[i] \/ r[i] = es[i] \ {e}
             /\ Lacks(es, row, rid) = {} => r[i] = es[i] \ {e}
BY DEF DeleteEntries

LEMMA CompensateIs ==
  ASSUME NEW es, DOMAIN es \subseteq Int, NEW row, NEW rid, NEW full, NEW i \in DOMAIN es
  PROVE  LET e == EntryOf(indexes[i], row, rid)
             r == Compensate(InsertEntries(es, row, rid, full), row, rid)
         IN  DOMAIN r = DOMAIN es /\ (r[i] = es[i] \/ r[i] = es[i] \ {e})
<1> DEFINE e(j) == EntryOf(indexes[j], row, rid)
           ins == InsertEntries(es, row, rid, full)
           del == DeleteEntries(ins, row, rid)
<1>1. /\ DOMAIN ins = DOMAIN es
      /\ \A j \in DOMAIN es : ins[j] = IF \E k \in Refuses(es, row, rid, full) : k <= j
                                    THEN es[j] ELSE es[j] \cup {e(j)}
  BY DEF InsertEntries
<1> HIDE DEF ins
<1>2. /\ DOMAIN del = DOMAIN es
      /\ del[i] = IF \E j \in Lacks(ins, row, rid) : j <= i THEN ins[i] ELSE ins[i] \ {e(i)}
  BY <1>1 DEF DeleteEntries
<1>3. CASE \E j \in Lacks(ins, row, rid) : j <= i
  <2>1. PICK j \in DOMAIN es : j <= i /\ e(j) \notin ins[j]
    BY <1>1, <1>3 DEF Lacks
  <2>2. PICK k \in Refuses(es, row, rid, full) : k <= j
    BY <1>1, <2>1
  <2>3. k <= i
    BY <2>1, <2>2 DEF Refuses
  <2> QED BY <1>1, <1>2, <1>3, <2>2, <2>3 DEF ins, Compensate
<1>4. CASE ~ \E j \in Lacks(ins, row, rid) : j <= i
  BY <1>1, <1>2, <1>4 DEF ins, Compensate
<1> QED BY <1>3, <1>4

(* Every operation on the indexes changes entries of its own rid only. *)
LEMMA EntriesType ==
  ASSUME TypeOK, NEW row \in Row, NEW rid \in RID, NEW full
  PROVE  LET S == [DOMAIN indexes -> SUBSET (Value \X RID)] IN
         /\ InsertEntries(entries, row, rid, full) \in S
         /\ DeleteEntries(entries, row, rid) \in S
         /\ Compensate(InsertEntries(entries, row, rid, full), row, rid) \in S
         /\ UpdateEntries(entries, row, rid, full) \in S
<1>1. /\ DOMAIN entries = DOMAIN indexes
      /\ \A i \in DOMAIN indexes : entries[i] \in SUBSET (Value \X RID)
      /\ \A i \in DOMAIN indexes : EntryOf(indexes[i], row, rid) \in Value \X RID
  BY IndexType, EntryType
<1>2. ASSUME NEW es \in [DOMAIN indexes -> SUBSET (Value \X RID)], NEW n
      PROVE  InsertEntries(es, row, rid, n) \in [DOMAIN indexes -> SUBSET (Value \X RID)]
  BY <1>1 DEF InsertEntries
<1>3. ASSUME NEW es \in [DOMAIN indexes -> SUBSET (Value \X RID)]
      PROVE  DeleteEntries(es, row, rid) \in [DOMAIN indexes -> SUBSET (Value \X RID)]
  BY <1>1 DEF DeleteEntries
<1>4. entries \in [DOMAIN indexes -> SUBSET (Value \X RID)]
  BY DEF TypeOK
<1> QED BY <1>2, <1>3, <1>4 DEF UpdateEntries, Compensate

(* UPDATE ends with the entries of the new record in both of two indexes,  *)
(* when the trees get their pages and whatever was there: either the deletion passes the first index and the  *)
(* insertion too, or it changes nothing and the insertion stops at most at *)
(* an entry that is there.                                                 *)
LEMMA UpdateEntriesCover ==
  ASSUME TypeOK, MaxIndexes <= 2, NEW row, NEW rid, NEW i \in DOMAIN indexes
  PROVE  EntryOf(indexes[i], row, rid) \in UpdateEntries(entries, row, rid, 0)[i]
<1> DEFINE e(j) == EntryOf(indexes[j], row, rid)
           del == DeleteEntries(entries, row, rid)
<1>1. /\ DOMAIN entries = DOMAIN indexes
      /\ DOMAIN indexes \subseteq {1, 2}
      /\ 2 \in DOMAIN indexes => 1 \in DOMAIN indexes
      /\ i = 2 => 1 \in DOMAIN indexes
  BY IndexType, TableAssumption DEF TypeOK
<1>2. DOMAIN del = DOMAIN entries
  BY DEF DeleteEntries
<1>3. \A j \in DOMAIN del :
        e(j) \in del[j] <=> e(j) \in entries[j] /\ \E k \in Lacks(entries, row, rid) : k <= j
  BY <1>2 DEF DeleteEntries
<1>4. UpdateEntries(entries, row, rid, 0)[i] =
        IF \E j \in Refuses(del, row, rid, 0) : j <= i THEN del[i] ELSE del[i] \cup {e(i)}
  BY <1>1, <1>2 DEF UpdateEntries, InsertEntries
<1>5. Refuses(del, row, rid, 0) = {j \in DOMAIN indexes : e(j) \in del[j]}
  BY <1>1, <1>2 DEF Refuses
<1>6. Lacks(entries, row, rid) = {j \in DOMAIN indexes : e(j) \notin entries[j]}
  BY <1>1 DEF Lacks
<1>7. CASE i = 1
  <2>1. e(1) \notin del[1]
    BY <1>1, <1>2, <1>3, <1>6, <1>7
  <2> QED BY <1>1, <1>4, <1>5, <1>7, <2>1
<1>8. CASE i = 2
  <2>1. e(1) \notin del[1]
    BY <1>1, <1>2, <1>3, <1>6, <1>8
  <2> QED BY <1>1, <1>4, <1>5, <1>8, <2>1
<1> QED BY <1>1, <1>7, <1>8

-----------------------------------------------------------------------------
(* Type correctness *)

LEMMA SelectedPlaced ==
  ASSUME TypeInv, NEW rids \in Selected, NEW rid, NEW kind \in {"UPDATE", "DELETE"}, NEW set,
         Visits(rid, kind, rids, set)
  PROVE  rid \in rids /\ rids \subseteq DOMAIN rows /\ rid \in RID /\ rows[rid] \in Row
<1>1. rid \in rids
  BY DEF Visits, IsFirst
<1>2. rids \subseteq DOMAIN rows
  <2>1. CASE stmt = Idle
    BY <2>1 DEF Selected, Selections
  <2>2. CASE stmt = [kind |-> kind, rids |-> rids, set |-> set]
    BY <2>2 DEF TypeInv, Placed
  <2> QED BY <2>1, <2>2 DEF Visits
<1> QED BY <1>1, <1>2, RowsType DEF TypeInv

LEMMA IdlePlaced ==
  ASSUME stmt' = Idle
  PROVE  /\ stmt' \in [kind : Kinds, rids : SUBSET RID, set : {<<>>}]
         /\ Placed'
BY DEF Idle, Stmt, Kinds, Placed

LEMMA EndsTrxType ==
  ASSUME TypeOK, NEW kind \in {"ROLLBACK", "COMMIT"}, NEW rids \in SUBSET RID, EndsTrx(kind, rids)
  PROVE  /\ stmt' \in [kind : Kinds, rids : SUBSET RID, set : {<<>>}]
         /\ Placed'
         /\ ops' \in [RID -> {"NONE", "INSERT", "UPDATE", "DELETE"}]
<1>1. ops' \in [RID -> {"NONE", "INSERT", "UPDATE", "DELETE"}]
  BY DEF EndsTrx, NoOperations, TypeOK
<1>2. stmt' \in {Idle, Stmt(kind, rids)}
  BY DEF EndsTrx, GoesOn
<1> QED BY <1>1, <1>2 DEF Idle, Stmt, Kinds, Placed

LEMMA DropRowType ==
  ASSUME TypeOK, NEW rid, DropRow(rid)
  PROVE  /\ rows' \in UNION {[x -> Row] : x \in SUBSET RID}
         /\ unindexed' \subseteq RID
         /\ DOMAIN rows' = DOMAIN rows \ {rid}
         /\ \A r \in DOMAIN rows' : rows'[r] = rows[r]
<1>1. rows' \in [DOMAIN rows \ {rid} -> Row]
  BY RowsType DEF DropRow
<1> QED BY <1>1, RowsType, RowsTypeNext DEF DropRow, TypeOK

LEMMA IndexedType ==
  ASSUME TypeOK, NEW row \in Row, NEW rid \in RID, Indexed(row, rid)
  PROVE  /\ rows' \in UNION {[x -> Row] : x \in SUBSET RID}
         /\ entries' \in [DOMAIN indexes -> SUBSET (Value \X RID)]
         /\ DOMAIN rows' = DOMAIN rows \cup {rid}
         /\ \A r \in DOMAIN rows' : rows'[r] = IF r = rid THEN row ELSE rows[r]
<1>1. rows' \in [DOMAIN rows \cup {rid} -> Row]
  BY RowsType DEF Indexed
<1>2. rows' \in UNION {[x -> Row] : x \in SUBSET RID}
  BY <1>1, RowsType, RowsTypeNext
<1>3. entries' \in [DOMAIN indexes -> SUBSET (Value \X RID)]
  BY EntriesType DEF Indexed
<1> QED BY <1>2, <1>3 DEF Indexed

LEMMA TypeInvInit == Init => TypeInv
<1> SUFFICES ASSUME Init PROVE TypeInv
  OBVIOUS
<1>1. rows \in [{} -> Row]
  BY DEF Init
<1>2. rows \in UNION {[x -> Row] : x \in SUBSET RID}
  BY <1>1, RowsTypeNext
<1>3. indexes \in Seq(IndexDefs) /\ Len(indexes) = 0 /\ DOMAIN indexes = {}
  BY DEF Init
<1>4. entries \in [DOMAIN indexes -> SUBSET (Value \X RID)]
  BY <1>3 DEF Init
<1>5. stmt \in [kind : Kinds, rids : SUBSET RID, set : {<<>>}] /\ Placed
  BY DEF Init, Idle, Stmt, Kinds, Placed
<1>6. ops \in [RID -> {"NONE", "INSERT", "UPDATE", "DELETE"}]
  BY DEF Init, NoOperations
<1>7. moved \in BOOLEAN /\ unindexed \subseteq RID
  BY DEF Init
<1>8. faults \in 0 .. MaxFaults /\ Len(indexes) <= MaxIndexes
  BY <1>3, TableAssumption DEF Init
<1> QED BY <1>2, <1>3, <1>4, <1>5, <1>6, <1>7, <1>8 DEF TypeInv, TypeOK

LEMMA InsertType ==
  ASSUME TypeInv, NEW row \in Row, NEW rid \in RID, Insert(row, rid) PROVE TypeInv'
<1>1. TypeOK /\ stmt' = Idle
  BY DEF TypeInv, Insert
<1> QED BY <1>1, IndexedType, IdlePlaced DEF Insert, TypeInv, TypeOK

LEMMA FaultsType ==
  ASSUME TypeOK, NEW es, NEW row, NEW rid, NEW full, TreesFail(es, row, rid, full)
  PROVE  faults' \in 0 .. MaxFaults
BY TableAssumption DEF TreesFail, GetsNoPage, TypeOK

LEMMA InsertFailsType ==
  ASSUME TypeInv, NEW row \in Row, NEW rid \in RID, NEW full, InsertFails(row, rid, full)
  PROVE  TypeInv'
<1>1. TypeOK /\ stmt' = Idle
  BY DEF TypeInv, InsertFails
<1>2. faults' \in 0 .. MaxFaults
  BY <1>1, FaultsType DEF InsertFails
<1>3. entries' \in [DOMAIN indexes -> SUBSET (Value \X RID)]
  BY <1>1, EntriesType DEF InsertFails, Undone
<1> QED BY <1>1, <1>2, <1>3, IdlePlaced DEF InsertFails, Undone, TypeInv, TypeOK

LEMMA UpdateRowsType ==
  ASSUME TypeInv, NEW rid \in DOMAIN rows, NEW new \in Row, rows' = [rows EXCEPT ![rid] = new]
  PROVE  /\ rows' \in UNION {[x -> Row] : x \in SUBSET RID}
         /\ DOMAIN rows' = DOMAIN rows
         /\ \A r \in DOMAIN rows : rows'[r] = IF r = rid THEN new ELSE rows[r]
<1>1. rows' \in [DOMAIN rows -> Row]
  BY RowsType DEF TypeInv
<1> QED BY <1>1, RowsType, RowsTypeNext DEF TypeInv

LEMMA UpdateType ==
  ASSUME TypeInv, NEW rids \in Selected, NEW rid \in RID, NEW set \in Sets, NEW full,
         Update(rids, rid, set, full)
  PROVE  TypeInv'
<1> DEFINE new == SetFields(rows[rid], set)
<1>1. rid \in rids /\ rids \subseteq DOMAIN rows /\ rows[rid] \in Row
  BY SelectedPlaced DEF Update
<1>2. new \in Row
  BY <1>1, SetFieldsType DEF Update
<1>3. rows' \in UNION {[x -> Row] : x \in SUBSET RID} /\ DOMAIN rows' = DOMAIN rows
  BY <1>1, <1>2, UpdateRowsType DEF Update
<1>4. entries' \in [DOMAIN indexes -> SUBSET (Value \X RID)]
  BY <1>2, EntriesType DEF Update, TypeInv
<1>5. rids \subseteq RID
  BY <1>1, RowsType DEF TypeInv
<1>6. /\ stmt' \in [kind : Kinds, rids : SUBSET RID, set : {<<>>}]
                   \cup [kind : {"UPDATE"}, rids : SUBSET RID, set : Sets]
      /\ Placed'
  <2>1. CASE stmt' = Idle
    BY <2>1, IdlePlaced
  <2>2. CASE stmt' = [kind |-> "UPDATE", rids |-> rids \ {rid}, set |-> set]
    BY <2>2, <1>1, <1>3, <1>5 DEF Placed
  <2> QED BY <2>1, <2>2 DEF Update, GoesOn
<1>7. ops' \in [RID -> {"NONE", "INSERT", "UPDATE", "DELETE"}]
  BY DEF Update, TypeInv, TypeOK
<1>8. moved' \in BOOLEAN /\ unindexed' \subseteq RID
  BY DEF Update, TypeInv, TypeOK
<1>9. faults' \in 0 .. MaxFaults
  BY FaultsType DEF Update, TypeInv
<1> QED BY <1>3, <1>4, <1>6, <1>7, <1>8, <1>9 DEF Update, TypeInv, TypeOK

LEMMA UpdateUnloggedType ==
  ASSUME TypeInv, NEW rids \in Selected, NEW rid \in RID, NEW set \in Sets,
         UpdateUnlogged(rids, rid, set)
  PROVE  TypeInv'
<1> DEFINE new == SetFields(rows[rid], set)
<1>1. rid \in rids /\ rids \subseteq DOMAIN rows /\ rows[rid] \in Row
  BY SelectedPlaced DEF UpdateUnlogged
<1>2. new \in Row
  BY <1>1, SetFieldsType DEF UpdateUnlogged
<1>3. rows' \in UNION {[x -> Row] : x \in SUBSET RID}
  BY <1>1, <1>2, UpdateRowsType DEF UpdateUnlogged
<1>4. entries' \in [DOMAIN indexes -> SUBSET (Value \X RID)]
  BY <1>2, EntriesType DEF UpdateUnlogged, TypeInv
<1>5. stmt' = Idle
  BY DEF UpdateUnlogged
<1> QED BY <1>3, <1>4, <1>5, IdlePlaced DEF UpdateUnlogged, TypeInv, TypeOK

LEMMA DeleteType ==
  ASSUME TypeInv, NEW rids \in Selected, NEW rid \in RID,
         Delete(rids, rid) \/ DeleteFails(rids, rid)
  PROVE  TypeInv'
<1>1. rid \in rids /\ rids \subseteq DOMAIN rows /\ rows[rid] \in Row
  BY SelectedPlaced DEF Delete, DeleteFails
<1>2. entries' \in [DOMAIN indexes -> SUBSET (Value \X RID)]
  BY <1>1, EntriesType DEF Delete, DeleteFails, TypeInv
<1>3. rids \subseteq RID
  BY <1>1, RowsType DEF TypeInv
<1>4. CASE Delete(rids, rid)
  <2>1. /\ rows' \in UNION {[x -> Row] : x \in SUBSET RID}
        /\ unindexed' \subseteq RID
        /\ DOMAIN rows' = DOMAIN rows \ {rid}
    BY <1>4, DropRowType DEF Delete, TypeInv
  <2>2. /\ stmt' \in [kind : Kinds, rids : SUBSET RID, set : {<<>>}]
        /\ Placed'
    <3>1. CASE stmt' = Idle
      BY <3>1, IdlePlaced
    <3>2. CASE stmt' = Stmt("DELETE", rids \ {rid})
      BY <3>2, <1>1, <1>3, <2>1 DEF Placed, Stmt, Kinds
    <3> QED BY <1>4, <3>1, <3>2 DEF Delete, GoesOn, Stmt
  <2>3. ops' \in [RID -> {"NONE", "INSERT", "UPDATE", "DELETE"}]
    BY <1>4 DEF Delete, TypeInv, TypeOK
  <2> QED BY <1>2, <1>4, <2>1, <2>2, <2>3 DEF Delete, TypeInv, TypeOK
<1>5. CASE DeleteFails(rids, rid)
  BY <1>2, <1>5, IdlePlaced DEF DeleteFails, TypeInv, TypeOK
<1> QED BY <1>4, <1>5

LEMMA RollbackType ==
  ASSUME TypeInv, Rollback PROVE TypeInv'
<1>1. {rid \in RID : ops[rid] = "INSERT"} \in SUBSET RID
  OBVIOUS
<1> QED BY <1>1, EndsTrxType DEF Rollback, TypeInv, TypeOK

LEMMA RollbackInsertType ==
  ASSUME TypeInv, NEW rid \in RID, RollbackInsert(rid) PROVE TypeInv'
<1>1. stmt.rids \ {rid} \in SUBSET RID
  BY DEF TypeInv, TypeOK
<1>2. TypeOK
  BY DEF TypeInv
<1>3. /\ stmt' \in [kind : Kinds, rids : SUBSET RID, set : {<<>>}]
      /\ Placed'
      /\ ops' \in [RID -> {"NONE", "INSERT", "UPDATE", "DELETE"}]
  BY <1>1, <1>2, EndsTrxType DEF RollbackInsert
<1>4. /\ rows' \in UNION {[x -> Row] : x \in SUBSET RID}
      /\ unindexed' \subseteq RID
  BY <1>2, DropRowType DEF RollbackInsert, TypeOK
<1>5. entries' \in [DOMAIN indexes -> SUBSET (Value \X RID)]
  <2>1. CASE rid \in DOMAIN rows
    BY <2>1, <1>2, RowsType, EntriesType DEF RollbackInsert
  <2>2. CASE rid \notin DOMAIN rows
    BY <2>2, <1>2 DEF RollbackInsert, TypeOK
  <2> QED BY <2>1, <2>2
<1> QED BY <1>3, <1>4, <1>5 DEF RollbackInsert, TypeInv, TypeOK

LEMMA CommitDeleteType ==
  ASSUME TypeInv, NEW rid \in RID, CommitDelete(rid) PROVE TypeInv'
<1>1. stmt.rids \ {rid} \in SUBSET RID
  BY DEF TypeInv, TypeOK
<1>2. TypeOK
  BY DEF TypeInv
<1>3. /\ stmt' \in [kind : Kinds, rids : SUBSET RID, set : {<<>>}]
      /\ Placed'
      /\ ops' \in [RID -> {"NONE", "INSERT", "UPDATE", "DELETE"}]
  BY <1>1, <1>2, EndsTrxType DEF CommitDelete
<1>4. /\ rows' \in UNION {[x -> Row] : x \in SUBSET RID}
      /\ unindexed' \subseteq RID
  BY <1>2, DropRowType DEF CommitDelete, TypeOK
<1>5. entries' \in [DOMAIN indexes -> SUBSET (Value \X RID)]
  <2>1. CASE rid \in DOMAIN rows
    BY <2>1, <1>2, RowsType, EntriesType DEF CommitDelete
  <2>2. CASE rid \notin DOMAIN rows
    BY <2>2, <1>2 DEF CommitDelete, TypeOK
  <2> QED BY <2>1, <2>2
<1> QED BY <1>3, <1>4, <1>5 DEF CommitDelete, TypeInv, TypeOK

LEMMA LoadRowType ==
  ASSUME TypeInv, NEW row \in Row, NEW rid \in RID, LoadRow(row, rid) PROVE TypeInv'
<1>1. TypeOK
  BY DEF TypeInv
<1> QED BY <1>1, IndexedType DEF LoadRow, TypeInv, TypeOK, Placed, Stmt, Kinds

LEMMA LoadFailsType ==
  ASSUME TypeInv, NEW row \in Row, NEW rid \in RID, NEW full, LoadFails(row, rid, full)
  PROVE  TypeInv'
<1>1. TypeOK
  BY DEF TypeInv
<1>3. faults' \in 0 .. MaxFaults
  BY <1>1, FaultsType DEF LoadFails
<1>2. entries' \in [DOMAIN indexes -> SUBSET (Value \X RID)]
  BY <1>1, EntriesType DEF LoadFails, Undone
<1> QED BY <1>2, <1>3 DEF LoadFails, Undone, TypeInv, TypeOK, Placed, Stmt, Kinds

LEMMA LoadRefusedType ==
  ASSUME TypeInv, NEW row, LoadRefused(row) PROVE TypeInv'
BY DEF LoadRefused, TypeInv, TypeOK, Placed, Stmt, Kinds

LEMMA EndLoadType ==
  ASSUME TypeInv, NEW multi \in BOOLEAN, EndLoad(multi) PROVE TypeInv'
<1>1. {rid \in RID : ops[rid] = "DELETE"} \in SUBSET RID
  OBVIOUS
<1>2. CASE multi
  BY <1>2, IdlePlaced DEF EndLoad, TypeInv, TypeOK
<1>3. CASE ~ multi
  BY <1>1, <1>3, EndsTrxType DEF EndLoad, TypeInv, TypeOK
<1> QED BY <1>2, <1>3

LEMMA UpdateFailsType ==
  ASSUME TypeInv, NEW rid, UpdateFails(rid) PROVE TypeInv'
BY IdlePlaced DEF UpdateFails, TypeInv, TypeOK

(* The new index is the last, and the others keep their entries. *)
LEMMA CreateIndexIs ==
  ASSUME TypeInv, NEW ix \in IndexDefs, CreateIndex(ix)
  PROVE  /\ Len(indexes') = Len(indexes) + 1 /\ indexes' \in Seq(IndexDefs)
         /\ DOMAIN indexes' = DOMAIN indexes \cup {Len(indexes) + 1}
         /\ DOMAIN entries' = DOMAIN indexes'
         /\ \A i \in DOMAIN indexes : indexes'[i] = indexes[i] /\ entries'[i] = entries[i]
         /\ indexes'[Len(indexes) + 1] = ix
         /\ entries'[Len(indexes) + 1] = {EntryOf(ix, rows[rid], rid) : rid \in DOMAIN rows}
         /\ entries' \in [DOMAIN indexes' -> SUBSET (Value \X RID)]
<1> DEFINE S == SUBSET (Value \X RID)
           es == {EntryOf(ix, rows[rid], rid) : rid \in DOMAIN rows}
<1>1. indexes \in Seq(IndexDefs) /\ entries \in [1 .. Len(indexes) -> S]
  BY DEF TypeInv, TypeOK
<1>2. entries \in Seq(S) /\ Len(entries) = Len(indexes)
  BY <1>1
<1>3. es \in S
  BY RowsType, EntryType DEF TypeInv
<1> HIDE DEF S, es
<1>4. indexes' = Append(indexes, ix) /\ entries' = Append(entries, es)
  BY DEF CreateIndex, es
<1>5. /\ entries' \in Seq(S) /\ Len(entries') = Len(indexes) + 1
      /\ \A i \in 1 .. Len(indexes) : entries'[i] = entries[i]
      /\ entries'[Len(indexes) + 1] = es
  BY <1>2, <1>3, <1>4
<1>6. /\ indexes' \in Seq(IndexDefs) /\ Len(indexes') = Len(indexes) + 1
      /\ \A i \in 1 .. Len(indexes) : indexes'[i] = indexes[i]
      /\ indexes'[Len(indexes) + 1] = ix
  BY <1>1, <1>4
<1>7. DOMAIN indexes = 1 .. Len(indexes) /\ Len(indexes) \in Nat
  BY <1>1
<1>8. DOMAIN indexes' = 1 .. Len(indexes) + 1 /\ DOMAIN entries' = 1 .. Len(indexes) + 1
  BY <1>5, <1>6
<1>9. entries' \in [DOMAIN indexes' -> S]
  BY <1>5, <1>8, <1>7
<1>10. 1 .. Len(indexes) + 1 = (1 .. Len(indexes)) \cup {Len(indexes) + 1}
  BY <1>7
<1> QED BY <1>5, <1>6, <1>7, <1>8, <1>9, <1>10 DEF S, es

LEMMA CreateIndexType ==
  ASSUME TypeInv, NEW ix \in IndexDefs, CreateIndex(ix) PROVE TypeInv'
<1>1. Len(indexes') <= MaxIndexes
  BY CreateIndexIs, IndexType, TableAssumption DEF CreateIndex, TypeInv
<1> QED BY <1>1, CreateIndexIs, IdlePlaced DEF CreateIndex, TypeInv, TypeOK

LEMMA TypeInvNext == TypeInv /\ [Next]_vars => TypeInv'
<1> SUFFICES ASSUME TypeInv, [Next]_vars PROVE TypeInv'
  OBVIOUS
<1>1. CASE UNCHANGED vars
  BY <1>1 DEF vars, TypeInv, TypeOK, Placed
<1>2. CASE Next
  BY <1>2, InsertType, InsertFailsType, LoadRowType, LoadFailsType, LoadRefusedType, EndLoadType,
     UpdateType, UpdateUnloggedType, DeleteType, UpdateFailsType, CommitDeleteType,
     RollbackInsertType, CreateIndexType, RollbackType DEF Next
<1> QED BY <1>1, <1>2

(* Rows, indexes, entries, operations and the statement under way have     *)
(* their types: in particular an UPDATE or a DELETE never visits a row     *)
(* that is gone, and sets NULL only where the field is nullable.           *)
THEOREM TableTypeCorrect == Spec => []TypeOK
<1>1. TypeInv => TypeOK
  BY DEF TypeInv
<1> QED BY <1>1, TypeInvInit, TypeInvNext, PTL DEF Spec

-----------------------------------------------------------------------------
(* Every row is in every index *)

LEMMA OthersKept ==
  ASSUME TypeOK, NEW row, NEW rid, NEW full, NEW other, NEW r, r # rid, NEW i \in DOMAIN indexes
  PROVE  LET e == EntryOf(indexes[i], other, r) IN
         e \in entries[i] =>
           /\ e \in InsertEntries(entries, row, rid, full)[i]
           /\ e \in DeleteEntries(entries, row, rid)[i]
           /\ e \in Compensate(InsertEntries(entries, row, rid, full), row, rid)[i]
           /\ e \in UpdateEntries(entries, row, rid, full)[i]
<1> DEFINE del == DeleteEntries(entries, row, rid)
<1>1. i \in DOMAIN entries
  BY IndexType
<1>2. EntryOf(indexes[i], other, r) # EntryOf(indexes[i], row, rid)
  BY EntryDiffers
<1>3. i \in DOMAIN del
  BY <1>1, DeleteEntriesIs
<1>4. del[i] = entries[i] \/ del[i] = entries[i] \ {EntryOf(indexes[i], row, rid)}
  BY <1>1, DeleteEntriesIs
<1>5. UpdateEntries(entries, row, rid, full)[i] \in {del[i], del[i] \cup {EntryOf(indexes[i], row, rid)}}
  BY <1>3, InsertEntriesIs DEF UpdateEntries
<1>6. Compensate(InsertEntries(entries, row, rid, full), row, rid)[i]
        \in {entries[i], entries[i] \ {EntryOf(indexes[i], row, rid)}}
  BY <1>1, IndexType, CompensateIs
<1> QED BY <1>1, <1>2, <1>4, <1>5, <1>6, InsertEntriesIs

(* A step that changes the row and the entries of one rid only, and leaves *)
(* that row in every index, out of the table or counted as unindexed.      *)
LEMMA CoversFromOne ==
  ASSUME TypeOK, IndexCovers, UNCHANGED indexes, NEW rid,
         \A r \in DOMAIN rows' \ {rid} : r \in DOMAIN rows /\ rows'[r] = rows[r],
         unindexed \ {rid} \subseteq unindexed',
         \A i \in DOMAIN indexes, r \in DOMAIN rows \ {rid} :
           EntryOf(indexes[i], rows[r], r) \in entries[i]
             => EntryOf(indexes[i], rows[r], r) \in entries'[i],
         rid \in DOMAIN rows' \ unindexed' =>
           \A i \in DOMAIN indexes : EntryOf(indexes[i], rows'[rid], rid) \in entries'[i]
  PROVE  IndexCovers'
<1> SUFFICES ASSUME NEW i \in DOMAIN indexes, NEW r \in DOMAIN rows' \ unindexed'
             PROVE  EntryOf(indexes[i], rows'[r], r) \in entries'[i]
  BY DEF IndexCovers, EntryOf, KeyOf, IndexFields
<1>1. CASE r = rid
  BY <1>1
<1>2. CASE r # rid
  <2>1. r \in DOMAIN rows \ unindexed /\ rows'[r] = rows[r]
    BY <1>2
  <2> QED BY <1>2, <2>1 DEF IndexCovers
<1> QED BY <1>1, <1>2

LEMMA CoversUnchanged ==
  ASSUME IndexCovers, UNCHANGED <<rows, indexes, entries, unindexed>>
  PROVE  IndexCovers'
BY DEF IndexCovers, EntryOf, KeyOf, IndexFields

LEMMA IndexedCovers ==
  ASSUME TypeOK, IndexCovers, UNCHANGED <<indexes, unindexed>>, NEW row \in Row, NEW rid \in RID,
         Indexed(row, rid)
  PROVE  IndexCovers'
<1>1. /\ DOMAIN rows' = DOMAIN rows \cup {rid}
      /\ \A r \in DOMAIN rows' : rows'[r] = IF r = rid THEN row ELSE rows[r]
  BY IndexedType
<1>2. \A i \in DOMAIN indexes : EntryOf(indexes[i], row, rid) \in entries'[i]
  BY IndexType, InsertEntriesIs DEF Indexed
<1>3. \A i \in DOMAIN indexes, r \in DOMAIN rows \ {rid} :
        EntryOf(indexes[i], rows[r], r) \in entries[i]
          => EntryOf(indexes[i], rows[r], r) \in entries'[i]
  BY OthersKept DEF Indexed
<1> QED BY <1>1, <1>2, <1>3, CoversFromOne

LEMMA UndoneCovers ==
  ASSUME TypeOK, IndexCovers, UNCHANGED <<indexes, unindexed>>, NEW row, NEW rid, NEW full,
         rid \notin DOMAIN rows, Undone(row, rid, full)
  PROVE  IndexCovers'
<1>1. rows' = rows
  BY DEF Undone
<1>2. \A i \in DOMAIN indexes, r \in DOMAIN rows \ {rid} :
        EntryOf(indexes[i], rows[r], r) \in entries[i]
          => EntryOf(indexes[i], rows[r], r) \in entries'[i]
  BY OthersKept DEF Undone
<1> QED BY <1>1, <1>2, CoversFromOne

LEMMA DropCovers ==
  ASSUME TypeOK, IndexCovers, UNCHANGED indexes, NEW rid \in DOMAIN rows, DropRow(rid),
         entries' = DeleteEntries(entries, rows[rid], rid)
  PROVE  IndexCovers'
<1>1. /\ DOMAIN rows' = DOMAIN rows \ {rid}
      /\ \A r \in DOMAIN rows' : rows'[r] = rows[r]
  BY DropRowType
<1>2. \A i \in DOMAIN indexes, r \in DOMAIN rows \ {rid} :
        EntryOf(indexes[i], rows[r], r) \in entries[i]
          => EntryOf(indexes[i], rows[r], r) \in entries'[i]
  BY OthersKept
<1>3. unindexed' = unindexed \ {rid}
  BY DEF DropRow
<1> QED BY <1>1, <1>2, <1>3, CoversFromOne

(* A deletion that fails for want of an entry is of an unindexed row. *)
LEMMA LacksCovers ==
  ASSUME TypeOK, IndexCovers, UNCHANGED <<rows, indexes, unindexed>>, NEW rid \in DOMAIN rows,
         Lacks(entries, rows[rid], rid) # {},
         entries' = DeleteEntries(entries, rows[rid], rid)
  PROVE  IndexCovers'
<1>1. rid \in unindexed
  BY IndexType DEF Lacks, IndexCovers
<1>2. \A i \in DOMAIN indexes, r \in DOMAIN rows \ {rid} :
        EntryOf(indexes[i], rows[r], r) \in entries[i]
          => EntryOf(indexes[i], rows[r], r) \in entries'[i]
  BY OthersKept
<1> QED BY <1>1, <1>2, CoversFromOne

LEMMA UpdateCovers ==
  ASSUME TypeInv, MaxIndexes <= 2, IndexCovers, NEW rids \in Selected, NEW rid \in RID,
         NEW set \in Sets, NEW full,
         Update(rids, rid, set, full)
  PROVE  IndexCovers'
<1> DEFINE new == SetFields(rows[rid], set)
<1>1. rid \in DOMAIN rows /\ rows[rid] \in Row
  BY SelectedPlaced DEF Update
<1>2. new \in Row
  BY <1>1, SetFieldsType DEF Update
<1>3. /\ DOMAIN rows' = DOMAIN rows
      /\ \A r \in DOMAIN rows : rows'[r] = IF r = rid THEN new ELSE rows[r]
  BY <1>1, <1>2, UpdateRowsType DEF Update
<1>4. TypeOK /\ UNCHANGED indexes /\ entries' = UpdateEntries(entries, new, rid, full)
  BY DEF TypeInv, Update
<1>5. full = 0 => \A i \in DOMAIN indexes : EntryOf(indexes[i], new, rid) \in entries'[i]
  BY <1>4, UpdateEntriesCover
<1>6. \A i \in DOMAIN indexes, r \in DOMAIN rows \ {rid} :
        EntryOf(indexes[i], rows[r], r) \in entries[i]
          => EntryOf(indexes[i], rows[r], r) \in entries'[i]
  BY <1>4, OthersKept
<1>7. unindexed' = IF full = 0 THEN unindexed \ {rid} ELSE unindexed \cup {rid}
  BY DEF Update
<1> QED BY <1>1, <1>3, <1>4, <1>5, <1>6, <1>7, CoversFromOne

LEMMA UpdateUnloggedCovers ==
  ASSUME TypeInv, IndexCovers, NEW rids \in Selected, NEW rid \in RID, NEW set \in Sets,
         UpdateUnlogged(rids, rid, set)
  PROVE  IndexCovers'
<1> DEFINE new == SetFields(rows[rid], set)
<1>1. rid \in DOMAIN rows /\ rows[rid] \in Row
  BY SelectedPlaced DEF UpdateUnlogged
<1>2. new \in Row
  BY <1>1, SetFieldsType DEF UpdateUnlogged
<1>3. /\ DOMAIN rows' = DOMAIN rows
      /\ \A r \in DOMAIN rows : rows'[r] = IF r = rid THEN new ELSE rows[r]
  BY <1>1, <1>2, UpdateRowsType DEF UpdateUnlogged
<1>4. TypeOK /\ UNCHANGED indexes /\ entries' = DeleteEntries(entries, new, rid)
  BY DEF TypeInv, UpdateUnlogged
<1>5. \A i \in DOMAIN indexes, r \in DOMAIN rows \ {rid} :
        EntryOf(indexes[i], rows[r], r) \in entries[i]
          => EntryOf(indexes[i], rows[r], r) \in entries'[i]
  BY <1>4, OthersKept
<1>6. unindexed' = unindexed \cup {rid}
  BY DEF UpdateUnlogged
<1> QED BY <1>1, <1>3, <1>4, <1>5, <1>6, CoversFromOne

LEMMA CreateIndexCovers ==
  ASSUME TypeInv, IndexCovers, NEW ix \in IndexDefs, CreateIndex(ix) PROVE IndexCovers'
<1>1. rows' = rows /\ unindexed' = unindexed
  BY DEF CreateIndex
<1> SUFFICES ASSUME NEW i \in DOMAIN indexes', NEW r \in DOMAIN rows \ unindexed
             PROVE  EntryOf(indexes'[i], rows[r], r) \in entries'[i]
  BY <1>1 DEF IndexCovers, EntryOf, KeyOf, IndexFields
<1>2. CASE i \in DOMAIN indexes
  BY <1>2, CreateIndexIs DEF IndexCovers
<1>3. CASE i = Len(indexes) + 1
  BY <1>3, CreateIndexIs
<1> QED BY <1>2, <1>3, CreateIndexIs

LEMMA CoversNext ==
  ASSUME MaxIndexes <= 2
  PROVE  TypeInv /\ IndexCovers /\ [Next]_vars => IndexCovers'
<1> SUFFICES ASSUME TypeInv, IndexCovers, [Next]_vars PROVE IndexCovers'
  OBVIOUS
<1>0. TypeOK
  BY DEF TypeInv
<1>1. ASSUME NEW row \in Row, NEW rid \in RID, Insert(row, rid) \/ LoadRow(row, rid)
      PROVE  IndexCovers'
  BY <1>0, <1>1, IndexedCovers DEF Insert, LoadRow
<1>2. ASSUME NEW row \in Row, NEW rid \in RID, NEW full,
             InsertFails(row, rid, full) \/ LoadFails(row, rid, full)
      PROVE  IndexCovers'
  BY <1>0, <1>2, UndoneCovers DEF InsertFails, LoadFails, CanInsert, IsFirst
<1>3. ASSUME NEW rids \in Selected, NEW rid \in RID, Delete(rids, rid) PROVE IndexCovers'
  <2>1. rid \in DOMAIN rows
    BY <1>3, SelectedPlaced DEF Delete
  <2> QED BY <1>0, <1>3, <2>1, DropCovers DEF Delete
<1>4. ASSUME NEW rids \in Selected, NEW rid \in RID, DeleteFails(rids, rid) PROVE IndexCovers'
  <2>1. rid \in DOMAIN rows
    BY <1>4, SelectedPlaced DEF DeleteFails
  <2> QED BY <1>0, <1>4, <2>1, LacksCovers DEF DeleteFails
<1>5. ASSUME NEW rid \in RID, RollbackInsert(rid) PROVE IndexCovers'
  BY <1>0, <1>5, DropCovers, LacksCovers, CoversUnchanged DEF RollbackInsert
<1>6. ASSUME NEW rid \in RID, CommitDelete(rid) PROVE IndexCovers'
  BY <1>0, <1>6, DropCovers, CoversUnchanged DEF CommitDelete
<1>7. ASSUME UNCHANGED vars \/ Rollback \/ (\E row \in Row : LoadRefused(row))
               \/ (\E multi \in BOOLEAN : EndLoad(multi)) \/ (\E rid \in RID : UpdateFails(rid))
      PROVE  IndexCovers'
  BY <1>7, CoversUnchanged DEF vars, Rollback, LoadRefused, EndLoad, UpdateFails
<1> QED BY <1>1, <1>2, <1>3, <1>4, <1>5, <1>6, <1>7, UpdateCovers, UpdateUnloggedCovers,
           CreateIndexCovers DEF Next

(* With up to two indexes every row is in every index under its current    *)
(* key, after each row of each statement and whatever INSERTs and LOADs    *)
(* failed before; except for the rows that an UPDATE changed and then left *)
(* out, refused by the Trx or for want of a page of some tree, and that no *)
(* later UPDATE has put back.                                              *)
THEOREM IndexCoversCorrect ==
  ASSUME MaxIndexes <= 2 PROVE Spec => []IndexCovers
<1>1. Init => IndexCovers
  BY DEF Init, IndexCovers
<1>2. TypeInv /\ IndexCovers /\ [Next]_vars => IndexCovers'
  BY CoversNext
<1> QED BY <1>1, <1>2, TypeInvInit, TypeInvNext, PTL DEF Spec

-----------------------------------------------------------------------------
(* Until an UPDATE moves a key the entries are exactly those of the rows *)

LEMMA ExactHas ==
  ASSUME TypeOK, IndexExact, ~ moved, NEW rid \in DOMAIN rows
  PROVE  /\ Lacks(entries, rows[rid], rid) = {}
         /\ \A i \in DOMAIN indexes : EntryOf(indexes[i], rows[rid], rid) \in entries[i]
BY IndexType DEF IndexExact, Lacks

LEMMA ExactHasNot ==
  ASSUME TypeOK, IndexExact, ~ moved, NEW rid, rid \notin DOMAIN rows, NEW row,
         NEW i \in DOMAIN indexes
  PROVE  EntryOf(indexes[i], row, rid) \notin entries[i]
BY EntryDiffers DEF IndexExact

LEMMA ExactUnchanged ==
  ASSUME IndexExact, UNCHANGED <<rows, indexes, entries, moved>>
  PROVE  IndexExact'
BY DEF IndexExact, EntryOf, KeyOf, IndexFields

(* What remains to be shown of a step that leaves the indexes as they are. *)
LEMMA ExactSuffices ==
  ASSUME UNCHANGED indexes,
         ~ moved' => \A i \in DOMAIN indexes :
           entries'[i] = {EntryOf(indexes[i], rows'[rid], rid) : rid \in DOMAIN rows'}
  PROVE  IndexExact'
BY DEF IndexExact, EntryOf, KeyOf, IndexFields

LEMMA IndexedExact ==
  ASSUME TypeOK, IndexExact, UNCHANGED <<indexes, moved>>, NEW row \in Row, NEW rid \in RID,
         rid \notin DOMAIN rows, Indexed(row, rid)
  PROVE  IndexExact'
<1> SUFFICES ASSUME ~ moved, NEW i \in DOMAIN indexes
             PROVE  entries'[i] = {EntryOf(indexes[i], rows'[r], r) : r \in DOMAIN rows'}
  BY ExactSuffices
<1>1. /\ DOMAIN rows' = DOMAIN rows \cup {rid}
      /\ \A r \in DOMAIN rows' : rows'[r] = IF r = rid THEN row ELSE rows[r]
  BY IndexedType
<1>2. entries'[i] = entries[i] \cup {EntryOf(indexes[i], row, rid)}
  BY IndexType, InsertEntriesIs DEF Indexed
<1>3. entries[i] = {EntryOf(indexes[i], rows[r], r) : r \in DOMAIN rows}
  BY DEF IndexExact
<1>4. \A r \in DOMAIN rows : rows'[r] = rows[r]
  BY <1>1
<1>5. rows'[rid] = row
  BY <1>1
<1> QED BY <1>1, <1>2, <1>3, <1>4, <1>5

LEMMA UndoneExact ==
  ASSUME TypeOK, IndexExact, UNCHANGED <<indexes, moved>>, NEW row, NEW rid, NEW full,
         rid \notin DOMAIN rows, Undone(row, rid, full)
  PROVE  IndexExact'
<1> SUFFICES ASSUME ~ moved, NEW i \in DOMAIN indexes
             PROVE  entries'[i] = {EntryOf(indexes[i], rows'[r], r) : r \in DOMAIN rows'}
  BY ExactSuffices
<1>1. entries'[i] \in {entries[i], entries[i] \ {EntryOf(indexes[i], row, rid)}}
  BY IndexType, CompensateIs DEF Undone
<1>2. entries'[i] = entries[i]
  BY <1>1, ExactHasNot
<1> QED BY <1>2 DEF Undone, IndexExact

LEMMA DropExact ==
  ASSUME TypeOK, IndexExact, UNCHANGED <<indexes, moved>>, NEW rid \in DOMAIN rows, DropRow(rid),
         entries' = DeleteEntries(entries, rows[rid], rid)
  PROVE  IndexExact'
<1> SUFFICES ASSUME ~ moved, NEW i \in DOMAIN indexes
             PROVE  entries'[i] = {EntryOf(indexes[i], rows'[r], r) : r \in DOMAIN rows'}
  BY ExactSuffices
<1>1. /\ DOMAIN rows' = DOMAIN rows \ {rid}
      /\ \A r \in DOMAIN rows' : rows'[r] = rows[r]
  BY DropRowType
<1>2. entries'[i] = entries[i] \ {EntryOf(indexes[i], rows[rid], rid)}
  BY IndexType, DeleteEntriesIs, ExactHas
<1>3. entries[i] = {EntryOf(indexes[i], rows[r], r) : r \in DOMAIN rows}
  BY DEF IndexExact
<1>4. \A r \in DOMAIN rows' : EntryOf(indexes[i], rows[r], r) # EntryOf(indexes[i], rows[rid], rid)
  BY <1>1, EntryDiffers
<1> QED BY <1>1, <1>2, <1>3, <1>4

(* An UPDATE that moves no key takes out every entry of the row and puts   *)
(* it back.                                                                *)
LEMMA UpdateExact ==
  ASSUME TypeInv, IndexExact, NEW rids \in Selected, NEW rid \in RID, NEW set \in Sets,
         NEW full, Update(rids, rid, set, full)
  PROVE  IndexExact'
<1> DEFINE new == SetFields(rows[rid], set)
           del == DeleteEntries(entries, new, rid)
<1>1. rid \in DOMAIN rows /\ rows[rid] \in Row /\ TypeOK
  BY SelectedPlaced DEF Update, TypeInv
<1>2. new \in Row
  BY <1>1, SetFieldsType DEF Update
<1>3. /\ DOMAIN rows' = DOMAIN rows
      /\ \A r \in DOMAIN rows : rows'[r] = IF r = rid THEN new ELSE rows[r]
  BY <1>1, <1>2, UpdateRowsType DEF Update
<1>4. entries' = InsertEntries(del, new, rid, full) /\ UNCHANGED indexes
  BY DEF Update, UpdateEntries
<1> SUFFICES ASSUME ~ moved', NEW i \in DOMAIN indexes
             PROVE  entries'[i] = {EntryOf(indexes[i], rows'[r], r) : r \in DOMAIN rows'}
  BY <1>4, ExactSuffices
<1>5. ~ moved /\ full = 0 /\ \A j \in DOMAIN indexes : KeyOf(indexes[j], new) = KeyOf(indexes[j], rows[rid])
  BY DEF Update
<1> HIDE DEF new
<1>6. \A j \in DOMAIN indexes : EntryOf(indexes[j], new, rid) = EntryOf(indexes[j], rows[rid], rid)
  BY <1>5 DEF EntryOf
<1>7. /\ DOMAIN entries = DOMAIN indexes /\ 0 \notin DOMAIN indexes
      /\ \A j \in DOMAIN indexes : EntryOf(indexes[j], new, rid) \in entries[j]
  BY <1>1, <1>5, <1>6, ExactHas, IndexType
<1>8. Lacks(entries, new, rid) = {}
  BY <1>7 DEF Lacks
<1>9. /\ DOMAIN del = DOMAIN indexes
      /\ \A j \in DOMAIN indexes : del[j] = entries[j] \ {EntryOf(indexes[j], new, rid)}
  BY <1>7, <1>8, DeleteEntriesIs DEF DeleteEntries
<1> HIDE DEF del
<1>10. Refuses(del, new, rid, 0) = {}
  BY <1>7, <1>9 DEF Refuses
<1>11. entries'[i] = del[i] \cup {EntryOf(indexes[i], new, rid)}
  BY <1>4, <1>5, <1>9, <1>10, InsertEntriesIs
<1>12. entries'[i] = entries[i]
  BY <1>7, <1>9, <1>11
<1>13. \A r \in DOMAIN rows : EntryOf(indexes[i], rows'[r], r) = EntryOf(indexes[i], rows[r], r)
  BY <1>3, <1>6
<1> QED BY <1>3, <1>5, <1>12, <1>13 DEF IndexExact

LEMMA CreateIndexExact ==
  ASSUME TypeInv, IndexExact, NEW ix \in IndexDefs, CreateIndex(ix) PROVE IndexExact'
<1>1. rows' = rows /\ moved' = moved
  BY DEF CreateIndex
<1> SUFFICES ASSUME ~ moved, NEW i \in DOMAIN indexes'
             PROVE  entries'[i] = {EntryOf(indexes'[i], rows[r], r) : r \in DOMAIN rows}
  BY <1>1 DEF IndexExact, EntryOf, KeyOf, IndexFields
<1>2. CASE i \in DOMAIN indexes
  BY <1>2, CreateIndexIs DEF IndexExact
<1>3. CASE i = Len(indexes) + 1
  BY <1>3, CreateIndexIs
<1> QED BY <1>2, <1>3, CreateIndexIs

LEMMA ExactNext == TypeInv /\ IndexExact /\ [Next]_vars => IndexExact'
<1> SUFFICES ASSUME TypeInv, IndexExact, [Next]_vars PROVE IndexExact'
  OBVIOUS
<1>0. TypeOK
  BY DEF TypeInv
<1>1. ASSUME NEW row \in Row, NEW rid \in RID, Insert(row, rid) \/ LoadRow(row, rid)
      PROVE  IndexExact'
  BY <1>0, <1>1, IndexedExact DEF Insert, LoadRow, CanInsert, IsFirst
<1>2. ASSUME NEW row \in Row, NEW rid \in RID, NEW full,
             InsertFails(row, rid, full) \/ LoadFails(row, rid, full)
      PROVE  IndexExact'
  BY <1>0, <1>2, UndoneExact DEF InsertFails, LoadFails, CanInsert, IsFirst
<1>3. ASSUME NEW rids \in Selected, NEW rid \in RID, Delete(rids, rid) PROVE IndexExact'
  <2>1. rid \in DOMAIN rows
    BY <1>3, SelectedPlaced DEF Delete
  <2> QED BY <1>0, <1>3, <2>1, DropExact DEF Delete
<1>4. ASSUME NEW rids \in Selected, NEW rid \in RID, DeleteFails(rids, rid) PROVE IndexExact'
  <2>1. rid \in DOMAIN rows
    BY <1>4, SelectedPlaced DEF DeleteFails
  <2>2. moved
    BY <1>0, <1>4, <2>1, ExactHas DEF DeleteFails
  <2> QED BY <1>4, <2>2, ExactSuffices DEF DeleteFails
<1>5. ASSUME NEW rid \in RID, RollbackInsert(rid) PROVE IndexExact'
  <2>1. CASE rid \notin DOMAIN rows
    BY <1>5, <2>1, ExactUnchanged DEF RollbackInsert
  <2>2. CASE rid \in DOMAIN rows /\ Lacks(entries, rows[rid], rid) = {}
    BY <1>0, <1>5, <2>2, DropExact DEF RollbackInsert
  <2>3. CASE rid \in DOMAIN rows /\ Lacks(entries, rows[rid], rid) # {}
    <3>1. moved
      BY <1>0, <2>3, ExactHas
    <3> QED BY <1>5, <3>1, ExactSuffices DEF RollbackInsert
  <2> QED BY <2>1, <2>2, <2>3
<1>6. ASSUME NEW rid \in RID, CommitDelete(rid) PROVE IndexExact'
  BY <1>0, <1>6, DropExact, ExactUnchanged DEF CommitDelete
<1>7. ASSUME NEW rids, NEW rid, NEW set, UpdateUnlogged(rids, rid, set) PROVE IndexExact'
  BY <1>7, ExactSuffices DEF UpdateUnlogged
<1>8. ASSUME UNCHANGED vars \/ Rollback \/ (\E row \in Row : LoadRefused(row))
               \/ (\E multi \in BOOLEAN : EndLoad(multi)) \/ (\E rid \in RID : UpdateFails(rid))
      PROVE  IndexExact'
  BY <1>8, ExactUnchanged DEF vars, Rollback, LoadRefused, EndLoad, UpdateFails
<1> QED BY <1>1, <1>2, <1>3, <1>4, <1>5, <1>6, <1>7, <1>8, UpdateExact, CreateIndexExact DEF Next

(* As long as no UPDATE has moved a key or left a row out, each of any     *)
(* number of indexes holds the entries of the rows of the table and        *)
(* nothing else, whatever INSERTs were compensated, rolled back or loaded: *)
(* the part of IndexSelect that is about the tables and not about the      *)
(* order of a scan.                                                        *)
THEOREM IndexExactCorrect == Spec => []IndexExact
<1>1. Init => IndexExact
  BY DEF Init, IndexExact
<1> QED BY <1>1, ExactNext, TypeInvInit, TypeInvNext, PTL DEF Spec

-----------------------------------------------------------------------------
(* The order of a scan *)

Entries == Int \X Int

LEMMA BeforeOrders ==
  ASSUME NEW e \in Entries, NEW f \in Entries, NEW g \in Entries
  PROVE  /\ e = f \/ Before(e, f) \/ Before(f, e)
         /\ Before(e, f) /\ Before(f, g) => Before(e, g)
<1>1. /\ e = <<e[1], e[2]>> /\ f = <<f[1], f[2]>>
      /\ e[1] \in Int /\ e[2] \in Int /\ f[1] \in Int /\ f[2] \in Int /\ g[1] \in Int /\ g[2] \in Int
  BY DEF Entries
<1> QED BY <1>1 DEF Before

(* A set of numbers that is not empty has a least one. *)
LEMMA LeastExists ==
  ASSUME NEW T \in SUBSET Nat, T # {}
  PROVE  \E m \in T : \A k \in T : m <= k
<1> DEFINE R == OpToRel(<, Nat)
<1>1. IsWellFoundedOn(R, Nat)
  BY NatLessThanWellFounded
<1> HIDE DEF R
<1>2. PICK m \in T : \A k \in T : ~ (<<k, m>> \in R)
  BY <1>1, WFMin
<1>3. \A k \in T : m <= k
  <2> SUFFICES ASSUME NEW k \in T PROVE m <= k
    OBVIOUS
  <2>1. ~ (k < m)
    BY <1>2 DEF R, OpToRel
  <2> QED BY <2>1
<1> QED BY <1>2, <1>3

(* A finite set of entries has a last one. *)
LEMMA LastEntryExists ==
  ASSUME NEW S \in SUBSET Entries, IsFiniteSet(S), S # {}
  PROVE  \E e \in S : \A f \in S \ {e} : Before(f, e)
<1> DEFINE HasLast(X) == \E e \in X : \A f \in X \ {e} : Before(f, e)
           Bad(X) == IsFiniteSet(X) /\ X # {} /\ ~ HasLast(X)
           T == {n \in Nat : \E X \in SUBSET Entries : Bad(X) /\ Cardinality(X) = n}
<1>1. SUFFICES ASSUME T # {} PROVE FALSE
  <2>1. Cardinality(S) \in Nat
    BY FS_CardinalityType
  <2> QED BY <2>1
<1>2. PICK m \in T : \A k \in T : m <= k
  BY <1>1, LeastExists
<1>3. PICK X \in SUBSET Entries : Bad(X) /\ Cardinality(X) = m
  BY <1>2
<1>4. PICK e \in X : TRUE
  BY <1>3
<1> DEFINE Y == X \ {e}
<1>5. IsFiniteSet(Y) /\ Cardinality(Y) = m - 1 /\ Cardinality(Y) \in Nat /\ m \in Nat
  <2>1. IsFiniteSet(Y) /\ Cardinality(Y) = m - 1
    BY <1>3, <1>4, FS_RemoveElement
  <2> QED BY <1>2, <2>1, FS_CardinalityType
<1>6. Y # {}
  <2>1. ASSUME Y = {} PROVE HasLast(X)
    BY <1>4, <2>1
  <2> QED BY <1>3, <2>1
<1>7. HasLast(Y)
  <2>1. ~ (m <= m - 1)
    BY <1>5
  <2>2. m - 1 \notin T
    BY <1>2, <2>1
  <2> QED BY <1>5, <1>6, <2>2
<1>8. PICK f \in Y : \A g \in Y \ {f} : Before(g, f)
  BY <1>7
<1>9. CASE Before(e, f)
  <2>1. \A g \in X \ {f} : Before(g, f)
    BY <1>8, <1>9
  <2> QED BY <1>3, <1>8, <2>1
<1>10. CASE Before(f, e)
  <2>1. \A g \in X \ {e} : Before(g, e)
    <3> SUFFICES ASSUME NEW g \in X \ {e} PROVE Before(g, e)
      OBVIOUS
    <3>1. g = f \/ Before(g, f)
      BY <1>8
    <3> QED BY <1>4, <1>8, <1>10, <3>1, BeforeOrders
  <2> QED BY <1>3, <1>4, <2>1
<1> QED BY <1>4, <1>8, <1>9, <1>10, BeforeOrders

(* q is all of S, in order. *)
Sorts(q, S) ==
  /\ q \in [1 .. Cardinality(S) -> S]
  /\ Range(q) = S
  /\ \A k \in 1 .. Cardinality(S) - 1 : Before(q[k], q[k + 1])

LEMMA OrderExists ==
  ASSUME NEW S \in SUBSET Entries, IsFiniteSet(S)
  PROVE  \E q : Sorts(q, S)
<1> DEFINE Bad(X) == IsFiniteSet(X) /\ ~ \E q : Sorts(q, X)
           T == {n \in Nat : \E X \in SUBSET Entries : Bad(X) /\ Cardinality(X) = n}
<1>1. SUFFICES ASSUME T # {} PROVE FALSE
  <2>1. Cardinality(S) \in Nat
    BY FS_CardinalityType
  <2> QED BY <2>1
<1>2. PICK m \in T : \A k \in T : m <= k
  BY <1>1, LeastExists
<1>3. PICK X \in SUBSET Entries : Bad(X) /\ Cardinality(X) = m
  BY <1>2
<1>4. X # {}
  <2> SUFFICES ASSUME X = {} PROVE FALSE
    OBVIOUS
  <2> DEFINE q == [k \in 1 .. 0 |-> k]
  <2>1. Cardinality(X) = 0
    BY FS_EmptySet
  <2>2. q \in [1 .. 0 -> X] /\ Range(q) = X /\ 1 .. 0 - 1 = {}
    BY DEF Range
  <2>3. Sorts(q, X)
    BY <2>1, <2>2 DEF Sorts
  <2> QED BY <1>3, <2>3
<1>5. PICK e \in X : \A f \in X \ {e} : Before(f, e)
  BY <1>3, <1>4, LastEntryExists
<1> DEFINE Y == X \ {e}
           n == Cardinality(Y)
<1>6. IsFiniteSet(Y) /\ n = m - 1 /\ n \in Nat /\ m \in Nat
  <2>1. IsFiniteSet(Y) /\ n = m - 1
    BY <1>3, <1>5, FS_RemoveElement
  <2> QED BY <1>2, <2>1, FS_CardinalityType
<1>7. PICK p : Sorts(p, Y)
  <2>1. ~ (m <= m - 1)
    BY <1>6
  <2>2. m - 1 \notin T
    BY <1>2, <2>1
  <2> QED BY <1>6, <2>2
<1> DEFINE q == [k \in 1 .. m |-> IF k = m THEN e ELSE p[k]]
<1> HIDE DEF n
<1>8. /\ p \in [1 .. n -> Y] /\ Range(p) = Y
      /\ \A k \in 1 .. n - 1 : Before(p[k], p[k + 1])
  BY <1>7 DEF Sorts, n
<1>9. /\ m \in 1 .. m /\ q[m] = e /\ 1 .. n \subseteq 1 .. m
      /\ \A k \in 1 .. m : k # m => k \in 1 .. n
      /\ \A k \in 1 .. n : q[k] = p[k] /\ p[k] \in Y
  BY <1>6, <1>8
<1>10. q \in [1 .. m -> X]
  BY <1>5, <1>9
<1>11. Range(q) = X
  <2>1. ASSUME NEW f \in X PROVE \E k \in 1 .. m : q[k] = f
    <3>1. CASE f = e
      BY <1>9, <3>1
    <3>2. CASE f # e
      <4>1. PICK k \in 1 .. n : p[k] = f
        BY <1>8, <3>2 DEF Range
      <4> QED BY <1>9, <4>1
    <3> QED BY <3>1, <3>2
  <2> HIDE DEF q
  <2> QED BY <1>10, <2>1 DEF Range
<1>12. \A k \in 1 .. m - 1 : Before(q[k], q[k + 1])
  <2> SUFFICES ASSUME NEW k \in 1 .. m - 1 PROVE Before(q[k], q[k + 1])
    OBVIOUS
  <2>1. k \in 1 .. n /\ k + 1 \in 1 .. m /\ k \in Nat
    BY <1>6
  <2>2. CASE k + 1 = m
    BY <1>5, <1>9, <2>1, <2>2
  <2>3. CASE k + 1 # m
    <3>1. k \in 1 .. n - 1 /\ k + 1 \in 1 .. n
      BY <1>6, <2>1, <2>3
    <3>2. q[k] = p[k] /\ q[k + 1] = p[k + 1]
      BY <1>9, <3>1
    <3> HIDE DEF q
    <3> QED BY <1>8, <3>1, <3>2
  <2> QED BY <2>2, <2>3
<1>13. Sorts(q, X)
  BY <1>3, <1>10, <1>11, <1>12 DEF Sorts
<1> QED BY <1>3, <1>13

LEMMA ScanOrderSorts ==
  ASSUME NEW S \in SUBSET Entries, IsFiniteSet(S)
  PROVE  Sorts(ScanOrder(S), S)
<1>1. PICK q : Sorts(q, S)
  BY OrderExists
<1>2. \E p \in [1 .. Cardinality(S) -> S] :
        /\ Range(p) = S
        /\ \A k \in 1 .. Cardinality(S) - 1 : Before(p[k], p[k + 1])
  BY <1>1 DEF Sorts
<1> QED BY <1>2 DEF ScanOrder, Sorts

(* With exact entries a scan visits each row once, by key. *)
LEMMA ExactSelects ==
  ASSUME TypeOK, IndexExact
  PROVE  IndexSelect
<1> SUFFICES ASSUME ~ moved, NEW i \in ScannedIndexes
             PROVE  LET found == IndexScan(i) IN
                    /\ Range(found) = DOMAIN rows
                    /\ Len(found) = Cardinality(DOMAIN rows)
                    /\ \A k \in 1 .. Len(found) - 1 :
                         KeyOf(indexes[i], rows[found[k]]) <= KeyOf(indexes[i], rows[found[k + 1]])
  BY DEF IndexSelect
<1> DEFINE D == DOMAIN rows
           E == entries[i]
           Key(rid) == KeyOf(indexes[i], rows[rid])
           n == Cardinality(D)
           q == ScanOrder(E)
           rids == [k \in 1 .. n |-> q[k][2]]
<1>1. i \in DOMAIN indexes /\ indexes[i] \in IndexDefs
  BY IndexType DEF ScannedIndexes, IndexesOfField
<1>2. D \subseteq RID /\ D \subseteq Int /\ \A rid \in D : Key(rid) \in Int
  BY <1>1, RowsType, KeyType, TableAssumption DEF RID
<1>3. E = {<<Key(rid), rid>> : rid \in D} /\ E \in SUBSET Entries
  BY <1>1, <1>2 DEF IndexExact, EntryOf, Entries
<1> HIDE DEF D, E, Key, q
<1>4. IsFiniteSet(D)
  <2>1. IsFiniteSet(RID)
    BY FS_Interval, TableAssumption DEF RID
  <2> QED BY <1>2, <2>1, FS_Subset
<1>5. IsFiniteSet(E) /\ Cardinality(E) = n /\ n \in Nat
  <2> DEFINE f == [rid \in D |-> <<Key(rid), rid>>]
  <2>1. f \in [D -> E] /\ \A e \in E : \E rid \in D : f[rid] = e
    BY <1>3
  <2>2. \A a, b \in D : f[a] = f[b] => a = b
    OBVIOUS
  <2> HIDE DEF f
  <2>3. f \in Bijection(D, E)
    <3>1. f \in Injection(D, E)
      BY <2>1, <2>2 DEF Injection, IsInjective
    <3>2. f \in Surjection(D, E)
      BY <2>1 DEF Surjection
    <3> QED BY <3>1, <3>2 DEF Bijection
  <2>4. ExistsBijection(D, E)
    BY <2>3 DEF ExistsBijection
  <2> QED BY <1>4, <2>4, FS_Bijection, FS_CardinalityType
<1>6. /\ q \in [1 .. n -> E] /\ Range(q) = E
      /\ \A k \in 1 .. n - 1 : Before(q[k], q[k + 1])
  BY <1>3, <1>5, ScanOrderSorts DEF Sorts, q
<1> HIDE DEF n
<1>7. \A k \in 1 .. n : q[k] = <<Key(rids[k]), rids[k]>> /\ rids[k] \in D
  <2> SUFFICES ASSUME NEW k \in 1 .. n PROVE q[k] = <<Key(rids[k]), rids[k]>> /\ rids[k] \in D
    OBVIOUS
  <2>1. PICK rid \in D : q[k] = <<Key(rid), rid>>
    BY <1>3, <1>6
  <2> QED BY <2>1
<1>8. Range(rids) = D
  <2>1. ASSUME NEW rid \in D PROVE \E k \in 1 .. n : rids[k] = rid
    <3>1. <<Key(rid), rid>> \in E
      BY <1>3
    <3>2. PICK k \in 1 .. n : q[k] = <<Key(rid), rid>>
      BY <1>6, <3>1 DEF Range
    <3> QED BY <3>2
  <2>2. DOMAIN rids = 1 .. n
    OBVIOUS
  <2> HIDE DEF rids
  <2> QED BY <1>7, <2>1, <2>2 DEF Range
<1>9. rids \in Seq(D) /\ Len(rids) = n
  BY <1>5, <1>7
<1>10. IndexScan(i) = rids
  <2>1. {k \in DOMAIN rids : rids[k] \notin DOMAIN rows} = {}
    BY <1>7 DEF D
  <2> QED BY <1>5, <2>1 DEF IndexScan, E, q
<1>11. \A k \in 1 .. n - 1 : Key(rids[k]) <= Key(rids[k + 1])
  <2> SUFFICES ASSUME NEW k \in 1 .. n - 1 PROVE Key(rids[k]) <= Key(rids[k + 1])
    OBVIOUS
  <2>1. k \in 1 .. n /\ k + 1 \in 1 .. n
    BY <1>5
  <2>2. /\ rids[k] \in D /\ q[k] = <<Key(rids[k]), rids[k]>>
        /\ rids[k + 1] \in D /\ q[k + 1] = <<Key(rids[k + 1]), rids[k + 1]>>
    BY <1>7, <2>1
  <2>3. Key(rids[k]) \in Int /\ Key(rids[k + 1]) \in Int
    BY <1>2, <2>2 DEF Key, D
  <2> HIDE DEF rids
  <2>4. Before(q[k], q[k + 1])
    BY <1>6
  <2> QED BY <2>2, <2>3, <2>4 DEF Before
<1> HIDE DEF rids
<1> QED BY <1>8, <1>9, <1>10, <1>11 DEF D, Key, n

(* As long as no UPDATE has moved a key or left a row out, a SELECT that   *)
(* uses an index finds every row once and by key, for any number of rows   *)
(* and indexes and any INSERTs and LOADs whose trees failed                *)
(* (IndexScanOperator over what insert_record, delete_record and their     *)
(* compensations leave).                                                   *)
THEOREM IndexSelectCorrect == Spec => []IndexSelect
<1>1. TypeInv /\ IndexExact => IndexSelect
  BY ExactSelects DEF TypeInv
<1>2. Init => IndexExact
  BY DEF Init, IndexExact
<1> QED BY <1>1, <1>2, ExactNext, TypeInvInit, TypeInvNext, PTL DEF Spec

-----------------------------------------------------------------------------
(* Unique keys *)

LEMMA SameKeySymmetric ==
  ASSUME NEW ix, NEW r1, NEW r2 PROVE SameKey(ix, r1, r2) <=> SameKey(ix, r2, r1)
BY DEF SameKey

NoNewDuplicates ==
  \A i \in DOMAIN indexes :
    indexes[i].unique => Duplicates(rows', indexes[i]) \subseteq Duplicates(rows, indexes[i])

(* A step changes no row but the one at rid, which has the key of no other *)
(* row.                                                                    *)
LEMMA DuplicatesFromOne ==
  ASSUME NEW rid,
         \A r \in DOMAIN rows' \ {rid} : r \in DOMAIN rows /\ rows'[r] = rows[r],
         rid \in DOMAIN rows' => IsUniqueKey(rows'[rid])
  PROVE  NoNewDuplicates
<1> SUFFICES ASSUME NEW i \in DOMAIN indexes, indexes[i].unique,
                    NEW a \in DOMAIN rows', NEW b \in DOMAIN rows', a # b,
                    SameKey(indexes[i], rows'[a], rows'[b])
             PROVE  <<a, b>> \in Duplicates(rows, indexes[i])
  BY DEF NoNewDuplicates, Duplicates
<1>1. a # rid
  <2> SUFFICES ASSUME a = rid PROVE FALSE
    OBVIOUS
  <2>1. b \in DOMAIN rows /\ rows'[b] = rows[b]
    OBVIOUS
  <2>2. SameKey(indexes[i], rows[b], rows'[rid])
    BY <2>1, SameKeySymmetric
  <2> QED BY <2>1, <2>2 DEF IsUniqueKey
<1>2. b # rid
  <2> SUFFICES ASSUME b = rid PROVE FALSE
    OBVIOUS
  <2>1. a \in DOMAIN rows /\ rows'[a] = rows[a]
    OBVIOUS
  <2> QED BY <2>1 DEF IsUniqueKey
<1> QED BY <1>1, <1>2 DEF Duplicates

LEMMA UniqueNext == TypeInv /\ [Next]_vars => NoNewDuplicates
<1> SUFFICES ASSUME TypeInv, [Next]_vars PROVE NoNewDuplicates
  OBVIOUS
<1>0. TypeOK
  BY DEF TypeInv
<1>1. ASSUME NEW row \in Row, NEW rid \in RID, Insert(row, rid) \/ LoadRow(row, rid)
      PROVE  NoNewDuplicates
  <2>1. IsUniqueKey(row) /\ Indexed(row, rid)
    BY <1>1 DEF Insert, LoadRow, CanInsert
  <2>2. /\ DOMAIN rows' = DOMAIN rows \cup {rid}
        /\ \A r \in DOMAIN rows' : rows'[r] = IF r = rid THEN row ELSE rows[r]
    BY <1>0, <2>1, IndexedType
  <2> QED BY <2>1, <2>2, DuplicatesFromOne
<1>2. ASSUME NEW rids \in Selected, NEW rid \in RID, NEW set \in Sets,
             (\E full : Update(rids, rid, set, full)) \/ UpdateUnlogged(rids, rid, set)
      PROVE  NoNewDuplicates
  <2> DEFINE new == SetFields(rows[rid], set)
  <2>1. /\ Visits(rid, "UPDATE", rids, set) /\ Allowed(set) /\ IsUniqueKey(new)
        /\ rows' = [rows EXCEPT ![rid] = new]
    BY <1>2 DEF Update, UpdateUnlogged
  <2>2. rid \in DOMAIN rows /\ new \in Row
    BY <2>1, SelectedPlaced, SetFieldsType
  <2>3. /\ DOMAIN rows' = DOMAIN rows
        /\ \A r \in DOMAIN rows : rows'[r] = IF r = rid THEN new ELSE rows[r]
    BY <2>1, <2>2, UpdateRowsType
  <2> QED BY <2>1, <2>2, <2>3, DuplicatesFromOne
<1>3. ASSUME NEW rid, DropRow(rid) PROVE NoNewDuplicates
  <2>1. DOMAIN rows' = DOMAIN rows \ {rid} /\ \A r \in DOMAIN rows' : rows'[r] = rows[r]
    BY <1>0, <1>3, DropRowType
  <2>2. /\ \A r \in DOMAIN rows' \ {rid} : r \in DOMAIN rows /\ rows'[r] = rows[r]
        /\ rid \notin DOMAIN rows'
    BY <2>1
  <2> QED BY <2>2, DuplicatesFromOne
<1>4. ASSUME UNCHANGED rows PROVE NoNewDuplicates
  BY <1>4 DEF NoNewDuplicates
<1>5. ASSUME NEW rid, RollbackInsert(rid) \/ CommitDelete(rid) \/ UpdateFails(rid)
      PROVE  NoNewDuplicates
  BY <1>3, <1>4, <1>5 DEF RollbackInsert, CommitDelete, UpdateFails
<1>6. ASSUME NEW rids, NEW rid, Delete(rids, rid) \/ DeleteFails(rids, rid) PROVE NoNewDuplicates
  BY <1>3, <1>4, <1>6 DEF Delete, DeleteFails
<1>7. ASSUME NEW row, NEW rid, NEW full, InsertFails(row, rid, full) \/ LoadFails(row, rid, full)
      PROVE  NoNewDuplicates
  BY <1>4, <1>7 DEF InsertFails, LoadFails, Undone
<1>8. ASSUME UNCHANGED vars \/ Rollback \/ (\E row \in Row : LoadRefused(row))
               \/ (\E multi \in BOOLEAN : EndLoad(multi)) \/ (\E ix \in IndexDefs : CreateIndex(ix))
      PROVE  NoNewDuplicates
  BY <1>4, <1>8 DEF vars, Rollback, LoadRefused, EndLoad, CreateIndex
<1> QED BY <1>1, <1>2, <1>5, <1>6, <1>7, <1>8 DEF Next

(* No row of any statement comes to share a unique key with another row:   *)
(* the duplicates of a unique index are those that CREATE INDEX found.     *)
THEOREM UniqueKeptCorrect == Spec => UniqueKept
<1>1. TypeInv /\ [Next]_vars => [NoNewDuplicates]_vars
  BY UniqueNext
<1>2. Spec => [][NoNewDuplicates]_vars
  BY <1>1, TypeInvInit, TypeInvNext, PTL DEF Spec
<1> QED BY <1>2 DEF UniqueKept, NoNewDuplicates
=============================================================================
