--------------------------- MODULE CatalogProofs ---------------------------
(***************************************************************************)
(* Proofs about Catalog, for any tables and indexes and any number of      *)
(* failing calls and restarts: what clients were told is on disk, a        *)
(* dropped table leaves no file, and only an unfinished CREATE or DROP     *)
(* TABLE, or a write nobody looked at, leaves a meta file that stops       *)
(* open_all_tables.                                                        *)
(***************************************************************************)
EXTENDS Catalog, TLAPS

TableObject == [indexes : SUBSET Indexes, meta : SUBSET Indexes]

(* The shape of the state, with the fact that table_meta_ never names an   *)
(* index that indexes_ lacks.                                              *)
TypeInv ==
  /\ meta \in [Tables -> MetaFile]
  /\ tmp \in [Tables -> MetaFile]
  /\ data \in [Tables -> {Absent, Unreadable, Usable}]
  /\ ixfile \subseteq Tables \X Indexes
  /\ DOMAIN opened \subseteq Tables
  /\ opened \in [DOMAIN opened -> TableObject]
  /\ \A t \in DOMAIN opened : opened[t].meta \subseteq opened[t].indexes
  /\ stmt \in Stmt \cup {Idle}
  /\ DOMAIN acked \subseteq Tables
  /\ acked \in [DOMAIN acked -> SUBSET Indexes]
  /\ debris \subseteq Tables
  /\ dropped \subseteq Tables

(* DROP TABLE and CREATE INDEX run on a table that is opened; CREATE INDEX *)
(* has taken the index into indexes_ from "tmp" on.                        *)
StmtInv ==
  /\ stmt.op \in {"drop", "index"} => stmt.table \in DOMAIN opened
  /\ stmt.op = "index" =>
       /\ stmt.index \in Indexes
       /\ stmt.at \in {"tmp", "write", "rename", "swap"} =>
            stmt.index \in opened[stmt.table].indexes

(* There is no such table: none was created, or it was dropped. *)
Gone(t) ==
  /\ meta[t] = Absent
  /\ data[t] = Absent
  /\ t \notin DOMAIN opened
  /\ t \notin DOMAIN acked

(* The data file and the files of these indexes are there, which are all   *)
(* that clients were told of.                                              *)
Kept(t, indexes) ==
  /\ data[t] = Usable
  /\ \A i \in indexes : <<t, i>> \in ixfile
  /\ t \in DOMAIN acked => acked[t] \subseteq indexes

(* The files are what the meta file and table_meta_ say; and these agree   *)
(* unless the meta file is torn.  (A later CREATE INDEX writes it again    *)
(* from table_meta_.)                                                      *)
Whole(t) ==
  /\ t \notin dropped
  /\ meta[t] # Torn => Readable(t) /\ Kept(t, meta[t])
  /\ t \in DOMAIN opened =>
       /\ Kept(t, opened[t].meta)
       /\ meta[t] # Torn => opened[t].meta = meta[t]

WholeOnDisk(t) ==
  /\ t \notin dropped
  /\ meta[t] # Torn => Readable(t) /\ Kept(t, meta[t])

(* No statement runs on a table that no CREATE or DROP has spoilt: it is   *)
(* gone or whole.                                                          *)
RestInv == \A t \in Tables \ (debris \cup {stmt.table}) : Gone(t) \/ Whole(t)

(* CREATE TABLE on its way. *)
CreateInv ==
  stmt.op = "create" =>
    /\ stmt.table \in debris \/ stmt.table \notin DOMAIN acked
    /\ stmt.at \in {"data", "header", "open"} => meta[stmt.table] \in {{}, Torn}
    /\ stmt.at = "open" => data[stmt.table] = Usable

(* DROP TABLE on its way. *)
DropInv ==
  stmt.op = "drop" =>
    /\ stmt.table \notin DOMAIN acked
    /\ stmt.at = "meta" => data[stmt.table] = Absent

(* CREATE INDEX on its way: the table stays whole until the rename, and    *)
(* after it only table_meta_ lags behind.                                  *)
IndexInv ==
  stmt.op = "index" /\ stmt.table \notin debris =>
    LET t == stmt.table
        new == opened[t].meta \cup {stmt.index}
    IN
    /\ <<t, stmt.index>> \in ixfile
    /\ t \notin dropped
    /\ Kept(t, opened[t].meta)
    /\ stmt.at # "swap" => meta[t] \in {opened[t].meta, Torn}
    /\ stmt.at = "rename" => tmp[t] \in {new, Torn}
    /\ stmt.at = "swap" => meta[t] \in {new, Torn}

IInv == TypeInv /\ StmtInv /\ RestInv /\ CreateInv /\ DropInv /\ IndexInv

-----------------------------------------------------------------------------
(* Each system call of a statement keeps the invariant, and so do a call   *)
(* that fails and a restart.                                               *)

(* Wherever CREATE INDEX stands, a table that is not debris has a meta     *)
(* file that is torn or can be opened.                                     *)
LEMMA IndexKept ==
  ASSUME IInv, stmt.op = "index", stmt.table \notin debris
  PROVE  LET t == stmt.table IN
         /\ t \in Tables /\ t \notin dropped /\ stmt \in Stmt
         /\ t \in DOMAIN opened /\ opened[t].meta \in SUBSET Indexes /\ stmt.index \in Indexes
         /\ Kept(t, opened[t].meta)
         /\ Kept(t, opened[t].meta \cup {stmt.index})
         /\ meta[t] # Torn => Readable(t) /\ Kept(t, meta[t])
<1> DEFINE t == stmt.table
<1>1. t \in Tables /\ stmt \in Stmt /\ t \in DOMAIN opened /\ stmt.index \in Indexes
  BY DEF IInv, TypeInv, StmtInv, Idle, Stmt
<1>2. opened[t].meta \in SUBSET Indexes
  BY <1>1 DEF IInv, TypeInv, TableObject
<1>3. /\ t \notin dropped /\ <<t, stmt.index>> \in ixfile /\ Kept(t, opened[t].meta)
      /\ meta[t] \in {opened[t].meta, opened[t].meta \cup {stmt.index}, Torn}
  BY DEF IInv, IndexInv
<1>4. Kept(t, opened[t].meta \cup {stmt.index})
  BY <1>3 DEF Kept
<1>5. meta[t] # Torn => Readable(t)
  BY <1>1, <1>2, <1>3, FileStatesDistinct DEF Readable
<1> QED BY <1>1, <1>2, <1>3, <1>4, <1>5

(* Before the rename has been done the table is as whole as at rest. *)
LEMMA IndexWhole ==
  ASSUME IInv, stmt.op = "index", stmt.at # "swap", stmt.table \notin debris
  PROVE  Whole(stmt.table)
<1>1. meta[stmt.table] \in {opened[stmt.table].meta, Torn}
  BY DEF IInv, IndexInv
<1> QED BY <1>1, IndexKept DEF Whole

LEMMA InitInv == Init => IInv
  BY FileStatesDistinct
  DEF Init, IInv, TypeInv, StmtInv, RestInv, CreateInv, DropInv, IndexInv, Gone,
      MetaFile, TableObject, Idle, Stmt

LEMMA StartCreateInv ==
  ASSUME NEW t \in Tables, IInv, StartCreate(t)
  PROVE  IInv'
<1> USE FileStatesDistinct DEF IInv, StartCreate, history
<1>1. TypeInv'
  BY DEF TypeInv, MetaFile, Stmt, Idle
<1>2. StmtInv'
  BY DEF StmtInv, Idle
<1>3. RestInv'
  BY DEF TypeInv, RestInv, Gone, Whole, Kept, Openable, Readable, Idle, Stmt
<1>4. CreateInv'
  BY DEF TypeInv, RestInv, CreateInv, Gone, Whole, Kept, Openable, Readable, Idle
<1>5. DropInv'
  BY DEF DropInv, Idle
<1>6. IndexInv'
  BY DEF IndexInv, Idle
<1> QED BY <1>1, <1>2, <1>3, <1>4, <1>5, <1>6

LEMMA InitMetaInv ==
  ASSUME IInv, InitMeta
  PROVE  IInv'
<1> USE FileStatesDistinct DEF IInv, InitMeta, At, Go, files, history
<1>1. TypeInv'
  BY DEF TypeInv, Stmt, Idle
<1>2. StmtInv'
  BY DEF StmtInv, Idle
<1>3. RestInv'
  BY DEF TypeInv, RestInv, Stmt, Gone, Whole, Kept, Openable, Readable
<1>4. CreateInv'
  BY DEF CreateInv, Idle
<1>5. DropInv'
  BY DEF DropInv, Idle
<1>6. IndexInv'
  BY DEF IndexInv, Idle
<1> QED BY <1>1, <1>2, <1>3, <1>4, <1>5, <1>6

LEMMA SerializeMetaInv ==
  ASSUME IInv, SerializeMeta
  PROVE  IInv'
<1> USE FileStatesDistinct DEF IInv, SerializeMeta, Written, At, Go, history
<1>1. TypeInv'
  BY DEF TypeInv, MetaFile, Stmt, Idle
<1>2. StmtInv'
  BY DEF StmtInv, Idle
<1>3. RestInv'
  BY DEF TypeInv, RestInv, Stmt, Gone, Whole, Kept, Openable, Readable
<1>4. CreateInv'
  BY DEF TypeInv, CreateInv, Idle, Stmt
<1>5. DropInv'
  BY DEF DropInv, Idle
<1>6. IndexInv'
  BY DEF IndexInv, Idle
<1> QED BY <1>1, <1>2, <1>3, <1>4, <1>5, <1>6

LEMMA CreateDataInv ==
  ASSUME IInv, CreateData
  PROVE  IInv'
<1> USE FileStatesDistinct DEF IInv, CreateData, At, Go, history
<1>1. TypeInv'
  BY DEF TypeInv, Stmt, Idle
<1>2. StmtInv'
  BY DEF StmtInv, Idle
<1>3. RestInv'
  BY DEF TypeInv, RestInv, Stmt, Gone, Whole, Kept, Openable, Readable
<1>4. CreateInv'
  BY DEF CreateInv, Idle
<1>5. DropInv'
  BY DEF DropInv, Idle
<1>6. IndexInv'
  BY DEF IndexInv, Idle
<1> QED BY <1>1, <1>2, <1>3, <1>4, <1>5, <1>6

LEMMA WriteDataHeaderInv ==
  ASSUME IInv, WriteDataHeader
  PROVE  IInv'
<1> USE FileStatesDistinct DEF IInv, WriteDataHeader, At, Go, history
<1>1. TypeInv'
  BY DEF TypeInv, Stmt, Idle
<1>2. StmtInv'
  BY DEF StmtInv, Idle
<1>3. RestInv'
  BY DEF TypeInv, RestInv, Stmt, Gone, Whole, Kept, Openable, Readable
<1>4. CreateInv'
  BY DEF TypeInv, CreateInv, Idle, Stmt
<1>5. DropInv'
  BY DEF DropInv, Idle
<1>6. IndexInv'
  BY DEF IndexInv, Idle
<1> QED BY <1>1, <1>2, <1>3, <1>4, <1>5, <1>6

LEMMA FinishCreateInv ==
  ASSUME IInv, FinishCreate
  PROVE  IInv'
<1> USE FileStatesDistinct DEF IInv, FinishCreate, At, files, With
<1>1. TypeInv'
  BY DEF TypeInv, StmtInv, Stmt, Idle, TableObject
<1>2. StmtInv'
  BY DEF StmtInv, Idle
<1>3. RestInv'
  <2>1. stmt \in Stmt /\ stmt.table \in Tables /\ stmt'.table = Absent
    BY DEF TypeInv, Idle, Stmt
  <2> SUFFICES ASSUME NEW t \in Tables, t \notin debris' PROVE Gone(t)' \/ Whole(t)'
    BY <2>1 DEF RestInv
  <2>2. CASE t # stmt.table
    <3>1. Gone(t) \/ Whole(t)
      BY <2>2 DEF RestInv
    <3>2. /\ t \in DOMAIN opened' <=> t \in DOMAIN opened
          /\ t \in DOMAIN opened => opened'[t] = opened[t]
          /\ t \in DOMAIN acked' <=> t \in DOMAIN acked
          /\ t \in DOMAIN acked => acked'[t] = acked[t]
      BY <2>2
    <3> QED BY <2>2, <3>1, <3>2 DEF Gone, Whole, Kept, Openable, Readable
  <2>3. CASE t = stmt.table
    <3>1. meta'[t] \in {{}, Torn} /\ data'[t] = Usable
      BY <2>3 DEF CreateInv
    <3>2. opened'[t].meta = {} /\ acked'[t] = {}
      BY <2>3
    <3> QED BY <2>3, <3>1, <3>2 DEF Whole, Kept, Openable, Readable
  <2> QED BY <2>2, <2>3
<1>4. CreateInv'
  BY DEF CreateInv, Idle
<1>5. DropInv'
  BY DEF DropInv, Idle
<1>6. IndexInv'
  BY DEF IndexInv, Idle
<1> QED BY <1>1, <1>2, <1>3, <1>4, <1>5, <1>6

LEMMA StartDropInv ==
  ASSUME NEW t \in Tables, IInv, StartDrop(t)
  PROVE  IInv'
<1> USE FileStatesDistinct DEF IInv, StartDrop, files, Without
<1>1. TypeInv'
  BY DEF TypeInv, Stmt, Idle
<1>2. StmtInv'
  BY DEF StmtInv, Idle
<1>3. RestInv'
  BY DEF TypeInv, RestInv, Gone, Whole, Kept, Openable, Readable, Idle, Stmt
<1>4. CreateInv'
  BY DEF CreateInv, Idle
<1>5. DropInv'
  BY DEF DropInv, Idle
<1>6. IndexInv'
  BY DEF IndexInv, Idle
<1> QED BY <1>1, <1>2, <1>3, <1>4, <1>5, <1>6

(* A file of indexes_ is not there and the DROP ends, or the next one is   *)
(* removed.                                                                *)
LEMMA DropIndexFileInv ==
  ASSUME IInv, DropIndexFile
  PROVE  IInv'
<1>1. CASE /\ At("drop", "indexes")
           /\ EndsHere
  <2> USE FileStatesDistinct, <1>1 DEF IInv, At, EndsHere, Abandoned
  <2>1. TypeInv'
    BY DEF TypeInv, Stmt, Idle
  <2>2. StmtInv'
    BY DEF StmtInv, Idle
  <2>3. RestInv'
    BY DEF TypeInv, RestInv, Stmt, Gone, Whole, Kept, Openable, Readable
  <2>4. CreateInv'
    BY DEF CreateInv, Idle
  <2>5. DropInv'
    BY DEF DropInv, Idle
  <2>6. IndexInv'
    BY DEF IndexInv, Idle
  <2> QED BY <2>1, <2>2, <2>3, <2>4, <2>5, <2>6
<1>2. ASSUME NEW i \in IndexFilesLeft, NEW place \in {"data", "more"},
             stmt.op = "drop",
             ixfile' = ixfile \ {<<stmt.table, i>>},
             Go(place),
             UNCHANGED <<meta, tmp, data, opened, faults, restarts>>, UNCHANGED history
      PROVE  IInv'
  <2> USE FileStatesDistinct, <1>2 DEF IInv, Go, history
  <2>1. TypeInv'
    BY DEF TypeInv, Stmt, Idle
  <2>2. StmtInv'
    BY DEF StmtInv, Idle
  <2>3. RestInv'
    BY DEF TypeInv, RestInv, Stmt, Gone, Whole, Kept, Openable, Readable
  <2>4. CreateInv'
    BY DEF CreateInv, Idle
  <2>5. DropInv'
    BY DEF DropInv, Idle
  <2>6. IndexInv'
    BY DEF IndexInv, Idle
  <2> QED BY <2>1, <2>2, <2>3, <2>4, <2>5, <2>6
<1> QED BY <1>1, <1>2 DEF DropIndexFile, At

LEMMA DropDataInv ==
  ASSUME IInv, DropData
  PROVE  IInv'
<1> USE FileStatesDistinct DEF IInv, DropData, At, Go, history, EndsHere, Abandoned
<1>1. TypeInv'
  BY DEF TypeInv, Stmt, Idle
<1>2. StmtInv'
  BY DEF StmtInv, TypeInv, Stmt, Idle
<1>3. RestInv'
  BY DEF TypeInv, RestInv, Gone, Whole, Kept, Openable, Readable, Idle, Stmt
<1>4. CreateInv'
  BY DEF TypeInv, CreateInv, Idle, Stmt
<1>5. DropInv'
  BY DEF TypeInv, DropInv, Idle, Stmt
<1>6. IndexInv'
  BY DEF TypeInv, IndexInv, Idle, Stmt
<1> QED BY <1>1, <1>2, <1>3, <1>4, <1>5, <1>6

LEMMA FinishDropInv ==
  ASSUME IInv, FinishDrop
  PROVE  IInv'
<1> USE FileStatesDistinct DEF IInv, FinishDrop, At, Without
<1>1. TypeInv'
  BY DEF TypeInv, MetaFile, Stmt, Idle
<1>2. StmtInv'
  BY DEF StmtInv, Idle
<1>3. RestInv'
  BY DEF TypeInv, StmtInv, RestInv, CreateInv, DropInv, IndexInv, Gone, Whole, Kept,
         Openable, Readable, Idle, Stmt, TableObject, MetaFile
<1>4. CreateInv'
  BY DEF CreateInv, Idle
<1>5. DropInv'
  BY DEF DropInv, Idle
<1>6. IndexInv'
  BY DEF IndexInv, Idle
<1> QED BY <1>1, <1>2, <1>3, <1>4, <1>5, <1>6

LEMMA StartIndexInv ==
  ASSUME NEW t \in Tables, NEW i \in Indexes, IInv, StartIndex(t, i)
  PROVE  IInv'
<1> USE FileStatesDistinct DEF IInv, StartIndex, history
<1>1. TypeInv'
  BY DEF TypeInv, Stmt, Idle
<1>2. StmtInv'
  BY DEF StmtInv, Idle
<1>3. RestInv'
  BY DEF TypeInv, RestInv, Gone, Whole, Kept, Openable, Readable, Idle, Stmt
<1>4. CreateInv'
  BY DEF CreateInv, Idle
<1>5. DropInv'
  BY DEF DropInv, Idle
<1>6. IndexInv'
  BY DEF TypeInv, StmtInv, RestInv, IndexInv, Whole, Kept, Gone, Openable, Readable,
         Idle, Stmt
<1> QED BY <1>1, <1>2, <1>3, <1>4, <1>5, <1>6

LEMMA FillIndexInv ==
  ASSUME IInv, FillIndex
  PROVE  IInv'
<1> USE FileStatesDistinct DEF IInv, FillIndex, At, Go, files, history
<1>1. TypeInv'
  BY DEF TypeInv, StmtInv, Stmt, Idle, TableObject
<1>2. StmtInv'
  BY DEF StmtInv, TypeInv, TableObject, Stmt
<1>3. RestInv'
  BY DEF TypeInv, RestInv, Stmt, Gone, Whole, Kept, Openable, Readable
<1>4. CreateInv'
  BY DEF CreateInv, Idle
<1>5. DropInv'
  BY DEF DropInv, Idle
<1>6. IndexInv'
  BY DEF TypeInv, StmtInv, RestInv, IndexInv, Whole, Kept, Gone, Openable, Readable,
         Idle, Stmt, TableObject, MetaFile
<1> QED BY <1>1, <1>2, <1>3, <1>4, <1>5, <1>6

LEMMA OpenTmpInv ==
  ASSUME IInv, OpenTmp
  PROVE  IInv'
<1> USE FileStatesDistinct DEF IInv, OpenTmp, At, Go, history
<1>1. TypeInv'
  BY DEF TypeInv, MetaFile, Stmt, Idle
<1>2. StmtInv'
  BY DEF StmtInv, Idle
<1>3. RestInv'
  BY DEF TypeInv, RestInv, Stmt, Gone, Whole, Kept, Openable, Readable
<1>4. CreateInv'
  BY DEF CreateInv, Idle
<1>5. DropInv'
  BY DEF DropInv, Idle
<1>6. IndexInv'
  BY DEF TypeInv, StmtInv, IndexInv, Kept, Openable, Readable, Idle, Stmt
<1> QED BY <1>1, <1>2, <1>3, <1>4, <1>5, <1>6

LEMMA WriteTmpInv ==
  ASSUME IInv, WriteTmp
  PROVE  IInv'
<1> USE FileStatesDistinct DEF IInv, WriteTmp, Written, At, Go, history
<1>1. TypeInv'
  BY DEF TypeInv, StmtInv, Stmt, Idle, TableObject, MetaFile
<1>2. StmtInv'
  BY DEF StmtInv, Idle
<1>3. RestInv'
  BY DEF TypeInv, RestInv, Stmt, Gone, Whole, Kept, Openable, Readable
<1>4. CreateInv'
  BY DEF CreateInv, Idle
<1>5. DropInv'
  BY DEF DropInv, Idle
<1>6. IndexInv'
  BY DEF TypeInv, StmtInv, IndexInv, Kept, Openable, Readable, Idle, Stmt
<1> QED BY <1>1, <1>2, <1>3, <1>4, <1>5, <1>6

(* The one step that changes the meta file of a table in use: it installs  *)
(* the metadata written before, whose index file has been there since the  *)
(* statement began.                                                        *)
LEMMA RenameTmpInv ==
  ASSUME IInv, RenameTmp
  PROVE  IInv'
<1> USE FileStatesDistinct DEF IInv, RenameTmp, At, Go, history
<1>1. TypeInv'
  BY DEF TypeInv, MetaFile, Stmt, Idle
<1>2. StmtInv'
  BY DEF StmtInv, Idle
<1>3. RestInv'
  BY DEF TypeInv, RestInv, Stmt, Gone, Whole, Kept, Openable, Readable
<1>4. CreateInv'
  BY DEF CreateInv, Idle
<1>5. DropInv'
  BY DEF DropInv, Idle
<1>6. IndexInv'
  <2> DEFINE t == stmt.table
  <2> SUFFICES ASSUME t \notin debris
               PROVE  IndexInv'
    BY DEF TypeInv, IndexInv, Idle, Stmt
  <2>1. /\ t \in Tables /\ stmt \in Stmt /\ t \notin dropped
        /\ Kept(t, opened[t].meta) /\ <<t, stmt.index>> \in ixfile
    BY IndexKept DEF IndexInv
  <2>2. tmp[t] \in {opened[t].meta \cup {stmt.index}, Torn}
    BY DEF IndexInv
  <2>3. meta'[t] = tmp[t]
    BY <2>1 DEF TypeInv
  <2>4. stmt'.table = t /\ stmt'.index = stmt.index /\ stmt'.at = "swap"
    BY <2>1 DEF Stmt
  <2> QED BY <2>1, <2>2, <2>3, <2>4 DEF IndexInv, Kept
<1> QED BY <1>1, <1>2, <1>3, <1>4, <1>5, <1>6

LEMMA FinishIndexInv ==
  ASSUME IInv, FinishIndex
  PROVE  IInv'
<1> USE FileStatesDistinct DEF IInv, FinishIndex, At, files
<1>1. TypeInv'
  BY DEF TypeInv, StmtInv, Stmt, Idle, TableObject
<1>2. StmtInv'
  BY DEF StmtInv, Idle
<1>3. RestInv'
  <2>1. stmt \in Stmt /\ stmt.table \in Tables /\ stmt.table \in DOMAIN opened
    BY DEF TypeInv, StmtInv, Idle, Stmt
  <2> SUFFICES ASSUME NEW t \in Tables, t \notin debris PROVE Gone(t)' \/ Whole(t)'
    BY DEF RestInv
  <2>2. CASE t # stmt.table
    <3>1. Gone(t) \/ Whole(t)
      BY <2>2 DEF RestInv
    <3>2. /\ t \in DOMAIN opened' <=> t \in DOMAIN opened
          /\ t \in DOMAIN opened => opened'[t] = opened[t]
          /\ t \in DOMAIN acked' <=> t \in DOMAIN acked
          /\ t \in DOMAIN acked => acked'[t] = acked[t]
      BY <2>2
    <3> QED BY <2>2, <3>1, <3>2 DEF Gone, Whole, Kept, Readable
  <2>3. CASE t = stmt.table
    <3> DEFINE new == opened[t].meta \cup {stmt.index}
    <3>1. /\ t \notin dropped /\ Kept(t, new) /\ new \in SUBSET Indexes
          /\ Kept(t, opened[t].meta)
      BY <2>3, IndexKept
    <3>2. meta[t] \in {new, Torn}
      BY <2>3 DEF IndexInv
    <3>3. opened'[t].meta = new
      BY <2>1, <2>3 DEF TypeInv, TableObject
    <3>4. /\ t \in DOMAIN acked' <=> t \in DOMAIN acked
          /\ t \in DOMAIN acked => acked'[t] = acked[t] \cup {stmt.index}
      BY <2>3 DEF TypeInv
    <3>5. /\ data'[t] = Usable
          /\ \A i \in new : <<t, i>> \in ixfile'
          /\ t \in DOMAIN acked' => acked'[t] \subseteq new
      BY <3>1, <3>4 DEF Kept
    <3>6. meta[t] # Torn => Readable(t)'
      BY <3>1, <3>2 DEF Readable
    <3> HIDE DEF new
    <3>7. Kept(t, opened[t].meta)' /\ (meta[t] # Torn => Kept(t, meta[t])')
      BY <3>2, <3>3, <3>5 DEF Kept
    <3> QED BY <3>1, <3>2, <3>3, <3>6, <3>7 DEF Whole
  <2> QED BY <2>2, <2>3
<1>4. CreateInv'
  BY DEF CreateInv, Idle
<1>5. DropInv'
  BY DEF DropInv, Idle
<1>6. IndexInv'
  BY DEF IndexInv, Idle
<1> QED BY <1>1, <1>2, <1>3, <1>4, <1>5, <1>6

LEMMA InsertInv ==
  ASSUME NEW t \in Tables, IInv, Insert(t)
  PROVE  IInv'
<1> USE FileStatesDistinct DEF IInv, Insert, files
<1>1. TypeInv'
  BY DEF TypeInv, Idle
<1>2. StmtInv'
  BY DEF StmtInv, Idle
<1>3. RestInv'
  BY DEF TypeInv, RestInv, Stmt, Gone, Whole, Kept, Openable, Readable
<1>4. CreateInv'
  BY DEF CreateInv, Idle
<1>5. DropInv'
  BY DEF DropInv, Idle
<1>6. IndexInv'
  BY DEF IndexInv, Idle
<1> QED BY <1>1, <1>2, <1>3, <1>4, <1>5, <1>6

LEMMA FailInv ==
  ASSUME IInv, Fail
  PROVE  IInv'
<1> USE FileStatesDistinct DEF IInv, Fail, Abandoned
<1>1. TypeInv'
  BY DEF TypeInv, Stmt, Idle
<1>2. StmtInv'
  BY DEF StmtInv, Idle
<1>3. RestInv'
  <2>1. stmt' = Idle /\ UNCHANGED <<meta, data, ixfile, opened, acked, dropped>>
    OBVIOUS
  <2> SUFFICES ASSUME NEW t \in Tables, t \notin debris' PROVE Gone(t) \/ Whole(t)
    BY <2>1 DEF RestInv, Gone, Whole, Kept, Readable
  <2>2. CASE t # stmt.table
    BY <2>2 DEF RestInv
  <2>3. CASE t = stmt.table
    BY <2>3, IndexWhole DEF TypeInv, Idle, Stmt
  <2> QED BY <2>2, <2>3
<1>4. CreateInv'
  BY DEF CreateInv, Idle
<1>5. DropInv'
  BY DEF DropInv, Idle
<1>6. IndexInv'
  BY DEF IndexInv, Idle
<1> QED BY <1>1, <1>2, <1>3, <1>4, <1>5, <1>6

(* A restart reads table_meta_ from the meta files, whatever statement was *)
(* cut short.                                                              *)
LEMMA RestartInv ==
  ASSUME IInv, Restart
  PROVE  IInv'
<1> USE FileStatesDistinct DEF IInv, Restart, files, Abandoned
<1>1. TypeInv'
  BY DEF TypeInv, StmtInv, Stmt, Idle, TableObject, MetaFile, Openable, Readable,
         OpenedFrom, Listed
<1>2. StmtInv'
  BY DEF StmtInv, Idle, OpenedFrom, Listed
<1>3. RestInv'
  <2>1. PICK found \in SUBSET {t \in Tables : Openable(t)} :
          opened' = [t \in found |-> [indexes |-> meta[t], meta |-> meta[t]]]
    BY DEF OpenedFrom, Listed
  <2> SUFFICES ASSUME NEW t \in Tables, t \notin debris' PROVE Gone(t)' \/ Whole(t)'
    BY DEF RestInv
  <2>2. Gone(t) \/ WholeOnDisk(t)
    <3>1. CASE t # stmt.table
      BY <3>1 DEF RestInv, Whole, WholeOnDisk
    <3>2. CASE t = stmt.table
      <4>1. stmt.op = "index" /\ t \notin debris
        BY <3>2 DEF TypeInv, Idle, Stmt
      <4> QED BY <3>2, <4>1, IndexKept DEF WholeOnDisk
    <3> QED BY <3>1, <3>2
  <2>3. t \in DOMAIN opened' => opened'[t].meta = meta[t] /\ Openable(t)
    BY <2>1
  <2> QED BY <2>2, <2>3 DEF Gone, Whole, WholeOnDisk, Kept, Openable, Readable
<1>4. CreateInv'
  BY DEF CreateInv, Idle
<1>5. DropInv'
  BY DEF DropInv, Idle
<1>6. IndexInv'
  BY DEF IndexInv, Idle, OpenedFrom, Listed
<1> QED BY <1>1, <1>2, <1>3, <1>4, <1>5, <1>6

-----------------------------------------------------------------------------
LEMMA NextInv == IInv /\ [Next]_vars => IInv'
<1> SUFFICES ASSUME IInv, [Next]_vars
             PROVE  IInv'
  OBVIOUS
<1>1. CASE UNCHANGED vars
  BY <1>1 DEF vars, IInv, TypeInv, StmtInv, RestInv, CreateInv, DropInv, IndexInv,
              Gone, Whole, Kept, Openable, Readable
<1>2. CASE Next
  BY <1>2, StartCreateInv, InitMetaInv, SerializeMetaInv, CreateDataInv,
     WriteDataHeaderInv, FinishCreateInv, StartDropInv, DropIndexFileInv, DropDataInv,
     FinishDropInv, StartIndexInv, FillIndexInv, OpenTmpInv, WriteTmpInv, RenameTmpInv,
     FinishIndexInv, InsertInv, FailInv, RestartInv
  DEF Next
<1> QED BY <1>1, <1>2

LEMMA SpecInv == Spec => []IInv
  BY InitInv, NextInv, PTL DEF Spec

(***************************************************************************)
(* The tables Db keeps are well formed at every step of every statement:   *)
(* in particular table_meta_ of an opened table never names an index that  *)
(* is missing from indexes_, so every index the metadata names is used.    *)
(***************************************************************************)
THEOREM CatalogTypeCorrect == Spec => []TypeOK
<1>1. IInv => TypeOK
  BY DEF IInv, TypeInv, TypeOK, TableObject
<1> QED BY <1>1, SpecInv, PTL

(***************************************************************************)
(* However many system calls fail and however often the server dies        *)
(* between two of them, a table a client was told of can be opened and its *)
(* meta file names every acknowledged index; unless a DROP TABLE on it was *)
(* begun and did not end well, or the meta file was lost in a write that   *)
(* Table::create or create_index did not look at.                          *)
(***************************************************************************)
THEOREM AckedOnDiskCorrect == Spec => []AckedOnDisk
<1>1. IInv => AckedOnDisk
  <2> SUFFICES ASSUME IInv, NEW t \in DOMAIN acked, t \notin debris, meta[t] # Torn
               PROVE  Openable(t) /\ acked[t] \subseteq meta[t]
    BY DEF AckedOnDisk
  <2>1. t \in Tables /\ stmt \in Stmt \cup {Idle}
    BY DEF IInv, TypeInv
  <2>2. CASE t # stmt.table
    BY <2>1, <2>2 DEF IInv, RestInv, Gone, Whole, Kept, Openable
  <2>3. CASE t = stmt.table
    <3>1. stmt.op \in {"create", "drop", "index"}
      BY <2>1, <2>3, FileStatesDistinct DEF Stmt, Idle
    <3>2. stmt.op = "index"
      BY <2>3, <3>1 DEF IInv, CreateInv, DropInv
    <3> QED BY <2>3, <3>2, IndexKept DEF Kept, Openable
  <2> QED BY <2>2, <2>3
<1> QED BY <1>1, SpecInv, PTL

(***************************************************************************)
(* After DROP TABLE was acknowledged neither the meta file nor the data    *)
(* file is there, and Db does not hold the table: no restart brings it     *)
(* back.                                                                   *)
(***************************************************************************)
THEOREM DroppedGoneCorrect == Spec => []DroppedGone
<1>1. IInv => DroppedGone
  BY DEF IInv, TypeInv, RestInv, Gone, Whole, DroppedGone
<1> QED BY <1>1, SpecInv, PTL

(***************************************************************************)
(* A meta file that makes Db::open_all_tables stop is that of the running  *)
(* statement, or was left by a CREATE TABLE or DROP TABLE that did not     *)
(* end, or was lost in a write that nobody looked at: Table::create_index  *)
(* leaves none in any other way, wherever it fails or dies.                *)
(***************************************************************************)
THEOREM BlockersKnownCorrect == Spec => []BlockersKnown
<1>1. IInv => BlockersKnown
  BY DEF IInv, RestInv, Gone, Whole, Kept, Openable, BlockersKnown, Listed
<1> QED BY <1>1, SpecInv, PTL
=============================================================================
