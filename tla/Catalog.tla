------------------------------ MODULE Catalog ------------------------------
(***************************************************************************)
(* The files of a database and the tables opened from them: Db, and the    *)
(* create, drop, open and create_index of Table and DefaultHandler.  A     *)
(* statement goes through the files one system call after the other; any   *)
(* of them may fail, which ends the statement or is not noticed, and the   *)
(* server may die between two of them.                                     *)
(*                                                                         *)
(*   meta[t]     the file t.table: absent, unreadable (created and not yet *)
(*               written), torn (written, and the write failed unnoticed)  *)
(*               or the indexes it names                                   *)
(*   tmp[t]      the file t.table.tmp, likewise                            *)
(*   data[t]     the file t.data: absent, unreadable or usable             *)
(*   ixfile      the index files there are                                 *)
(*   opened      Db::opened_tables_: for each table the indexes_ it works  *)
(*               with and those of its table_meta_                         *)
(*   stmt        the statement that runs, and where it stands              *)
(*   log, rows   the committed inserts of the log, and the rows a table    *)
(*               has, both by the incarnation of the table they were made  *)
(*               in; gen counts the incarnations               (history)   *)
(*   acked       the tables clients were told of, with their indexes       *)
(*               (history)                                                 *)
(*   debris      the tables whose CREATE or DROP failed or was cut short   *)
(*               (history)                                                 *)
(*   dropped     the tables whose DROP was acknowledged        (history)   *)
(***************************************************************************)
EXTENDS Integers, FiniteSets

CONSTANTS
  Tables, Indexes,
  Absent, Unreadable, Torn, Usable,   \* the states of a file
  ReuseNames,    \* whether clients create a table again after dropping it
  MaxFaults,     \* bound: system calls that fail
  MaxRestarts    \* bound: restarts

(* A file that is not there, one that cannot be read and one that holds    *)
(* data are told apart; no table is called as the file that is not there.  *)
ASSUME FileStatesDistinct ==
  /\ Absent \notin Tables
  /\ Absent # Unreadable /\ Absent # Usable /\ Unreadable # Usable
  /\ Absent # Torn /\ Unreadable # Torn
  /\ \A s \in SUBSET Indexes : s # Absent /\ s # Unreadable /\ s # Torn

VARIABLES meta, tmp, data, ixfile, opened, stmt, log, rows, gen, acked, debris, dropped,
          faults, restarts

files == <<meta, tmp, data, ixfile>>
history == <<log, rows, gen, acked, debris, dropped>>
vars == <<meta, tmp, data, ixfile, opened, stmt, log, rows, gen, acked, debris, dropped,
          faults, restarts>>

Idle == [op |-> "idle", table |-> Absent, index |-> Absent, at |-> "start"]

Stmt ==
  [op : {"create", "drop", "index"}, table : Tables, index : Indexes \cup {Absent},
   at : {"init", "serialize", "data", "header", "open", "indexes", "more", "meta",
         "fill", "tmp", "write", "rename", "swap"}]

MetaFile == {Absent, Unreadable, Torn} \cup SUBSET Indexes

TypeOK ==
  /\ {meta, tmp} \subseteq [Tables -> MetaFile]
  /\ data \in [Tables -> {Absent, Unreadable, Usable}]
  /\ ixfile \subseteq Tables \X Indexes
  /\ DOMAIN opened \subseteq Tables
  /\ \A t \in DOMAIN opened : opened[t].meta \subseteq opened[t].indexes
  /\ \A t \in DOMAIN opened : opened[t].indexes \subseteq Indexes
  /\ stmt \in Stmt \cup {Idle}
  /\ DOMAIN acked \subseteq Tables
  /\ debris \cup dropped \subseteq Tables

Init ==
  /\ meta = [t \in Tables |-> Absent]
  /\ tmp = [t \in Tables |-> Absent]
  /\ data = [t \in Tables |-> Absent]
  /\ ixfile = {}
  /\ opened = <<>>
  /\ stmt = Idle
  /\ log = {}
  /\ rows = [t \in Tables |-> {}]
  /\ gen = [t \in Tables |-> 0]
  /\ acked = <<>>
  /\ debris = {}
  /\ dropped = {}
  /\ faults = 0
  /\ restarts = 0

With(f, x, v) == [z \in DOMAIN f \cup {x} |-> IF z = x THEN v ELSE f[z]]

Without(f, x) == [z \in DOMAIN f \ {x} |-> f[z]]

At(op, place) == stmt.op = op /\ stmt.at = place

Go(place) == stmt' = [stmt EXCEPT !.at = place]

-----------------------------------------------------------------------------
(* A call fails: the statement ends and leaves what it has done.  The      *)
(* client is told FAILURE.  (Nobody looks whether CREATE TABLE could write *)
(* the meta file.)                                                         *)
Abandoned == IF stmt.op = "index" THEN {} ELSE {stmt.table}

Fail ==
  /\ stmt # Idle
  /\ stmt.at \notin {"serialize", "swap"}
  /\ faults < MaxFaults
  /\ faults' = faults + 1
  /\ stmt' = Idle
  /\ debris' = debris \cup Abandoned
  /\ UNCHANGED <<meta, tmp, data, ixfile, opened, log, rows, gen, acked, dropped, restarts>>

(* What fs.close leaves of a meta file, which fits in the buffer of the    *)
(* stream and is written there: it has the indexes, or the write fails and *)
(* nobody looks.                                                           *)
Written(file, content) ==
  \/ file = content /\ UNCHANGED faults
  \/ file = Torn /\ faults < MaxFaults /\ faults' = faults + 1

(* The file to be removed is not there: FAILURE as well. *)
EndsHere ==
  /\ stmt' = Idle
  /\ debris' = debris \cup Abandoned
  /\ UNCHANGED <<meta, tmp, data, ixfile, opened, log, rows, gen, acked, dropped, faults, restarts>>

(* CREATE TABLE: Db::create_table, then Table::create, which creates the   *)
(* meta file, refusing one that exists, ...                                *)
StartCreate(t) ==
  /\ stmt = Idle
  /\ t \notin DOMAIN opened
  /\ ReuseNames \/ t \notin dropped
  /\ meta[t] = Absent
  /\ meta' = [meta EXCEPT ![t] = Unreadable]
  /\ stmt' = [op |-> "create", table |-> t, index |-> Absent, at |-> "init"]
  /\ UNCHANGED <<tmp, data, ixfile, opened, faults, restarts>> /\ UNCHANGED history

(* ... checks the attributes (a failure here leaves the file), writes the  *)
(* meta file in place, ...                                                 *)
InitMeta ==
  /\ At("create", "init")
  /\ Go("serialize")
  /\ UNCHANGED <<opened, faults, restarts>> /\ UNCHANGED files /\ UNCHANGED history

SerializeMeta ==
  /\ At("create", "serialize")
  /\ \E file \in MetaFile :
       Written(file, {}) /\ meta' = [meta EXCEPT ![stmt.table] = file]
  /\ Go("data")
  /\ UNCHANGED <<tmp, data, ixfile, opened, restarts>> /\ UNCHANGED history

(* ... creates the data file (BufferPoolManager::create_file: the file,    *)
(* then its first page), which is never there without the meta file, ...   *)
CreateData ==
  /\ At("create", "data")
  /\ data[stmt.table] = Absent
  /\ data' = [data EXCEPT ![stmt.table] = Unreadable]
  /\ Go("header")
  /\ UNCHANGED <<meta, tmp, ixfile, opened, faults, restarts>> /\ UNCHANGED history

WriteDataHeader ==
  /\ At("create", "header")
  /\ data' = [data EXCEPT ![stmt.table] = Usable]
  /\ Go("open")
  /\ UNCHANGED <<meta, tmp, ixfile, opened, faults, restarts>> /\ UNCHANGED history

(* ... and opens it; the table is entered in opened_tables_. *)
FinishCreate ==
  LET t == stmt.table IN
  /\ At("create", "open")
  /\ opened' = With(opened, t, [indexes |-> {}, meta |-> {}])
  /\ gen' = [gen EXCEPT ![t] = @ + 1]
  /\ rows' = [rows EXCEPT ![t] = {}]
  /\ acked' = With(acked, t, {})
  /\ dropped' = dropped \ {t}
  /\ debris' = debris \ {t}
  /\ stmt' = Idle
  /\ UNCHANGED <<log, faults, restarts>> /\ UNCHANGED files

(* DROP TABLE: Table::drop removes the files of indexes_, then the data    *)
(* file, then the meta file; a file that is not there is an error.         *)
StartDrop(t) ==
  /\ stmt = Idle
  /\ t \in DOMAIN opened
  /\ stmt' = [op |-> "drop", table |-> t, index |-> Absent, at |-> "indexes"]
  /\ acked' = Without(acked, t)
  /\ UNCHANGED <<opened, log, rows, gen, debris, dropped, faults, restarts>> /\ UNCHANGED files

IndexFilesLeft == {i \in opened[stmt.table].indexes : <<stmt.table, i>> \in ixfile}

(* The files go in the order of indexes_: those an earlier DROP has        *)
(* removed before it failed are the first, and end this one at once.       *)
DropIndexFile ==
  LET t == stmt.table IN
  \/ /\ At("drop", "indexes") /\ IndexFilesLeft # opened[t].indexes
     /\ EndsHere
  \/ /\ (At("drop", "indexes") /\ IndexFilesLeft = opened[t].indexes) \/ At("drop", "more")
     /\ \E i \in IndexFilesLeft :
          /\ ixfile' = ixfile \ {<<t, i>>}
          /\ Go(IF IndexFilesLeft = {i} THEN "data" ELSE "more")
     /\ UNCHANGED <<meta, tmp, data, opened, faults, restarts>> /\ UNCHANGED history

DropData ==
  LET t == stmt.table IN
  /\ \/ At("drop", "data")
     \/ At("drop", "indexes") /\ opened[t].indexes = {}
  /\ \/ /\ data[t] # Absent
        /\ data' = [data EXCEPT ![t] = Absent]
        /\ Go("meta")
        /\ UNCHANGED <<meta, tmp, ixfile, opened, faults, restarts>> /\ UNCHANGED history
     \/ data[t] = Absent /\ EndsHere

\* Mutant: the meta file stays.
FinishDropKeepsMeta ==
  LET t == stmt.table IN
  /\ At("drop", "meta")
  /\ opened' = Without(opened, t)
  /\ dropped' = dropped \cup {t}
  /\ debris' = debris \ {t}
  /\ stmt' = Idle
  /\ UNCHANGED <<meta, tmp, data, ixfile, log, rows, gen, acked, faults, restarts>>

(* Db::drop_table then closes the table and forgets it.  Nothing is logged. *)
FinishDrop ==
  LET t == stmt.table IN
  /\ At("drop", "meta")
  /\ meta' = [meta EXCEPT ![t] = Absent]
  /\ opened' = Without(opened, t)
  /\ dropped' = dropped \cup {t}
  /\ debris' = debris \ {t}
  /\ stmt' = Idle
  /\ UNCHANGED <<tmp, data, ixfile, log, rows, gen, acked, faults, restarts>>

(* CREATE INDEX: Table::create_index looks for the name in table_meta_ and *)
(* creates the index file, refusing one that exists, ...                   *)
StartIndex(t, i) ==
  /\ stmt = Idle
  /\ t \in DOMAIN opened
  /\ i \notin opened[t].meta
  /\ <<t, i>> \notin ixfile
  /\ ixfile' = ixfile \cup {<<t, i>>}
  /\ stmt' = [op |-> "index", table |-> t, index |-> i, at |-> "fill"]
  /\ UNCHANGED <<meta, tmp, data, opened, faults, restarts>> /\ UNCHANGED history

\* Mutant: the index is not taken into indexes_.
FillIndexOnly ==
  /\ At("index", "fill")
  /\ Go("tmp")
  /\ UNCHANGED <<opened, faults, restarts>> /\ UNCHANGED files /\ UNCHANGED history

(* ... fills it, takes it into indexes_ and writes its pages, ... *)
FillIndex ==
  /\ At("index", "fill")
  /\ opened' = [opened EXCEPT ![stmt.table].indexes = @ \cup {stmt.index}]
  /\ Go("tmp")
  /\ UNCHANGED <<faults, restarts>> /\ UNCHANGED files /\ UNCHANGED history

\* Mutant: the temporary file is renamed before it is written.
OpenTmpUnwritten ==
  /\ At("index", "tmp")
  /\ tmp' = [tmp EXCEPT ![stmt.table] = Unreadable]
  /\ Go("rename")
  /\ UNCHANGED <<meta, data, ixfile, opened, faults, restarts>> /\ UNCHANGED history

(* ... creates or truncates the temporary meta file, ... *)
OpenTmp ==
  /\ At("index", "tmp")
  /\ tmp' = [tmp EXCEPT ![stmt.table] = Unreadable]
  /\ Go("write")
  /\ UNCHANGED <<meta, data, ixfile, opened, faults, restarts>> /\ UNCHANGED history

\* Mutant: the new metadata lacks the new index.
WriteTmpOldMeta ==
  /\ At("index", "write")
  /\ tmp' = [tmp EXCEPT ![stmt.table] = opened[stmt.table].meta]
  /\ Go("rename")
  /\ UNCHANGED <<meta, data, ixfile, opened, faults, restarts>> /\ UNCHANGED history

(* ... writes the new metadata into it (serialize is looked at, fs.close   *)
(* is not), ...                                                            *)
WriteTmp ==
  /\ At("index", "write")
  /\ \E file \in MetaFile :
       /\ Written(file, opened[stmt.table].meta \cup {stmt.index})
       /\ tmp' = [tmp EXCEPT ![stmt.table] = file]
  /\ Go("rename")
  /\ UNCHANGED <<meta, data, ixfile, opened, restarts>> /\ UNCHANGED history

(* ... and renames it to the meta file, whatever is in it. *)
RenameTmp ==
  LET t == stmt.table IN
  /\ At("index", "rename")
  /\ meta' = [meta EXCEPT ![t] = tmp[t]]
  /\ tmp' = [tmp EXCEPT ![t] = Absent]
  /\ Go("swap")
  /\ UNCHANGED <<data, ixfile, opened, faults, restarts>> /\ UNCHANGED history

FinishIndex ==
  LET t == stmt.table IN
  /\ At("index", "swap")
  /\ opened' = [opened EXCEPT ![t].meta = @ \cup {stmt.index}]
  /\ acked' = IF t \in DOMAIN acked THEN [acked EXCEPT ![t] = @ \cup {stmt.index}] ELSE acked
  /\ stmt' = Idle
  /\ UNCHANGED <<log, rows, gen, debris, dropped, faults, restarts>> /\ UNCHANGED files

(* A committed INSERT. *)
Insert(t) ==
  /\ stmt = Idle
  /\ t \in DOMAIN opened
  /\ rows' = [rows EXCEPT ![t] = @ \cup {gen[t]}]
  /\ log' = log \cup {<<t, gen[t]>>}
  /\ UNCHANGED <<opened, stmt, gen, acked, debris, dropped, faults, restarts>> /\ UNCHANGED files

-----------------------------------------------------------------------------
(* TableMeta::deserialize: an empty or torn file is no JSON.               *)
Readable(t) == meta[t] \notin {Absent, Unreadable, Torn}

(* Table::open: the meta file can be read, and the data file and the index *)
(* files it names are there.                                               *)
Openable(t) ==
  /\ Readable(t)
  /\ data[t] = Usable
  /\ \A i \in meta[t] : <<t, i>> \in ixfile

Listed == {t \in Tables : meta[t] # Absent}

(* Db::open_all_tables goes through the meta files in the order of the     *)
(* directory and stops at the first table that cannot be opened;           *)
(* DefaultHandler::open_db serves what has been opened.                    *)
OpenedFrom ==
  IF \A t \in Listed : Openable(t) THEN {Listed} ELSE SUBSET {t \in Listed : Openable(t)}

(* The server dies and starts again.  Redo finds the tables by name.       *)
Restart ==
  /\ restarts < MaxRestarts
  /\ \E found \in OpenedFrom :
       /\ opened' = [t \in found |-> [indexes |-> meta[t], meta |-> meta[t]]]
       /\ rows' = [t \in Tables |-> IF t \in found THEN {r[2] : r \in {x \in log : x[1] = t}} ELSE {}]
  /\ stmt' = Idle
  /\ debris' = IF stmt = Idle THEN debris ELSE debris \cup Abandoned
  /\ restarts' = restarts + 1
  /\ UNCHANGED <<log, gen, acked, dropped, faults>> /\ UNCHANGED files

Next ==
  \/ \E t \in Tables : StartCreate(t) \/ StartDrop(t) \/ Insert(t)
  \/ \E t \in Tables, i \in Indexes : StartIndex(t, i)
  \/ InitMeta \/ SerializeMeta \/ CreateData \/ WriteDataHeader \/ FinishCreate
  \/ DropIndexFile \/ DropData \/ FinishDrop
  \/ FillIndex \/ OpenTmp \/ WriteTmp \/ RenameTmp \/ FinishIndex
  \/ Fail
  \/ Restart

Spec == Init /\ [][Next]_vars

-----------------------------------------------------------------------------
(***************************************************************************)
(* What a client was told is on disk at every moment, whatever call fails  *)
(* and whenever the server dies: the meta file can be read, it names every *)
(* index that was acknowledged, and the files of the table are there.  The *)
(* exceptions are a table whose DROP was begun and failed, and one whose   *)
(* meta file was lost in a write that CREATE TABLE or CREATE INDEX does    *)
(* not look at, until a later CREATE INDEX replaces the file.              *)
(***************************************************************************)
AckedOnDisk ==
  \A t \in DOMAIN acked \ debris :
    meta[t] # Torn => Openable(t) /\ acked[t] \subseteq meta[t]

(***************************************************************************)
(* ... which the answers to the client do not except.                      *)
(***************************************************************************)
AllAckedOnDisk == \A t \in DOMAIN acked \ debris : Openable(t)

(***************************************************************************)
(* A table that was dropped, and acknowledged to be, has left no file from *)
(* which a restart could bring it back.                                    *)
(***************************************************************************)
DroppedGone ==
  \A t \in dropped \ (debris \cup {stmt.table}) :
    meta[t] = Absent /\ data[t] = Absent /\ t \notin DOMAIN opened

(***************************************************************************)
(* A meta file that would stop open_all_tables, and so hide other tables,  *)
(* belongs to the statement that runs, or to a CREATE TABLE or DROP TABLE  *)
(* that failed or was cut short, or was lost in a write that nobody looked *)
(* at.  A CREATE INDEX that fails or is cut short leaves none.             *)
(***************************************************************************)
BlockersKnown ==
  \A t \in Listed : Openable(t) \/ t \in debris \/ t = stmt.table \/ meta[t] = Torn

(***************************************************************************)
(* The rows of a table are those inserted since it was created: DROP TABLE *)
(* has deleted the others.                                                 *)
(***************************************************************************)
DataDeleted == \A t \in DOMAIN opened : rows[t] \subseteq {gen[t]}
=============================================================================
