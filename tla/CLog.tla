-------------------------------- MODULE CLog --------------------------------
(***************************************************************************)
(* The redo log (CLogManager, CLogBuffer, CLogFile; clog.cpp): appending   *)
(* and syncing records, and how the log goes on after a restart.  What     *)
(* recover() makes of the blocks of the file is in CLogRecovery.           *)
(*                                                                         *)
(*   buf, cur   the buffer and current_block_no_ (CLogBuffer)              *)
(*   file       the blocks of the log file after the header block          *)
(*   stream     what the log should hold: the bytes of the records         *)
(*              appended, less those a crash lost (history)                *)
(*   done       the COMMIT records clog_append_record returned SUCCESS for *)
(*              (history)                                                  *)
(*   count, restarts   bounds on behaviours                                *)
(***************************************************************************)
EXTENDS CLogBuffer

CONSTANTS
  RedoBlocks,    \* CLOG_REDO_BUFFER_SIZE / CLOG_BLOCK_SIZE
  FullTail,      \* restarts with a last block that is full are considered
  MaxRecords,    \* bound: records appended
  MaxRestarts    \* bound: restarts

ASSUME CLogAssumption ==
  /\ RedoBlocks \in Nat \ {0}
  /\ FullTail \in BOOLEAN
  /\ {MaxRecords, MaxRestarts} \subseteq Nat

VARIABLES buf, cur, file, stream, done, count, restarts

vars == <<buf, cur, file, stream, done, count, restarts>>

Records ==
  [id : 1 .. MaxRecords, type : {"BEGIN", "COMMIT"}, len : {HeaderLen}]
    \cup [id : 1 .. MaxRecords, type : {"REDO"}, len : RedoLens]

Byte == {x \in Records \X Nat : x[2] \in 1 .. x[1].len}

Block == {blk \in [data : Seq(Byte), first : 0 .. BlockData] : Len(blk.data) \in 1 .. BlockData}

TypeOK ==
  /\ buf \in [bytes : Seq(Byte), first : Seq(0 .. BlockData)]
  /\ Len(buf.bytes) <= BufferBytes
  /\ Len(buf.first) = BlocksFor(Len(buf.bytes))
  /\ cur \in Nat \cup {-1}
  /\ file \in Seq(Block)
  /\ stream \in Seq(Byte)
  /\ done \subseteq Records
  /\ count \in 0 .. MaxRecords
  /\ restarts \in 0 .. MaxRestarts

Init ==
  /\ buf = EmptyBuffer
  /\ cur = 0
  /\ file = <<>>
  /\ stream = <<>>
  /\ done = {}
  /\ count = 0
  /\ restarts = 0

-----------------------------------------------------------------------------
(* Appending *)

(* current_block_no_ grows with every block begun. *)
CurAfter(c, b, b2) == c + Len(b2.first) - Len(b.first)

\* Mutant: a COMMIT does not sync.
MustSyncWhenFull(rec, full) == full

MustSync(rec, full) == full \/ rec.type = "COMMIT"

(* clog_append_record.  A record that does not fit is continued after a    *)
(* sync, and LOGBUF_FULL is returned all the same.                         *)
ClogAppendRecord(rec) ==
  LET b == Appended(buf, rec, 0)
      c == CurAfter(cur, buf, b)
      n == Taken(buf, rec, 0)
      full == n < rec.len
      k == Kept(b)
      b2 == IF full THEN Appended(k, rec, n) ELSE k
  IN
  /\ count < MaxRecords
  /\ rec.id = count + 1
  /\ count' = count + 1
  /\ IF MustSync(rec, full)
     THEN /\ file' = Flushed(file, b, c)
          /\ buf' = b2
          /\ cur' = CurAfter(c, k, b2)
     ELSE /\ buf' = b
          /\ cur' = c
          /\ UNCHANGED file
  /\ stream' = stream \o BytesOf(rec, 0, rec.len)
  /\ done' = IF rec.type = "COMMIT" /\ ~ full THEN done \cup {rec} ELSE done
  /\ UNCHANGED restarts

(* clog_sync, from the statement of that name. *)
ClogSync ==
  /\ file' = Flushed(file, buf, cur)
  /\ buf' = Kept(buf)
  /\ UNCHANGED <<cur, stream, done, count, restarts>>

-----------------------------------------------------------------------------
(* Recovery *)

LastBlock == file[Len(file)]

(* The last block is full, and the read that ended with it did not fill    *)
(* redo_buffer: recover() goes on with what is in the buffer behind it.    *)
FullLastBlock ==
  /\ file # <<>>
  /\ Len(LastBlock.data) = BlockData
  /\ Len(file) % RedoBlocks # 0

(* current_block_no_ when recover() is done: the number of the last block  *)
(* it looked at.  Behind a full last block that is either zero memory,     *)
(* taken for an empty block number 0 to be filled next (-1: the next       *)
(* record begins block 0), or what the read before left there.             *)
CurAfterRecover ==
  IF ~ FullLastBlock THEN {Len(file)}
  ELSE {-1} \cup {RedoBlocks * q : q \in {Len(file) \div RedoBlocks} \ {0}}

\* how many bytes of the log are in the file
Written == IF file = <<>> THEN 0 ELSE (Len(file) - 1) * BlockData + Len(LastBlock.data)

(* A restart: what was only in the buffer is gone, and recover() reads the *)
(* file.  A last block that is not full becomes the first of the buffer.   *)
Restart ==
  /\ FullTail \/ ~ FullLastBlock
  /\ restarts < MaxRestarts
  /\ restarts' = restarts + 1
  /\ buf' = IF file = <<>> \/ Len(LastBlock.data) = BlockData THEN EmptyBuffer
            ELSE [bytes |-> LastBlock.data, first |-> <<LastBlock.first>>]
  /\ cur' \in CurAfterRecover
  /\ stream' = SubSeq(stream, 1, Lesser(Written, Len(stream)))
  /\ UNCHANGED <<file, done, count>>

Next ==
  \/ \E rec \in Records : ClogAppendRecord(rec)
  \/ ClogSync
  \/ Restart

Spec == Init /\ [][Next]_vars

-----------------------------------------------------------------------------
(* Properties *)

\* the blocks of the file that are full and done with
Base == cur - Len(buf.first)

(* No byte of a record is lost, repeated or out of place while records are *)
(* cut at block and buffer boundaries, blocks are moved and written again, *)
(* and the log goes on after a restart: the blocks written and done with,  *)
(* and then the buffer, hold what was appended.                            *)
BytesKept ==
  /\ Len(stream) = Base * BlockData + Len(buf.bytes)
  /\ \A i \in 1 .. Base : file[i].data = Cut(stream, i)
  /\ buf.bytes = SubSeq(stream, Base * BlockData + 1, Len(stream))

(* A COMMIT that was reported to have succeeded is in the file, up to its  *)
(* last byte, and stays there: over later flushes, which write the block   *)
(* again, and over restarts.                                               *)
CommitDurable ==
  \A rec \in done :
    \E i \in DOMAIN file : \E j \in DOMAIN file[i].data : file[i].data[j] = <<rec, rec.len>>
=============================================================================
