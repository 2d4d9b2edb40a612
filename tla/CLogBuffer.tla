----------------------------- MODULE CLogBuffer -----------------------------
(***************************************************************************)
(* The log buffer (CLogBuffer, clog.cpp): log records are cut into blocks, *)
(* the buffer holds the blocks from the first that is not wholly in the    *)
(* file to the one being filled, and flush_buffer writes them out.         *)
(*                                                                         *)
(* A log record is [id, type, len]; byte k of it is the pair <<rec, k>>.   *)
(* The buffer is modelled by the bytes of its blocks, `bytes`, without the *)
(* block headers, and by first_rec_offset_ of each of its blocks, `first`, *)
(* counted from the end of the header.  All but its last block are full,   *)
(* so the offsets of the code follow:                                      *)
(*   write_block_offset_  the block of the last byte                       *)
(*   write_offset_        0 iff there are no bytes, CLOG_BUFFER_SIZE iff   *)
(*                        there are BufferBytes                            *)
(* `cur` is current_block_no_ in blocks; block 0 is the file header.       *)
(***************************************************************************)
EXTENDS Integers, Sequences

CONSTANTS
  BlockData,     \* CLOG_BLOCK_DATA_SIZE
  HeaderLen,     \* sizeof(CLogRecordHeader), the length of a BEGIN or COMMIT
  BufBlocks,     \* CLOG_BUFFER_SIZE / CLOG_BLOCK_SIZE
  RedoLens       \* lengths of the records with data

ASSUME CLogBufferAssumption ==
  /\ {BlockData, HeaderLen, BufBlocks} \subseteq Nat \ {0}
  /\ HeaderLen <= BlockData
  /\ \A n \in RedoLens : n \in Nat /\ HeaderLen <= n /\ n <= BlockData * (BufBlocks - 1)

BufferBytes == BlockData * BufBlocks

EmptyBuffer == [bytes |-> <<>>, first |-> <<>>]

Lesser(i, j) == IF i < j THEN i ELSE j

\* the blocks n bytes take
BlocksFor(n) == (n + BlockData - 1) \div BlockData

BytesOf(rec, start, n) == [i \in 1 .. n |-> <<rec, start + i>>]

\* Mutant: the part of a record that a block begins with is not noted.
FirstRecOffsetOfAny(rec, o) ==
  IF rec.len - o <= BlockData THEN 0 ELSE BlockData

(* first_rec_offset_ of a block that begins with byte o of a record: the   *)
(* end of that record, if it began before the block and ends in it.  A     *)
(* block the record fills has the block size, also if it begins there.     *)
FirstRecOffset(rec, o) ==
  IF rec.len - o > BlockData THEN BlockData
  ELSE IF o = 0 THEN 0 ELSE rec.len - o

\* Mutant: the end of the buffer is not looked at.
TakenUnbounded(b, rec, start) == rec.len - start

(* How much of the record, from `start`, append_log_record can take; it    *)
(* returns LOGBUF_FULL if that is not all.                                 *)
Taken(b, rec, start) == Lesser(rec.len - start, BufferBytes - Len(b.bytes))

(* append_log_record(rec, start), with all its recursive calls. *)
Appended(b, rec, start) ==
  LET n == Taken(b, rec, start)
      old == Len(b.first)
      new == BlocksFor(Len(b.bytes) + n) - old
  IN
  [bytes |-> b.bytes \o BytesOf(rec, start, n),
   first |-> b.first \o
     [i \in 1 .. new |->
        FirstRecOffset(rec, start + (old + i - 1) * BlockData - Len(b.bytes))]]

\* the bytes of block i
Cut(bytes, i) == SubSeq(bytes, (i - 1) * BlockData + 1, Lesser(i * BlockData, Len(bytes)))

(* The block i of a buffer, as it is written to the file. *)
BlockOf(b, i) == [data |-> Cut(b.bytes, i), first |-> b.first[i]]

\* Mutant: the last block is not moved, the first stays at the front.
KeptNotMoved(b) ==
  IF Len(b.bytes) % BlockData = 0 THEN EmptyBuffer
  ELSE [bytes |-> BlockOf(b, 1).data, first |-> <<b.first[1]>>]

(* What flush_buffer leaves in the buffer: a last block that is not full   *)
(* is moved to the front, to be filled and written again.                  *)
Kept(b) ==
  IF Len(b.bytes) % BlockData = 0 THEN EmptyBuffer
  ELSE [bytes |-> BlockOf(b, Len(b.first)).data, first |-> <<b.first[Len(b.first)]>>]

(* The file after flush_buffer: the blocks of the buffer are written at    *)
(* their block numbers, which end at cur.  (With an empty buffer, and for  *)
(* a block numbered 0, the write goes to the file header, which nothing    *)
(* reads.)                                                                 *)
Flushed(f, b, cur) ==
  LET base == cur - Len(b.first) IN
  [i \in 1 .. (IF cur > Len(f) THEN cur ELSE Len(f)) |->
     IF base < i /\ i <= cur THEN BlockOf(b, i - base) ELSE f[i]]
=============================================================================
