---------------------------- MODULE CLogRecovery ----------------------------
(***************************************************************************)
(* What recover() makes of the blocks of the log file (CLogFile::recover,  *)
(* block_recover; clog.cpp): the list of records that Db::recover redoes.  *)
(* It is followed loop for loop.                                           *)
(***************************************************************************)
EXTENDS CLog, SequencesExt

(* A record of which only the first n bytes are there.  recover() takes    *)
(* it for a record all the same: logrec_buf is zero behind them.           *)
Torn(rec, n) == [id |-> rec.id, type |-> "TORN", len |-> n]

(* The constructor from bytes: the record whose bytes these are. *)
Parsed(bs) ==
  LET rec == bs[1][1]
      n == Max({k \in 0 .. Lesser(Len(bs), rec.len) : SubSeq(bs, 1, k) = BytesOf(rec, 0, k)})
  IN  IF n = rec.len THEN rec ELSE Torn(rec, n)

(* The loop of recover() over one block, from offset off: block_recover    *)
(* keeps the parts of a record that spans blocks in logrec_buf, `part`,    *)
(* and turns them into a record when it meets the next one.                *)
RECURSIVE ScanBlock(_, _, _)
ScanBlock(blk, off, st) ==
  LET rest == SubSeq(blk.data, off + 1, Len(blk.data)) IN
  IF off >= Len(blk.data) THEN st
  ELSE IF off = 0 /\ blk.first # 0
  THEN ScanBlock(blk, blk.first, [st EXCEPT !.part = @ \o SubSeq(blk.data, 1, blk.first)])
  ELSE IF BlockData - off < HeaderLen
  THEN [st EXCEPT !.part = @ \o rest]
  ELSE IF st.part # <<>>
  THEN ScanBlock(blk, off, [part |-> <<>>, redo |-> Append(st.redo, Parsed(st.part))])
  ELSE IF rest[1][1].len <= BlockData - off
  THEN ScanBlock(blk, off + rest[1][1].len, [st EXCEPT !.redo = Append(@, Parsed(rest))])
  ELSE [st EXCEPT !.part = @ \o rest]

(* The records recover() finds in these blocks. *)
Redone(blocks) ==
  LET st == FoldLeft(LAMBDA a, blk : ScanBlock(blk, 0, a), [part |-> <<>>, redo |-> <<>>], blocks)
  IN  IF st.part = <<>> THEN st.redo ELSE Append(st.redo, Parsed(st.part))

-----------------------------------------------------------------------------
(* Properties *)

FileBytes == FlattenSeq([i \in DOMAIN file |-> file[i].data])

(* The records the file has bytes of, in their order: those wholly in it,  *)
(* and those the system went down in the middle of.                        *)
Logged ==
  LET bytes == FileBytes
      begun == SelectSeq(bytes, LAMBDA x : x[2] = 1)
      held(rec) == Cardinality({j \in DOMAIN bytes : bytes[j][1] = rec})
      found(rec) == IF held(rec) = rec.len THEN rec ELSE Torn(rec, held(rec))
  IN  [i \in DOMAIN begun |-> found(begun[i][1])]

(* logrec_buf is in use at the beginning of block i: the record at the end *)
(* of the block before is cut there, or it began still earlier.            *)
PartPending(i) ==
  /\ i > 1
  /\ LET x == Last(file[i - 1].data) IN
     x[2] # x[1].len \/ x[2] > Len(file[i - 1].data)

(* The layouts block_recover can take apart.  The pending record must not  *)
(* end where too little of the block is left for a header, and no record   *)
(* that itself spans blocks may begin a block while another is pending.    *)
Parsable ==
  \A i \in DOMAIN file :
    LET f == file[i].first IN
    PartPending(i) =>
      /\ f < Len(file[i].data) => BlockData - f >= HeaderLen
      /\ f = BlockData => Head(file[i].data)[2] # 1

(* Whenever the system goes down, recover() hands over each record that is *)
(* wholly in the file exactly once and in its order, and between them each *)
(* record that was cut short, as far as it got, and nothing else: if the   *)
(* layout can be parsed.                                                   *)
RecoverExact == Parsable => Redone(file) = Logged

(* The same of every layout: "ASSERT_EQ(6, log_redo_list.size())" and the  *)
(* comparison of each with the one appended (clog_test.cpp:105-113).       *)
RecoverAll == Redone(file) = Logged
=============================================================================
