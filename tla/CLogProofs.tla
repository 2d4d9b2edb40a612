----------------------------- MODULE CLogProofs -----------------------------
(***************************************************************************)
(* Theorems about the redo log, for any sizes of blocks, buffer, records   *)
(* and reads.  BytesKept is not inductive: a flush writes a block that is  *)
(* not full and keeps it in the buffer, so that the file and the buffer    *)
(* overlap, and a restart goes on from the file alone.  The invariant says *)
(* by position where each byte of the log is (Holds), and that the part of *)
(* the last block in the file is the beginning of what the buffer has of   *)
(* it.  The arithmetic of block boundaries comes first, then one lemma per *)
(* operation of CLogBuffer, then one per action.                           *)
(***************************************************************************)
EXTENDS CLog, SequenceTheorems, TLAPS

GoodBuffer(b) ==
  /\ b \in [bytes : Seq(Byte), first : Seq(0 .. BlockData)]
  /\ Len(b.bytes) <= BufferBytes
  /\ Len(b.first) = BlocksFor(Len(b.bytes))

(* The buffer's blocks are numbered up to c and go on where f ends, or     *)
(* before: no block is left out.                                           *)
Placed(f, b, c) ==
  /\ f \in Seq(Block)
  /\ c \in Int
  /\ c - Len(b.first) >= -1
  /\ c - Len(b.first) <= Len(f)

(* The first `base` blocks of f are full and hold the beginning of st,     *)
(* `bytes` is the rest of it; a further block of f, not full, holds the    *)
(* first of these bytes.                                                   *)
HoldsFrom(f, bytes, base, st) ==
  /\ base >= 0
  /\ Len(f) \in {base, base + 1}
  /\ Len(st) = base * BlockData + Len(bytes)
  /\ \A i \in 1 .. base :
       /\ Len(f[i].data) = BlockData
       /\ \A j \in 1 .. BlockData : f[i].data[j] = st[(i - 1) * BlockData + j]
  /\ \A j \in 1 .. Len(bytes) : bytes[j] = st[base * BlockData + j]
  /\ Len(f) = base + 1 =>
       /\ Len(f[base + 1].data) \in 1 .. BlockData - 1
       /\ Len(f[base + 1].data) <= Len(bytes)
       /\ \A j \in 1 .. Len(f[base + 1].data) : f[base + 1].data[j] = bytes[j]

Holds(f, b, c, st) == HoldsFrom(f, b.bytes, c - Len(b.first), st)

TypeInv == TypeOK /\ Placed(file, buf, cur)

IInv ==
  /\ TypeInv
  /\ ~ FullTail => Holds(file, buf, cur, stream) /\ CommitDurable
-----------------------------------------------------------------------------
(* Arithmetic of blocks *)

LEMMA BlockFacts ==
  /\ BlockData \in Nat \ {0}
  /\ HeaderLen \in Nat \ {0}
  /\ BufBlocks \in Nat \ {0}
  /\ HeaderLen <= BlockData
  /\ BufferBytes \in Nat \ {0}
  /\ BufferBytes = BlockData * BufBlocks
  /\ BlockData <= BufferBytes
<1>1. /\ BlockData \in Nat \ {0}
      /\ HeaderLen \in Nat \ {0}
      /\ BufBlocks \in Nat \ {0}
      /\ HeaderLen <= BlockData
  BY CLogBufferAssumption
<1>2. \A m, n \in Nat \ {0} : m * n \in Nat \ {0} /\ m <= m * n
  OBVIOUS
<1> QED
  BY <1>1, <1>2 DEF BufferBytes

(* Products of a larger number of blocks are larger. *)
LEMMA TimesMonotone ==
  ASSUME NEW i \in Int, NEW k \in Int, i <= k
  PROVE  /\ i * BlockData \in Int
         /\ k * BlockData \in Int
         /\ i * BlockData <= k * BlockData
<1>1. \A m \in Nat, n \in Nat : m * n \in Nat
  OBVIOUS
<1>2. (k - i) * BlockData \in Nat
  BY <1>1, BlockFacts
<1>3. (k - i) * BlockData = k * BlockData - i * BlockData
  BY BlockFacts
<1>4. i * BlockData \in Int /\ k * BlockData \in Int
  BY BlockFacts
<1> QED
  BY <1>2, <1>3, <1>4

LEMMA TimesNat ==
  ASSUME NEW i \in Nat
  PROVE  i * BlockData \in Nat
<1>1. \A m \in Nat, n \in Nat : m * n \in Nat
  OBVIOUS
<1> QED
  BY <1>1, BlockFacts

(* BlocksFor rounds up. *)
LEMMA BlocksForIs ==
  ASSUME NEW n \in Nat
  PROVE  /\ BlocksFor(n) \in Nat
         /\ (BlocksFor(n) - 1) * BlockData < n
         /\ n <= BlocksFor(n) * BlockData
<1> DEFINE k == BlocksFor(n)
<1>1. k \in Int /\ k * BlockData <= n + BlockData - 1 /\ n + BlockData - 1 < k * BlockData + BlockData
  BY BlockFacts DEF BlocksFor
<1>2. k >= 0
  BY BlockFacts DEF BlocksFor
<1>3. (k - 1) * BlockData = k * BlockData - BlockData
  BY <1>1, BlockFacts
<1> QED
  BY <1>1, <1>2, <1>3, BlockFacts

(* ... and is the only number of blocks that fits. *)
LEMMA BlocksForUnique ==
  ASSUME NEW n \in Nat, NEW k \in Int, (k - 1) * BlockData < n, n <= k * BlockData
  PROVE  BlocksFor(n) = k
<1> DEFINE m == BlocksFor(n)
<1>1. /\ m \in Nat
      /\ (m - 1) * BlockData < n
      /\ n <= m * BlockData
  BY BlocksForIs
<1>2. CASE m < k
  <2>1. m * BlockData <= (k - 1) * BlockData
    BY <1>1, <1>2, TimesMonotone
  <2> QED
    BY <1>1, <2>1, BlockFacts
<1>3. CASE k < m
  <2>1. k * BlockData <= (m - 1) * BlockData
    BY <1>1, <1>3, TimesMonotone
  <2> QED
    BY <1>1, <2>1, BlockFacts
<1> QED
  BY <1>1, <1>2, <1>3

(* The last block is full just when the remainder is 0. *)
LEMMA FullIs ==
  ASSUME NEW n \in Nat
  PROVE  /\ n % BlockData = 0 => n = BlocksFor(n) * BlockData
         /\ n % BlockData # 0 => n < BlocksFor(n) * BlockData /\ BlocksFor(n) >= 1
<1> DEFINE r == n % BlockData
           q == n \div BlockData
<1>1. q \in Int /\ r \in Int /\ n = q * BlockData + r /\ 0 <= r /\ r < BlockData
  BY BlockFacts
<1> HIDE DEF r, q
<1>2. /\ (q - 1) * BlockData = q * BlockData - BlockData
      /\ (q + 1) * BlockData = q * BlockData + BlockData
      /\ (q + 1 - 1) * BlockData = q * BlockData
      /\ q * BlockData \in Int
  BY <1>1, BlockFacts
<1>3. r = 0 => n = BlocksFor(n) * BlockData
  <2>1. SUFFICES ASSUME r = 0 PROVE BlocksFor(n) = q
    BY <1>1, <1>2
  <2>2. (q - 1) * BlockData < n /\ n <= q * BlockData
    BY <1>1, <1>2, <2>1, BlockFacts
  <2> QED
    BY <1>1, <2>2, BlocksForUnique
<1>4. r # 0 => n < BlocksFor(n) * BlockData /\ BlocksFor(n) >= 1
  <2>1. SUFFICES ASSUME r # 0 PROVE n < BlocksFor(n) * BlockData /\ BlocksFor(n) >= 1
    OBVIOUS
  <2>2. (q + 1 - 1) * BlockData < n /\ n <= (q + 1) * BlockData
    BY <1>1, <1>2, <2>1, BlockFacts
  <2>3. BlocksFor(n) = q + 1
    BY <1>1, <2>2, BlocksForUnique
  <2>4. n < BlocksFor(n) * BlockData
    BY <1>1, <1>2, <2>3, BlockFacts
  <2>5. BlocksFor(n) # 0
    BY <2>4, BlockFacts
  <2> QED
    BY <2>4, <2>5, BlocksForIs
<1> QED
  BY <1>3, <1>4 DEF r

-----------------------------------------------------------------------------
(* Bytes, records and blocks *)

LEMMA RecordFacts ==
  ASSUME NEW rec \in Records
  PROVE  /\ rec.len \in Nat \ {0}
         /\ rec.len <= BufferBytes
         /\ BufferBytes - rec.len \in Nat
<1>1. rec.len = HeaderLen \/ rec.len \in RedoLens
  BY DEF Records
<1>2. CASE rec.len = HeaderLen
  BY <1>2, BlockFacts
<1>3. CASE rec.len \in RedoLens
  <2>1. rec.len \in Nat /\ HeaderLen <= rec.len /\ rec.len <= BlockData * (BufBlocks - 1)
    BY <1>3, CLogBufferAssumption
  <2>2. BlockData * (BufBlocks - 1) = BufferBytes - BlockData
    BY BlockFacts
  <2> QED
    BY <2>1, <2>2, BlockFacts
<1> QED
  BY <1>1, <1>2, <1>3

LEMMA BytesOfIs ==
  ASSUME NEW rec \in Records, NEW start \in Nat, NEW n \in Nat, start + n <= rec.len
  PROVE  /\ BytesOf(rec, start, n) \in Seq(Byte)
         /\ Len(BytesOf(rec, start, n)) = n
         /\ \A i \in 1 .. n : BytesOf(rec, start, n)[i] = <<rec, start + i>>
<1>1. \A i \in 1 .. n : <<rec, start + i>> \in Byte
  BY RecordFacts DEF Byte
<1> QED
  BY <1>1 DEF BytesOf

(* Block i of a sequence of bytes, if there is one: all of them but the    *)
(* last are full.                                                          *)
LEMMA CutIs ==
  ASSUME NEW S, NEW bytes \in Seq(S), NEW i \in 1 .. BlocksFor(Len(bytes))
  PROVE  /\ Cut(bytes, i) \in Seq(S)
         /\ Len(Cut(bytes, i)) \in 1 .. BlockData
         /\ Len(Cut(bytes, i)) = Lesser(i * BlockData, Len(bytes)) - (i - 1) * BlockData
         /\ \A j \in 1 .. Len(Cut(bytes, i)) : Cut(bytes, i)[j] = bytes[(i - 1) * BlockData + j]
<1> DEFINE n == Len(bytes)
           m == (i - 1) * BlockData
           e == Lesser(i * BlockData, n)
<1>1. n \in Nat
  OBVIOUS
<1>2. /\ BlocksFor(n) \in Nat
      /\ (BlocksFor(n) - 1) * BlockData < n
      /\ n <= BlocksFor(n) * BlockData
  BY <1>1, BlocksForIs
<1>3. m \in Nat /\ i * BlockData = m + BlockData
  <2>1. 0 * BlockData <= (i - 1) * BlockData /\ (i - 1) * BlockData \in Int
    <3>1. 0 \in Int /\ i - 1 \in Int /\ 0 <= i - 1
      BY <1>2
    <3> QED
      BY <3>1, TimesMonotone
  <2>2. i * BlockData = (i - 1) * BlockData + BlockData
    BY <1>2, BlockFacts
  <2> QED
    BY <2>1, <2>2, BlockFacts
<1>4. m < n
  <2>1. (i - 1) * BlockData <= (BlocksFor(n) - 1) * BlockData /\ (BlocksFor(n) - 1) * BlockData \in Int
    BY <1>2, TimesMonotone
  <2> QED
    BY <1>1, <1>2, <1>3, <2>1
<1>5. e \in Nat /\ m < e /\ e <= n /\ e <= m + BlockData
  BY <1>1, <1>3, <1>4, BlockFacts DEF Lesser
<1> HIDE DEF m, e
<1>6. Cut(bytes, i) = SubSeq(bytes, m + 1, e)
  BY DEF Cut, m, e
<1>7. /\ SubSeq(bytes, m + 1, e) \in Seq(S)
      /\ Len(SubSeq(bytes, m + 1, e)) = e - m
      /\ \A j \in 1 .. e - m : SubSeq(bytes, m + 1, e)[j] = bytes[m + j]
  BY <1>3, <1>5, SubSeqProperties
<1>8. e - m \in 1 .. BlockData
  BY <1>3, <1>5, BlockFacts
<1> QED
  BY <1>6, <1>7, <1>8 DEF m, e

-----------------------------------------------------------------------------
(* append_log_record *)

LEMMA TakenIs ==
  ASSUME NEW b, GoodBuffer(b), NEW rec \in Records, NEW start \in 0 .. rec.len
  PROVE  /\ Taken(b, rec, start) \in 0 .. rec.len - start
         /\ Len(b.bytes) + Taken(b, rec, start) <= BufferBytes
         /\ start + Taken(b, rec, start) < rec.len
              => Len(b.bytes) + Taken(b, rec, start) = BufferBytes
<1>1. Len(b.bytes) \in Nat /\ Len(b.bytes) <= BufferBytes
  BY DEF GoodBuffer
<1>2. rec.len \in Nat /\ BufferBytes \in Nat
  BY RecordFacts, BlockFacts
<1> QED
  BY <1>1, <1>2 DEF Taken, Lesser

(* first_rec_offset_ lies in its block, when the record goes on at o. *)
LEMMA FirstRecOffsetIs ==
  ASSUME NEW rec \in Records, NEW o \in 0 .. rec.len
  PROVE  FirstRecOffset(rec, o) \in 0 .. BlockData
<1>1. rec.len \in Nat
  BY RecordFacts
<1> QED
  BY <1>1, BlockFacts DEF FirstRecOffset

(* The buffer with the part of the record that it takes: the bytes follow  *)
(* those before, and a block begins where one is needed.                   *)
LEMMA AppendedGood ==
  ASSUME NEW b, GoodBuffer(b), NEW rec \in Records, NEW start \in 0 .. rec.len
  PROVE  /\ GoodBuffer(Appended(b, rec, start))
         /\ Appended(b, rec, start).bytes = b.bytes \o BytesOf(rec, start, Taken(b, rec, start))
         /\ Len(Appended(b, rec, start).bytes) = Len(b.bytes) + Taken(b, rec, start)
         /\ Len(b.first) <= Len(Appended(b, rec, start).first)
<1> DEFINE n == Taken(b, rec, start)
           m == Len(b.bytes)
           old == Len(b.first)
           new == BlocksFor(m + n) - old
           more == [i \in 1 .. new |-> FirstRecOffset(rec, start + (old + i - 1) * BlockData - m)]
           b2 == Appended(b, rec, start)
<1>1. rec.len \in Nat
  BY RecordFacts
<1>2. /\ b.bytes \in Seq(Byte)
      /\ b.first \in Seq(0 .. BlockData)
      /\ m \in Nat
      /\ old \in Nat
      /\ old = BlocksFor(m)
  BY DEF GoodBuffer
<1>3. n \in Nat /\ start + n <= rec.len /\ m + n <= BufferBytes
  BY <1>1, TakenIs
<1>4. b2 = [bytes |-> b.bytes \o BytesOf(rec, start, n), first |-> b.first \o more]
  BY DEF Appended
<1> DEFINE k == BlocksFor(m + n)
<1>5. k \in Nat /\ (k - 1) * BlockData < m + n
  <2>1. m + n \in Nat
    BY <1>2, <1>3
  <2> QED
    BY <2>1, BlocksForIs
<1>6. m <= old * BlockData
  BY <1>2, BlocksForIs
<1>7. old <= k /\ new = k - old
  <2>1. (old - 1) * BlockData < m /\ m + n <= k * BlockData
    <3>1. m + n \in Nat
      BY <1>2, <1>3
    <3> QED
      BY <1>2, <3>1, BlocksForIs
  <2> HIDE DEF k, m, old
  <2>2. SUFFICES ASSUME k < old PROVE FALSE
    BY <1>2, <1>5 DEF k
  <2> DEFINE o == old - 1
  <2>3. o \in Int /\ k <= o
    BY <1>2, <1>5, <2>2
  <2> HIDE DEF o
  <2>4. k * BlockData <= o * BlockData /\ k * BlockData \in Int /\ o * BlockData \in Int
    BY <1>5, <2>3, TimesMonotone
  <2> QED
    BY <1>2, <1>3, <2>1, <2>4 DEF o
<1> HIDE DEF n, b2, m, old, new, k
<1>8. \A i \in 1 .. new : FirstRecOffset(rec, start + (old + i - 1) * BlockData - m) \in 0 .. BlockData
  <2> TAKE i \in 1 .. new
  <2> DEFINE x == old + i - 1
             y == k - 1
  <2>1. x \in Int /\ y \in Int /\ old <= x /\ x <= y
    BY <1>2, <1>5, <1>7
  <2> HIDE DEF x, y
  <2>2. old * BlockData <= x * BlockData /\ old * BlockData \in Int
    BY <1>2, <2>1, TimesMonotone
  <2>3. x * BlockData <= y * BlockData /\ x * BlockData \in Int /\ y * BlockData \in Int
    BY <2>1, TimesMonotone
  <2>4. y * BlockData < m + n
    BY <1>5 DEF y
  <2>5. start + x * BlockData - m \in 0 .. rec.len
    BY <1>1, <1>2, <1>3, <1>6, <2>2, <2>3, <2>4
  <2> QED
    BY <2>5, FirstRecOffsetIs DEF x
<1>9. more \in Seq(0 .. BlockData) /\ Len(more) = new
  <2>1. new \in Nat
    BY <1>2, <1>5, <1>7
  <2> QED
    BY <1>8, <2>1
<1> HIDE DEF more
<1>10. BytesOf(rec, start, n) \in Seq(Byte) /\ Len(BytesOf(rec, start, n)) = n
  BY <1>3, BytesOfIs
<1>11. /\ b2.first \in Seq(0 .. BlockData)
       /\ Len(b2.first) = old + new
  BY <1>2, <1>4, <1>9, ConcatProperties DEF old
<1>12. /\ b2.bytes \in Seq(Byte)
       /\ Len(b2.bytes) = m + n
  BY <1>2, <1>4, <1>10, ConcatProperties DEF m
<1>13. b2 \in [bytes : Seq(Byte), first : Seq(0 .. BlockData)]
  BY <1>4, <1>11, <1>12
<1>14. Len(b2.first) = BlocksFor(Len(b2.bytes)) /\ old <= Len(b2.first)
  BY <1>2, <1>5, <1>7, <1>11, <1>12 DEF k
<1>15. GoodBuffer(b2)
  BY <1>3, <1>12, <1>13, <1>14 DEF GoodBuffer
<1> QED
  BY <1>4, <1>12, <1>14, <1>15 DEF n, b2, m, old

(* Appending adds to the buffer what it adds to the log. *)
LEMMA AppendedHolds ==
  ASSUME NEW f \in Seq(Block), NEW b, NEW c \in Int, NEW st \in Seq(Byte),
         GoodBuffer(b), Holds(f, b, c, st),
         NEW rec \in Records, NEW start \in 0 .. rec.len
  PROVE  Holds(f, Appended(b, rec, start), CurAfter(c, b, Appended(b, rec, start)),
               st \o BytesOf(rec, start, Taken(b, rec, start)))
<1> DEFINE b2 == Appended(b, rec, start)
           c2 == CurAfter(c, b, b2)
           n == Taken(b, rec, start)
           more == BytesOf(rec, start, n)
           st2 == st \o more
           base == c - Len(b.first)
           off == base * BlockData
<1>1. /\ GoodBuffer(b2)
      /\ b2.bytes = b.bytes \o more
      /\ Len(b2.bytes) = Len(b.bytes) + n
  BY AppendedGood
<1>2. rec.len \in Nat
  BY RecordFacts
<1>3. n \in Nat /\ start + n <= rec.len
  BY <1>2, TakenIs
<1>4. more \in Seq(Byte) /\ Len(more) = n
  BY <1>3, BytesOfIs
<1>5. /\ b.bytes \in Seq(Byte)
      /\ b.first \in Seq(0 .. BlockData)
      /\ b2.first \in Seq(0 .. BlockData)
  BY <1>1 DEF GoodBuffer
<1>6. c2 - Len(b2.first) = base /\ base \in Int
  BY <1>5 DEF CurAfter
<1>7. /\ base >= 0
      /\ Len(f) \in {base, base + 1}
      /\ Len(st) = off + Len(b.bytes)
      /\ \A i \in 1 .. base :
           /\ Len(f[i].data) = BlockData
           /\ \A j \in 1 .. BlockData : f[i].data[j] = st[(i - 1) * BlockData + j]
      /\ \A j \in 1 .. Len(b.bytes) : b.bytes[j] = st[off + j]
      /\ Len(f) = base + 1 =>
           /\ Len(f[base + 1].data) \in 1 .. BlockData - 1
           /\ Len(f[base + 1].data) <= Len(b.bytes)
           /\ \A j \in 1 .. Len(f[base + 1].data) : f[base + 1].data[j] = b.bytes[j]
  BY DEF Holds, HoldsFrom
<1>8. off \in Nat
  <2>1. base \in Nat
    BY <1>6, <1>7
  <2> HIDE DEF base
  <2> QED
    BY <2>1, TimesNat
<1> DEFINE m == Len(b.bytes)
<1>9. m \in Nat /\ Len(st) = off + m
  BY <1>5, <1>7
<1> HIDE DEF b2, n, more, base, off, m
<1>10. /\ st2 \in Seq(Byte)
       /\ Len(st2) = off + m + n
       /\ \A k \in 1 .. off + m : st2[k] = st[k]
       /\ \A k \in off + m + 1 .. off + m + n : st2[k] = more[k - (off + m)]
  <2>1. /\ st2 \in Seq(Byte)
        /\ Len(st2) = Len(st) + Len(more)
        /\ \A k \in 1 .. Len(st) + Len(more) :
             st2[k] = IF k <= Len(st) THEN st[k] ELSE more[k - Len(st)]
    <3>1. st \in Seq(Byte) /\ more \in Seq(Byte)
      BY <1>4
    <3> QED
      BY <3>1, ConcatProperties
  <2> HIDE DEF st2
  <2>2. Len(st) = off + m /\ Len(more) = n /\ off \in Nat /\ m \in Nat /\ n \in Nat
    BY <1>3, <1>4, <1>8, <1>9
  <2>3. Len(st2) = off + m + n
    BY <2>1, <2>2
  <2>4. ASSUME NEW i \in 1 .. off + m PROVE st2[i] = st[i]
    <3>1. i \in 1 .. Len(st) + Len(more) /\ i <= Len(st)
      BY <2>2
    <3> QED
      BY <2>1, <3>1
  <2>5. ASSUME NEW i \in off + m + 1 .. off + m + n PROVE st2[i] = more[i - (off + m)]
    <3>1. i \in 1 .. Len(st) + Len(more) /\ ~ (i <= Len(st)) /\ i - Len(st) = i - (off + m)
      BY <2>2
    <3> QED
      BY <2>1, <3>1
  <2> QED
    BY <2>1, <2>3, <2>4, <2>5
<1>11. /\ Len(b2.bytes) = m + n
       /\ \A k \in 1 .. m : b2.bytes[k] = b.bytes[k]
       /\ \A k \in m + 1 .. m + n : b2.bytes[k] = more[k - m]
  BY <1>1, <1>3, <1>4, <1>5, <1>9, ConcatProperties DEF m
<1> HIDE DEF st2
<1>12. \A j \in 1 .. Len(b2.bytes) : b2.bytes[j] = st2[off + j]
  <2> TAKE j \in 1 .. Len(b2.bytes)
  <2>1. CASE j <= m
    <3>1. j \in 1 .. m /\ off + j \in 1 .. off + m
      BY <1>3, <1>8, <1>9, <1>11, <2>1
    <3>2. b.bytes[j] = st[off + j]
      BY <1>7, <3>1 DEF m
    <3> QED
      BY <1>10, <1>11, <3>1, <3>2
  <2>2. CASE j > m
    <3> DEFINE x == off + j
    <3>1. /\ j \in m + 1 .. m + n
          /\ x \in off + m + 1 .. off + m + n
          /\ x - (off + m) = j - m
      BY <1>3, <1>8, <1>9, <1>11, <2>2
    <3> HIDE DEF x
    <3>2. st2[x] = more[x - (off + m)]
      BY <1>10, <3>1
    <3>3. b2.bytes[j] = more[j - m]
      BY <1>11, <3>1
    <3> QED
      BY <3>1, <3>2, <3>3 DEF x
  <2> QED
    BY <1>9, <2>1, <2>2
<1>13. \A i \in 1 .. base :
         /\ Len(f[i].data) = BlockData
         /\ \A j \in 1 .. BlockData : f[i].data[j] = st2[(i - 1) * BlockData + j]
  <2> SUFFICES ASSUME NEW i \in 1 .. base, NEW j \in 1 .. BlockData
               PROVE  st[(i - 1) * BlockData + j] = st2[(i - 1) * BlockData + j]
    BY <1>7
  <2> DEFINE x == i - 1
             y == base - 1
  <2>1. x \in Int /\ y \in Int /\ 0 <= x /\ x <= y
    BY <1>6
  <2>2. y * BlockData = off - BlockData
    BY <1>6, BlockFacts DEF off
  <2> HIDE DEF x, y
  <2>3. x * BlockData \in Nat
    <3>1. x \in Nat
      BY <2>1
    <3> QED
      BY <3>1, TimesNat
  <2>4. x * BlockData <= y * BlockData
    BY <2>1, TimesMonotone
  <2>5. x * BlockData + j \in 1 .. off + m
    BY <1>8, <1>9, <2>2, <2>3, <2>4, BlockFacts
  <2> QED
    BY <1>10, <2>5 DEF x
<1>14. Len(f) = base + 1 =>
         /\ Len(f[base + 1].data) \in 1 .. BlockData - 1
         /\ Len(f[base + 1].data) <= Len(b2.bytes)
         /\ \A j \in 1 .. Len(f[base + 1].data) : f[base + 1].data[j] = b2.bytes[j]
  <2> SUFFICES ASSUME Len(f) = base + 1
               PROVE  /\ Len(f[base + 1].data) \in 1 .. BlockData - 1
                      /\ Len(f[base + 1].data) <= Len(b2.bytes)
                      /\ \A j \in 1 .. Len(f[base + 1].data) : f[base + 1].data[j] = b2.bytes[j]
    OBVIOUS
  <2> DEFINE d == f[base + 1].data
  <2>1. /\ Len(d) \in 1 .. BlockData - 1
        /\ Len(d) <= m
        /\ \A j \in 1 .. Len(d) : d[j] = b.bytes[j]
    BY <1>7 DEF m
  <2> HIDE DEF d
  <2>2. Len(d) <= m + n /\ \A j \in 1 .. Len(d) : j \in 1 .. m
    BY <1>3, <1>9, <2>1, BlockFacts
  <2> QED
    BY <1>11, <2>1, <2>2 DEF d
<1>15. Len(st2) = off + Len(b2.bytes)
  BY <1>8, <1>9, <1>3, <1>10, <1>11
<1>16. HoldsFrom(f, b2.bytes, base, st2)
  BY <1>7, <1>12, <1>13, <1>14, <1>15 DEF HoldsFrom, off
<1> QED
  BY <1>6, <1>16 DEF Holds, b2, n, more, st2, base

-----------------------------------------------------------------------------
(* flush_buffer *)

LEMMA EmptyBufferGood == GoodBuffer(EmptyBuffer) /\ Len(EmptyBuffer.first) = 0 /\ Len(EmptyBuffer.bytes) = 0
<1>1. EmptyBuffer \in [bytes : Seq(Byte), first : Seq(0 .. BlockData)]
  BY DEF EmptyBuffer
<1>2. Len(EmptyBuffer.first) = 0 /\ Len(EmptyBuffer.bytes) = 0
  BY DEF EmptyBuffer
<1>3. BlocksFor(0) = 0
  <2>1. (0 - 1) * BlockData < 0 /\ 0 <= 0 * BlockData
    BY BlockFacts
  <2> QED
    BY <2>1, BlocksForUnique
<1> QED
  BY <1>1, <1>2, <1>3, BlockFacts DEF GoodBuffer

(* A buffer of one block that is not full. *)
LEMMA OneBlockGood ==
  ASSUME NEW d \in Seq(Byte), NEW x \in 0 .. BlockData, Len(d) \in 1 .. BlockData
  PROVE  GoodBuffer([bytes |-> d, first |-> <<x>>])
<1>1. BlocksFor(Len(d)) = 1
  <2>1. (1 - 1) * BlockData < Len(d) /\ Len(d) <= 1 * BlockData
    BY BlockFacts
  <2> QED
    BY <2>1, BlocksForUnique
<1>2. <<x>> \in Seq(0 .. BlockData) /\ Len(<<x>>) = 1
  OBVIOUS
<1>3. [bytes |-> d, first |-> <<x>>] \in [bytes : Seq(Byte), first : Seq(0 .. BlockData)]
  BY <1>2
<1>4. Len(d) <= BufferBytes
  BY BlockFacts
<1> QED
  BY <1>1, <1>2, <1>3, <1>4 DEF GoodBuffer

LEMMA BlockOfIs ==
  ASSUME NEW b, GoodBuffer(b), NEW i \in 1 .. Len(b.first)
  PROVE  BlockOf(b, i) \in Block
<1>1. /\ b.bytes \in Seq(Byte)
      /\ i \in 1 .. BlocksFor(Len(b.bytes))
      /\ b.first \in Seq(0 .. BlockData)
  BY DEF GoodBuffer
<1>2. Cut(b.bytes, i) \in Seq(Byte) /\ Len(Cut(b.bytes, i)) \in 1 .. BlockData
  BY <1>1, CutIs
<1>3. b.first[i] \in 0 .. BlockData
  BY <1>1, ElementOfSeq
<1> QED
  BY <1>2, <1>3 DEF BlockOf, Block

(* What stays in the buffer: nothing, or a last block that is not full. *)
LEMMA KeptIs ==
  ASSUME NEW b, GoodBuffer(b)
  PROVE  /\ GoodBuffer(Kept(b))
         /\ \/ /\ Kept(b) = EmptyBuffer
               /\ Len(b.bytes) = Len(b.first) * BlockData
            \/ /\ Len(b.first) >= 1
               /\ Len(b.bytes) < Len(b.first) * BlockData
               /\ Kept(b).bytes = Cut(b.bytes, Len(b.first))
               /\ Len(Kept(b).first) = 1
<1> DEFINE n == Len(b.bytes)
           k == Len(b.first)
<1>1. /\ b.bytes \in Seq(Byte)
      /\ b.first \in Seq(0 .. BlockData)
      /\ n \in Nat
      /\ k \in Nat
      /\ k = BlocksFor(n)
  BY DEF GoodBuffer
<1>2. CASE n % BlockData = 0
  <2>1. n = k * BlockData
    BY <1>1, <1>2, FullIs
  <2> QED
    BY <1>2, <2>1, EmptyBufferGood DEF Kept
<1>3. CASE n % BlockData # 0
  <2>1. n < k * BlockData /\ k >= 1
    BY <1>1, <1>3, FullIs
  <2>2. b.first[k] \in 0 .. BlockData
    <3>1. k \in 1 .. Len(b.first)
      BY <1>1, <2>1
    <3> QED
      BY <1>1, <3>1, ElementOfSeq
  <2>3. /\ Cut(b.bytes, k) \in Seq(Byte)
        /\ Len(Cut(b.bytes, k)) \in 1 .. BlockData
    <3>1. k \in 1 .. BlocksFor(n)
      BY <1>1, <2>1
    <3> QED
      BY <1>1, <3>1, CutIs
  <2>4. Kept(b) = [bytes |-> Cut(b.bytes, k), first |-> <<b.first[k]>>]
    BY <1>3 DEF Kept, BlockOf
  <2>5. GoodBuffer(Kept(b))
    BY <2>2, <2>3, <2>4, OneBlockGood
  <2> QED
    BY <2>1, <2>4, <2>5
<1> QED
  BY <1>2, <1>3

(* The blocks of the file after a flush. *)
LEMMA FlushedIs ==
  ASSUME NEW f, NEW b, NEW c, GoodBuffer(b), Placed(f, b, c)
  PROVE  /\ Flushed(f, b, c) \in Seq(Block)
         /\ Len(Flushed(f, b, c)) = IF c > Len(f) THEN c ELSE Len(f)
         /\ \A i \in 1 .. Len(Flushed(f, b, c)) :
              Flushed(f, b, c)[i] = IF c - Len(b.first) < i /\ i <= c
                                    THEN BlockOf(b, i - (c - Len(b.first))) ELSE f[i]
<1> DEFINE base == c - Len(b.first)
           n == IF c > Len(f) THEN c ELSE Len(f)
           e(i) == IF base < i /\ i <= c THEN BlockOf(b, i - base) ELSE f[i]
<1>1. /\ b.first \in Seq(0 .. BlockData)
      /\ Len(b.first) \in Nat
      /\ f \in Seq(Block)
      /\ Len(f) \in Nat
      /\ c \in Int
      /\ base \in Int
      /\ base <= Len(f)
      /\ c = base + Len(b.first)
  BY DEF GoodBuffer, Placed
<1>2. Flushed(f, b, c) = [i \in 1 .. n |-> e(i)]
  BY DEF Flushed
<1>3. n \in Nat
  BY <1>1
<1>4. \A i \in 1 .. n : e(i) \in Block
  <2> TAKE i \in 1 .. n
  <2> HIDE DEF base
  <2>1. CASE base < i /\ i <= c
    <3>1. i - base \in 1 .. Len(b.first)
      BY <1>1, <2>1
    <3> QED
      BY <2>1, <3>1, BlockOfIs
  <2>2. CASE ~ (base < i /\ i <= c)
    <3>1. i \in 1 .. Len(f)
      BY <1>1, <2>2
    <3> QED
      BY <1>1, <2>2, <3>1
  <2> QED
    BY <2>1, <2>2
<1> HIDE DEF e, n
<1>5. Flushed(f, b, c) \in Seq(Block) /\ Len(Flushed(f, b, c)) = n
  BY <1>2, <1>3, <1>4
<1>6. \A i \in 1 .. n : Flushed(f, b, c)[i] = e(i)
  BY <1>2
<1> QED
  BY <1>5, <1>6 DEF e, n

LEMMA FlushedPlaced ==
  ASSUME NEW f, NEW b, NEW c, GoodBuffer(b), Placed(f, b, c)
  PROVE  Placed(Flushed(f, b, c), Kept(b), c)
<1>1. /\ Flushed(f, b, c) \in Seq(Block)
      /\ Len(Flushed(f, b, c)) = IF c > Len(f) THEN c ELSE Len(f)
  BY FlushedIs
<1>2. /\ Len(b.first) \in Nat /\ Len(f) \in Nat /\ c \in Int /\ c - Len(b.first) >= -1
  BY DEF GoodBuffer, Placed
<1>3. \/ Len(Kept(b).first) = 0
      \/ Len(b.first) >= 1 /\ Len(Kept(b).first) = 1
  BY KeptIs, EmptyBufferGood
<1>4. c - Len(Kept(b).first) >= -1 /\ c - Len(Kept(b).first) <= Len(Flushed(f, b, c))
  <2> DEFINE kept == Len(Kept(b).first)
             old == Len(b.first)
             n == Len(f)
             n2 == Len(Flushed(f, b, c))
  <2>1. /\ old \in Nat /\ n \in Nat /\ c \in Int /\ c - old >= -1
        /\ n2 = IF c > n THEN c ELSE n
        /\ kept = 0 \/ (old >= 1 /\ kept = 1)
    BY <1>1, <1>2, <1>3
  <2> HIDE DEF kept, old, n, n2
  <2>2. c - kept >= -1 /\ c - kept <= n2
    BY <2>1
  <2> QED
    BY <2>2 DEF kept, n2
<1> QED
  BY <1>1, <1>2, <1>4 DEF Placed

(* The blocks of g begin with those of f: what was in the file stays. *)
Grown(f, g) ==
  /\ Len(f) <= Len(g)
  /\ \A i \in 1 .. Len(f) :
       /\ Len(f[i].data) <= Len(g[i].data)
       /\ \A j \in 1 .. Len(f[i].data) : g[i].data[j] = f[i].data[j]

\* byte x is in a block of f
InBlocks(f, x) == \E i \in 1 .. Len(f) : \E j \in 1 .. Len(f[i].data) : f[i].data[j] = x

(* A flush moves bytes from the buffer to the file and loses none, neither *)
(* of the buffer nor of the file.                                          *)
LEMMA FlushedHolds ==
  ASSUME NEW f, NEW b, NEW c, NEW st \in Seq(Byte),
         GoodBuffer(b), Placed(f, b, c), Holds(f, b, c, st)
  PROVE  /\ Holds(Flushed(f, b, c), Kept(b), c, st)
         /\ Grown(f, Flushed(f, b, c))
         /\ Len(b.bytes) > 0 => InBlocks(Flushed(f, b, c), b.bytes[Len(b.bytes)])
<1> DEFINE g == Flushed(f, b, c)
           k == Len(b.first)
           n == Len(b.bytes)
           base == c - k
           off == base * BlockData
<1>1. /\ b.bytes \in Seq(Byte)
      /\ b.first \in Seq(0 .. BlockData)
      /\ k \in Nat
      /\ n \in Nat
      /\ k = BlocksFor(n)
      /\ f \in Seq(Block)
      /\ Len(f) \in Nat
      /\ c \in Int
      /\ c = base + k
  BY DEF GoodBuffer, Placed
<1>2. /\ base \in Nat
      /\ Len(f) \in {base, base + 1}
      /\ Len(st) = off + n
      /\ \A i \in 1 .. base :
           /\ Len(f[i].data) = BlockData
           /\ \A j \in 1 .. BlockData : f[i].data[j] = st[(i - 1) * BlockData + j]
      /\ \A j \in 1 .. n : b.bytes[j] = st[off + j]
      /\ Len(f) = base + 1 =>
           /\ Len(f[base + 1].data) \in 1 .. BlockData - 1
           /\ Len(f[base + 1].data) <= n
           /\ \A j \in 1 .. Len(f[base + 1].data) : f[base + 1].data[j] = b.bytes[j]
  BY <1>1 DEF Holds, HoldsFrom
<1>3. off \in Nat
  <2> HIDE DEF base
  <2> QED
    BY <1>2, TimesNat
<1>4. /\ (k - 1) * BlockData < n
      /\ n <= k * BlockData
  BY <1>1, BlocksForIs
<1>5. /\ g \in Seq(Block)
      /\ Len(g) = IF c > Len(f) THEN c ELSE Len(f)
      /\ \A i \in 1 .. Len(g) : g[i] = IF base < i /\ i <= c THEN BlockOf(b, i - base) ELSE f[i]
  BY FlushedIs
<1> HIDE DEF g, base, off, k, n
<1>6. Len(g) = c /\ base <= c
  <2>1. Len(f) = base + 1 => k >= 1
    <3>1. SUFFICES ASSUME Len(f) = base + 1, k = 0 PROVE FALSE
      BY <1>1
    <3>2. n <= 0
      BY <1>1, <1>4, <3>1, BlockFacts
    <3> QED
      BY <1>1, <1>2, <3>1, <3>2, BlockFacts
  <2> QED
    BY <1>1, <1>2, <1>5, <2>1
<1>7. \A i \in 1 .. base : i \in 1 .. Len(g) /\ g[i] = f[i]
  BY <1>1, <1>2, <1>5, <1>6
<1>8. \A i \in 1 .. k : base + i \in 1 .. Len(g) /\ g[base + i].data = Cut(b.bytes, i)
  <2> TAKE i \in 1 .. k
  <2> DEFINE x == base + i
  <2>1. x \in 1 .. Len(g) /\ base < x /\ x <= c /\ x - base = i
    BY <1>1, <1>2, <1>6
  <2> HIDE DEF x
  <2>2. g[x] = BlockOf(b, x - base)
    BY <1>5, <2>1
  <2> QED
    BY <2>1, <2>2 DEF BlockOf, x
<1>9. \A i \in 1 .. k :
        /\ Len(Cut(b.bytes, i)) \in 1 .. BlockData
        /\ Len(Cut(b.bytes, i)) = Lesser(i * BlockData, n) - (i - 1) * BlockData
        /\ \A j \in 1 .. Len(Cut(b.bytes, i)) : Cut(b.bytes, i)[j] = b.bytes[(i - 1) * BlockData + j]
  BY <1>1, CutIs DEF n
<1>10. \A i \in 1 .. k : \A j \in 1 .. Len(Cut(b.bytes, i)) :
         Cut(b.bytes, i)[j] = st[(base + i - 1) * BlockData + j]
  <2> TAKE i \in 1 .. k
  <2> TAKE j \in 1 .. Len(Cut(b.bytes, i))
  <2> DEFINE x == i - 1
             y == x * BlockData + j
  <2>1. x \in Nat /\ i = x + 1
    BY <1>1
  <2>2. (base + i - 1) * BlockData + j = off + y
    BY <1>1, <1>2, <2>1, BlockFacts DEF off
  <2> HIDE DEF x
  <2>3. x * BlockData \in Nat /\ i * BlockData = x * BlockData + BlockData
    <3>1. i * BlockData = x * BlockData + BlockData
      BY <2>1, BlockFacts
    <3> QED
      BY <2>1, <3>1, TimesNat
  <2> DEFINE w == x * BlockData
  <2>4. /\ Len(Cut(b.bytes, i)) = Lesser(w + BlockData, n) - w
        /\ Cut(b.bytes, i)[j] = b.bytes[y]
        /\ Len(Cut(b.bytes, i)) \in Nat
    BY <1>9, <2>3 DEF x
  <2> HIDE DEF w
  <2>5. w + j \in 1 .. n
    <3> DEFINE len == Len(Cut(b.bytes, i))
    <3>1. w \in Nat /\ Lesser(w + BlockData, n) <= n /\ Lesser(w + BlockData, n) \in Nat
      BY <1>1, <2>3, BlockFacts DEF Lesser, w
    <3>2. len \in Nat /\ j \in 1 .. len /\ len = Lesser(w + BlockData, n) - w
      BY <2>4
    <3> HIDE DEF len
    <3> DEFINE z == Lesser(w + BlockData, n)
    <3>3. z \in Nat /\ z <= n /\ len = z - w /\ w \in Nat
      BY <3>1, <3>2
    <3>4. n \in Nat
      BY <1>1
    <3> HIDE DEF z
    <3> QED
      BY <3>2, <3>3, <3>4
  <2>6. b.bytes[w + j] = st[off + (w + j)]
    BY <1>2, <2>5
  <2> QED
    BY <2>2, <2>4, <2>6 DEF w
<1>11. \A i \in 1 .. k : (i < k \/ n = k * BlockData) => Len(Cut(b.bytes, i)) = BlockData
  <2> TAKE i \in 1 .. k
  <2> HAVE i < k \/ n = k * BlockData
  <2>1. i \in Int /\ i <= k /\ i * BlockData \in Int /\ (i - 1) * BlockData = i * BlockData - BlockData
    BY <1>1, BlockFacts
  <2>2. i * BlockData <= n
    <3>1. CASE i < k
      <4> DEFINE y == k - 1
      <4>1. y \in Int /\ i <= y
        BY <1>1, <2>1, <3>1
      <4>2. y * BlockData < n
        BY <1>4
      <4> HIDE DEF y
      <4>3. i * BlockData <= y * BlockData /\ y * BlockData \in Int
        BY <2>1, <4>1, TimesMonotone
      <4> QED
        BY <1>1, <2>1, <4>2, <4>3
    <3>2. CASE n = k * BlockData
      BY <1>1, <2>1, <3>2, TimesMonotone
    <3> QED
      BY <3>1, <3>2
  <2>3. Len(Cut(b.bytes, i)) = Lesser(i * BlockData, n) - (i - 1) * BlockData
    BY <1>9
  <2>4. Lesser(i * BlockData, n) = i * BlockData
    BY <1>1, <2>1, <2>2 DEF Lesser
  <2> QED
    BY <2>1, <2>3, <2>4, BlockFacts
<1>12. Grown(f, g)
  <2>1. Len(f) <= Len(g)
    BY <1>1, <1>5
  <2>2. ASSUME NEW i \in 1 .. Len(f)
        PROVE  /\ Len(f[i].data) <= Len(g[i].data)
               /\ \A j \in 1 .. Len(f[i].data) : g[i].data[j] = f[i].data[j]
    <3>1. CASE i <= base
      <4>1. i \in 1 .. base
        BY <1>1, <1>2, <3>1
      <4>2. g[i] = f[i] /\ Len(f[i].data) = BlockData
        BY <1>2, <1>7, <4>1
      <4> QED
        BY <4>2, BlockFacts
    <3>2. CASE i > base
      <4>1. i = base + 1 /\ Len(f) = base + 1 /\ 1 \in 1 .. k
        BY <1>1, <1>2, <1>6, <2>1, <3>2
      <4>2. /\ Len(f[i].data) \in 1 .. BlockData - 1
            /\ Len(f[i].data) <= n
            /\ \A j \in 1 .. Len(f[i].data) : f[i].data[j] = b.bytes[j]
        BY <1>2, <4>1
      <4>3. g[i].data = Cut(b.bytes, 1)
        BY <1>8, <4>1
      <4>4. (1 - 1) * BlockData = 0 /\ 1 * BlockData = BlockData
        BY BlockFacts
      <4>5. /\ Len(Cut(b.bytes, 1)) = Lesser(BlockData, n)
            /\ \A j \in 1 .. Len(Cut(b.bytes, 1)) : Cut(b.bytes, 1)[j] = b.bytes[0 + j]
        <5>1. /\ Len(Cut(b.bytes, 1)) = Lesser(1 * BlockData, n) - (1 - 1) * BlockData
              /\ \A j \in 1 .. Len(Cut(b.bytes, 1)) :
                   Cut(b.bytes, 1)[j] = b.bytes[(1 - 1) * BlockData + j]
          BY <1>9, <4>1
        <5>2. Lesser(BlockData, n) - 0 = Lesser(BlockData, n)
          BY <1>1, BlockFacts DEF Lesser
        <5> QED
          BY <4>4, <5>1, <5>2
      <4>6. Len(f[i].data) <= Lesser(BlockData, n) /\ Lesser(BlockData, n) \in Nat
        BY <1>1, <4>2, BlockFacts DEF Lesser
      <4>7. \A j \in 1 .. Len(f[i].data) : Cut(b.bytes, 1)[j] = f[i].data[j]
        <5> TAKE j \in 1 .. Len(f[i].data)
        <5>1. j \in 1 .. Len(Cut(b.bytes, 1)) /\ 0 + j = j
          BY <4>2, <4>5, <4>6, BlockFacts
        <5> QED
          BY <4>2, <4>5, <5>1
      <4> QED
        BY <4>3, <4>5, <4>6, <4>7
    <3> QED
      BY <1>1, <1>2, <3>1, <3>2
  <2> QED
    BY <2>1, <2>2 DEF Grown
<1> DEFINE full == n = k * BlockData
           UpTo(e) == \A i \in 1 .. e :
             /\ Len(g[i].data) = BlockData
             /\ \A j \in 1 .. BlockData : g[i].data[j] = st[(i - 1) * BlockData + j]
<1>13. ASSUME NEW e \in Nat, base <= e, e <= c, e < c \/ full
       PROVE  UpTo(e)
  <2> TAKE i \in 1 .. e
  <2>0. base \in Nat /\ k \in Nat /\ c = base + k /\ i \in Nat /\ i >= 1 /\ i <= e
    BY <1>1, <1>2
  <2>1. CASE i <= base
    <3>1. i \in 1 .. base
      BY <2>0, <2>1
    <3>2. g[i] = f[i]
      BY <1>7, <3>1
    <3>3. /\ Len(f[i].data) = BlockData
          /\ \A j \in 1 .. BlockData : f[i].data[j] = st[(i - 1) * BlockData + j]
      BY <1>2, <3>1
    <3> QED
      BY <3>2, <3>3
  <2>2. CASE i > base
    <3> DEFINE x == i - base
    <3> HIDE DEF full
    <3>1. x \in 1 .. k /\ base + x = i /\ base + x - 1 = i - 1 /\ (x < k \/ full)
      <4>1. e <= c /\ (e < c \/ full)
        BY <1>13
      <4>2. x \in Int /\ x >= 1 /\ x <= k /\ base + x = i /\ base + x - 1 = i - 1
        BY <2>0, <2>2, <4>1
      <4>3. e < c => x < k
        BY <2>0
      <4>4. x \in 1 .. k
        BY <2>0, <4>2
      <4> QED
        BY <4>1, <4>2, <4>3, <4>4
    <3> HIDE DEF x
    <3>2. g[i].data = Cut(b.bytes, x)
      BY <1>8, <3>1
    <3>3. Len(Cut(b.bytes, x)) = BlockData
      BY <1>11, <3>1 DEF full
    <3>4. \A j \in 1 .. BlockData : Cut(b.bytes, x)[j] = st[(base + x - 1) * BlockData + j]
      BY <1>10, <3>1, <3>3
    <3> QED
      BY <3>1, <3>2, <3>3, <3>4
  <2> QED
    BY <2>0, <2>1, <2>2
<1>14. Holds(g, Kept(b), c, st)
  <2>1. CASE Kept(b) = EmptyBuffer /\ n = k * BlockData
    <3>1. Len(Kept(b).first) = 0 /\ Len(Kept(b).bytes) = 0
      BY <2>1, EmptyBufferGood
    <3>2. c - Len(Kept(b).first) = c /\ c \in Nat
      BY <1>1, <1>2, <3>1
    <3>3. Len(st) = c * BlockData + Len(Kept(b).bytes)
      <4>1. c * BlockData = off + k * BlockData
        BY <1>1, <1>2, BlockFacts DEF off
      <4> QED
        BY <1>2, <1>3, <1>1, <2>1, <3>1, <4>1
    <3>4. UpTo(c)
      <4> HIDE DEF UpTo
      <4>1. c \in Nat /\ base <= c /\ c <= c /\ full
        BY <1>6, <2>1, <3>2
      <4> QED
        BY <1>13, <4>1
    <3>5. Len(g) = c /\ c # c + 1 /\ \A j \in 1 .. Len(Kept(b).bytes) : FALSE
      BY <1>1, <1>6, <3>1
    <3>6. HoldsFrom(g, Kept(b).bytes, c, st)
      BY <3>2, <3>3, <3>4, <3>5 DEF HoldsFrom
    <3> QED
      BY <3>2, <3>6 DEF Holds
  <2>2. CASE /\ k >= 1
             /\ n < k * BlockData
             /\ Kept(b).bytes = Cut(b.bytes, k)
             /\ Len(Kept(b).first) = 1
    <3> DEFINE d == Cut(b.bytes, k)
               e == c - 1
               y == k - 1
    <3>1. e \in Nat /\ base <= e /\ e < c /\ k \in 1 .. k /\ e + 1 = c /\ e = base + k - 1 /\ y \in Nat
      <4>1. k >= 1
        BY <2>2
      <4>2. base \in Nat /\ k \in Nat /\ c = base + k
        BY <1>1, <1>2
      <4> QED
        BY <4>1, <4>2
    <3>2. /\ Len(d) = n - y * BlockData
          /\ k * BlockData = y * BlockData + BlockData
          /\ y * BlockData \in Nat
          /\ Len(d) \in 1 .. BlockData
      <4>1. Len(d) = Lesser(k * BlockData, n) - y * BlockData /\ Len(d) \in 1 .. BlockData
        BY <1>9, <3>1
      <4>2. k * BlockData = y * BlockData + BlockData
        BY <1>1, BlockFacts
      <4>3. y * BlockData \in Nat
        <5> HIDE DEF y
        <5> QED
          BY <3>1, TimesNat
      <4>4. Lesser(k * BlockData, n) = n
        BY <1>1, <2>2, <4>2, <4>3, BlockFacts DEF Lesser
      <4> QED
        BY <4>1, <4>2, <4>3, <4>4
    <3>3. Len(d) \in 1 .. BlockData - 1
      <4> DEFINE w == y * BlockData
                 z == k * BlockData
                 l == Len(d)
      <4>1. l = n - w /\ z = w + BlockData /\ w \in Nat /\ l \in 1 .. BlockData
        BY <3>2
      <4>2. n < z /\ n \in Nat /\ BlockData \in Nat
        BY <1>1, <2>2, BlockFacts
      <4> HIDE DEF w, z, l
      <4>3. l < BlockData /\ l \in Int /\ l >= 1
        BY <4>1, <4>2
      <4>4. l \in 1 .. BlockData - 1
        BY <4>2, <4>3
      <4> QED
        BY <4>4 DEF l
    <3>4. Len(st) = e * BlockData + Len(d)
      <4>1. e * BlockData = off + y * BlockData
        <5>1. e = base + y /\ base \in Int /\ y \in Int /\ BlockData \in Int
          BY <1>2, <3>1, BlockFacts
        <5> HIDE DEF e, y
        <5>2. (base + y) * BlockData = base * BlockData + y * BlockData
          BY <5>1
        <5> QED
          BY <5>1, <5>2 DEF off
      <4>2. Len(st) = off + n /\ off \in Nat /\ n \in Nat
        BY <1>1, <1>2, <1>3
      <4> DEFINE w == y * BlockData
                 z == e * BlockData
                 l == Len(d)
      <4>3. l = n - w /\ w \in Nat /\ z = off + w
        BY <3>2, <4>1
      <4> HIDE DEF w, z, l
      <4>4. Len(st) = z + l
        BY <4>2, <4>3
      <4> QED
        BY <4>4 DEF z, l
    <3>5. UpTo(e)
      <4> HIDE DEF e, full, UpTo
      <4>1. e <= c
        BY <1>1, <3>1
      <4> QED
        BY <1>13, <3>1, <4>1
    <3>6. \A j \in 1 .. Len(d) : d[j] = st[e * BlockData + j]
      BY <1>10, <3>1
    <3>7. g[e + 1].data = d
      <4>1. base + k = e + 1
        BY <1>1, <3>1
      <4> QED
        BY <1>8, <3>1, <4>1
    <3> HIDE DEF d, e, y
    <3>8. c - Len(Kept(b).first) = e
      BY <2>2 DEF e
    <3>9. Kept(b).bytes = d
      BY <2>2 DEF d
    <3>10. Len(g) = e + 1
      BY <1>6, <3>1
    <3>11. Len(d) <= Len(d)
      BY <3>2, BlockFacts
    <3>12. HoldsFrom(g, d, e, st)
      BY <3>1, <3>3, <3>4, <3>5, <3>6, <3>7, <3>10, <3>11 DEF HoldsFrom
    <3> QED
      BY <3>8, <3>9, <3>12 DEF Holds
  <2> QED
    BY <2>1, <2>2, KeptIs DEF k, n
<1>15. n > 0 => InBlocks(g, b.bytes[n])
  <2> HAVE n > 0
  <2> DEFINE y == k - 1
             d == Cut(b.bytes, k)
  <2>1. k \in 1 .. k
    <3>1. k # 0
      BY <1>1, <1>4, BlockFacts
    <3> QED
      BY <1>1, <3>1
  <2>2. Lesser(k * BlockData, n) = n
    <3>1. k * BlockData \in Int
      BY <1>1, BlockFacts
    <3> QED
      BY <1>1, <1>4, <3>1 DEF Lesser
  <2>3. y * BlockData \in Int
    BY <1>1, BlockFacts
  <2>4. /\ Len(d) = n - y * BlockData
        /\ Len(d) \in 1 .. BlockData
        /\ \A j \in 1 .. Len(d) : d[j] = b.bytes[y * BlockData + j]
    BY <1>9, <2>1, <2>2
  <2>5. base + k \in 1 .. Len(g) /\ g[base + k].data = d
    BY <1>8, <2>1
  <2> HIDE DEF y, d
  <2>6. Len(d) \in 1 .. Len(d) /\ y * BlockData + Len(d) = n
    BY <1>1, <2>3, <2>4, BlockFacts
  <2>7. d[Len(d)] = b.bytes[n]
    BY <2>4, <2>6
  <2> QED
    BY <2>5, <2>6, <2>7 DEF InBlocks
<1> QED
  BY <1>12, <1>14, <1>15 DEF g, n

-----------------------------------------------------------------------------
(* The actions *)

(* CommitDurable for a set of records d and the blocks of f. *)
InFile(d, f) == \A rec \in d : InBlocks(f, <<rec, rec.len>>)

LEMMA InFileIs ==
  ASSUME NEW f \in Seq(Block), NEW d
  PROVE  InFile(d, f) <=>
           \A rec \in d :
             \E i \in DOMAIN f : \E j \in DOMAIN f[i].data : f[i].data[j] = <<rec, rec.len>>
<1>1. DOMAIN f = 1 .. Len(f)
  OBVIOUS
<1>2. \A i \in 1 .. Len(f) : DOMAIN f[i].data = 1 .. Len(f[i].data)
  <2> TAKE i \in 1 .. Len(f)
  <2>1. f[i] \in Block
    BY ElementOfSeq
  <2>2. f[i].data \in Seq(Byte)
    BY <2>1 DEF Block
  <2> QED
    BY <2>2
<1> QED
  BY <1>1, <1>2 DEF InFile, InBlocks

LEMMA GrownKeeps ==
  ASSUME NEW f \in Seq(Block), NEW g \in Seq(Block), Grown(f, g), NEW d, InFile(d, f)
  PROVE  InFile(d, g)
<1> SUFFICES ASSUME NEW rec \in d
             PROVE  InBlocks(g, <<rec, rec.len>>)
  BY DEF InFile
<1>1. PICK i \in 1 .. Len(f) : \E j \in 1 .. Len(f[i].data) : f[i].data[j] = <<rec, rec.len>>
  BY DEF InFile, InBlocks
<1>2. PICK j \in 1 .. Len(f[i].data) : f[i].data[j] = <<rec, rec.len>>
  BY <1>1
<1>3. /\ i \in 1 .. Len(g)
      /\ Len(f[i].data) <= Len(g[i].data)
      /\ g[i].data[j] = f[i].data[j]
  BY DEF Grown
<1>4. f[i] \in Block /\ g[i] \in Block
  BY <1>3, ElementOfSeq
<1>5. Len(f[i].data) \in Nat /\ Len(g[i].data) \in Nat
  <2>1. f[i].data \in Seq(Byte)
    BY <1>4 DEF Block
  <2>2. g[i].data \in Seq(Byte)
    BY <1>4 DEF Block
  <2> QED
    BY <2>1, <2>2, LenProperties
<1>6. j \in 1 .. Len(g[i].data)
  BY <1>3, <1>5
<1> QED
  BY <1>2, <1>3, <1>6 DEF InBlocks

LEMMA InitIInv == Init => IInv
<1> SUFFICES ASSUME Init PROVE IInv
  OBVIOUS
<1>1. GoodBuffer(buf) /\ Len(buf.first) = 0 /\ Len(buf.bytes) = 0
  BY EmptyBufferGood DEF Init
<1>2. file \in Seq(Block) /\ Len(file) = 0 /\ stream \in Seq(Byte) /\ Len(stream) = 0
  BY DEF Init
<1>3. TypeOK
  BY <1>1, <1>2, CLogAssumption DEF Init, TypeOK, GoodBuffer
<1>4. Placed(file, buf, cur)
  BY <1>1, <1>2 DEF Init, Placed
<1>5. Holds(file, buf, cur, stream)
  <2>1. cur - Len(buf.first) = 0
    BY <1>1 DEF Init
  <2>2. HoldsFrom(file, buf.bytes, 0, stream)
    BY <1>1, <1>2, BlockFacts DEF HoldsFrom
  <2> QED
    BY <2>1, <2>2 DEF Holds
<1>6. CommitDurable
  BY DEF Init, CommitDurable
<1> QED
  BY <1>3, <1>4, <1>5, <1>6 DEF IInv, TypeInv

LEMMA IInvFacts ==
  ASSUME IInv
  PROVE  /\ GoodBuffer(buf)
         /\ Placed(file, buf, cur)
         /\ file \in Seq(Block)
         /\ stream \in Seq(Byte)
         /\ cur \in Int
         /\ ~ FullTail => Holds(file, buf, cur, stream) /\ InFile(done, file)
<1>1. TypeOK /\ Placed(file, buf, cur)
  BY DEF IInv, TypeInv
<1>2. GoodBuffer(buf) /\ file \in Seq(Block) /\ stream \in Seq(Byte) /\ cur \in Int
  BY <1>1 DEF TypeOK, GoodBuffer, Placed
<1> QED
  BY <1>1, <1>2, InFileIs DEF IInv, CommitDurable

LEMMA SyncIInv ==
  ASSUME IInv, ClogSync
  PROVE  IInv'
<1> USE IInvFacts
<1>1. /\ file' = Flushed(file, buf, cur)
      /\ buf' = Kept(buf)
      /\ UNCHANGED <<cur, stream, done, count, restarts>>
  BY DEF ClogSync
<1>2. GoodBuffer(buf') /\ Placed(file', buf', cur')
  BY <1>1, KeptIs, FlushedPlaced
<1>3. file' \in Seq(Block)
  BY <1>2 DEF Placed
<1>4. TypeOK'
  BY <1>1, <1>2, <1>3 DEF IInv, TypeInv, TypeOK, GoodBuffer
<1>5. ASSUME ~ FullTail
      PROVE  Holds(file', buf', cur', stream') /\ CommitDurable'
  <2>1. Holds(file', buf', cur', stream') /\ Grown(file, file')
    BY <1>1, <1>5, FlushedHolds
  <2>2. InFile(done, file')
    BY <1>3, <1>5, <2>1, GrownKeeps
  <2>3. CommitDurable'
    BY <1>1, <1>3, <2>2, InFileIs DEF CommitDurable
  <2> QED
    BY <2>1, <2>3
<1> QED
  BY <1>2, <1>4, <1>5 DEF IInv, TypeInv

LEMMA CurIs ==
  ASSUME NEW f, NEW b, NEW c, GoodBuffer(b), Placed(f, b, c)
  PROVE  c \in Nat \cup {-1}
<1>1. Len(b.first) \in Nat
  BY DEF GoodBuffer
<1> QED
  BY <1>1 DEF Placed

LEMMA AppendedPlaced ==
  ASSUME NEW f, NEW b, NEW c, GoodBuffer(b), Placed(f, b, c),
         NEW b2, GoodBuffer(b2)
  PROVE  Placed(f, b2, CurAfter(c, b, b2))
<1>1. Len(b.first) \in Nat /\ Len(b2.first) \in Nat /\ c \in Int
  BY DEF GoodBuffer, Placed
<1>2. CurAfter(c, b, b2) \in Int /\ CurAfter(c, b, b2) - Len(b2.first) = c - Len(b.first)
  BY <1>1 DEF CurAfter
<1> QED
  BY <1>2 DEF Placed

(* A buffer that is full is written as a whole. *)
LEMMA KeptOfFull ==
  ASSUME NEW b, GoodBuffer(b), Len(b.bytes) = BufferBytes
  PROVE  Kept(b) = EmptyBuffer
<1>1. BlocksFor(BufferBytes) = BufBlocks
  <2>1. /\ BufBlocks * BlockData = BufferBytes
        /\ (BufBlocks - 1) * BlockData = BufferBytes - BlockData
    BY BlockFacts
  <2>2. BufferBytes \in Nat /\ BufBlocks \in Int
    BY BlockFacts
  <2>3. (BufBlocks - 1) * BlockData < BufferBytes /\ BufferBytes <= BufBlocks * BlockData
    BY <2>1, <2>2, BlockFacts
  <2> QED
    BY <2>2, <2>3, BlocksForUnique
<1>2. Len(b.first) = BufBlocks
  BY <1>1 DEF GoodBuffer
<1>3. ~ (BufferBytes < BufBlocks * BlockData)
  BY BlockFacts
<1> QED
  BY <1>2, <1>3, KeptIs

(* The bytes of a record in two parts. *)
LEMMA BytesInParts ==
  ASSUME NEW rec \in Records, NEW n \in 0 .. rec.len, NEW st \in Seq(Byte)
  PROVE  /\ st \o BytesOf(rec, 0, n) \in Seq(Byte)
         /\ (st \o BytesOf(rec, 0, n)) \o BytesOf(rec, n, rec.len - n) = st \o BytesOf(rec, 0, rec.len)
<1> DEFINE len == rec.len
           r == len - n
           p == BytesOf(rec, 0, n)
           q == BytesOf(rec, n, r)
           w == BytesOf(rec, 0, len)
<1>1. /\ len \in Nat /\ n \in Nat /\ r \in Nat /\ n + r = len
      /\ 0 + n <= len /\ n + r <= len /\ 0 + len <= len /\ 0 \in Nat
  BY RecordFacts
<1> HIDE DEF len, r
<1>2. p \in Seq(Byte) /\ Len(p) = n /\ \A i \in 1 .. n : p[i] = <<rec, i>>
  <2>1. \A i \in 1 .. n : 0 + i = i
    OBVIOUS
  <2>2. p \in Seq(Byte) /\ Len(p) = n /\ \A i \in 1 .. n : p[i] = <<rec, 0 + i>>
    BY <1>1, BytesOfIs DEF len
  <2> QED
    BY <2>1, <2>2
<1>3. q \in Seq(Byte) /\ Len(q) = r /\ \A i \in 1 .. r : q[i] = <<rec, n + i>>
  BY <1>1, BytesOfIs DEF len
<1>4. w \in Seq(Byte) /\ Len(w) = len /\ \A i \in 1 .. len : w[i] = <<rec, i>>
  <2>1. \A i \in 1 .. len : 0 + i = i
    OBVIOUS
  <2>2. w \in Seq(Byte) /\ Len(w) = len /\ \A i \in 1 .. len : w[i] = <<rec, 0 + i>>
    BY <1>1, BytesOfIs DEF len
  <2> QED
    BY <2>1, <2>2
<1> HIDE DEF p, q, w
<1>5. p \o q = w
  <2>1. /\ p \o q \in Seq(Byte)
        /\ Len(p \o q) = len
        /\ \A i \in 1 .. len : (p \o q)[i] = IF i <= n THEN p[i] ELSE q[i - n]
    <3>1. /\ p \o q \in Seq(Byte)
          /\ Len(p \o q) = Len(p) + Len(q)
          /\ \A i \in 1 .. Len(p) + Len(q) : (p \o q)[i] = IF i <= Len(p) THEN p[i] ELSE q[i - Len(p)]
      BY <1>2, <1>3, ConcatProperties
    <3> QED
      BY <1>1, <1>2, <1>3, <3>1
  <2>2. \A i \in 1 .. len : (p \o q)[i] = w[i]
    <3> TAKE i \in 1 .. len
    <3>1. CASE i <= n
      <4>1. i \in 1 .. n
        BY <1>1, <3>1
      <4> QED
        BY <1>2, <1>4, <2>1, <3>1, <4>1
    <3>2. CASE i > n
      <4> DEFINE x == i - n
      <4>1. x \in 1 .. r /\ n + x = i /\ ~ (i <= n)
        BY <1>1, <3>2
      <4>2. (p \o q)[i] = q[x]
        BY <2>1, <4>1
      <4> HIDE DEF x
      <4>3. q[x] = <<rec, n + x>>
        BY <1>3, <4>1
      <4>4. w[i] = <<rec, i>>
        BY <1>4
      <4>5. <<rec, n + x>> = <<rec, i>>
        BY <4>1
      <4> QED
        BY <4>2, <4>3, <4>4, <4>5, Zenon
    <3>3. i <= n \/ i > n
      BY <1>1
    <3> QED
      BY <3>1, <3>2, <3>3, Zenon
  <2> QED
    BY <1>4, <2>1, <2>2, SeqEqual
<1>6. (st \o p) \o q = st \o (p \o q)
  <2>1. st \in Seq(Byte) /\ p \in Seq(Byte) /\ q \in Seq(Byte)
    BY <1>2, <1>3
  <2> QED
    BY <2>1, ConcatAssociative
<1>7. st \o p \in Seq(Byte)
  BY <1>2, ConcatProperties
<1> QED
  BY <1>5, <1>6, <1>7 DEF p, q, w, len, r

LEMMA AppendIInv ==
  ASSUME IInv, NEW rec \in Records, ClogAppendRecord(rec)
  PROVE  IInv'
<1> DEFINE b == Appended(buf, rec, 0)
           c == CurAfter(cur, buf, b)
           n == Taken(buf, rec, 0)
           full == n < rec.len
           k == Kept(b)
           b2 == Appended(k, rec, n)
           st == stream \o BytesOf(rec, 0, n)
<1>1. /\ GoodBuffer(buf)
      /\ Placed(file, buf, cur)
      /\ file \in Seq(Block)
      /\ stream \in Seq(Byte)
      /\ cur \in Int
      /\ ~ FullTail => Holds(file, buf, cur, stream) /\ InFile(done, file)
  BY IInvFacts
<1>2. rec.len \in Nat \ {0} /\ rec.len <= BufferBytes /\ BufferBytes \in Nat /\ 0 \in 0 .. rec.len
  BY RecordFacts, BlockFacts
<1>3. /\ n \in 0 .. rec.len
      /\ full => Len(buf.bytes) + n = BufferBytes
  <2>1. /\ n \in 0 .. rec.len - 0
        /\ 0 + n < rec.len => Len(buf.bytes) + n = BufferBytes
    BY <1>1, <1>2, TakenIs
  <2> HIDE DEF n
  <2> QED
    BY <1>2, <2>1
<1>4. GoodBuffer(b) /\ b.bytes = buf.bytes \o BytesOf(rec, 0, n) /\ Len(b.bytes) = Len(buf.bytes) + n
  BY <1>1, <1>2, AppendedGood
<1>5. Placed(file, b, c)
  BY <1>1, <1>4, AppendedPlaced
<1>6. st \in Seq(Byte) /\ st \o BytesOf(rec, n, rec.len - n) = stream \o BytesOf(rec, 0, rec.len)
  BY <1>1, <1>3, BytesInParts
<1>7. ~ FullTail => Holds(file, b, c, st)
  BY <1>1, <1>2, AppendedHolds
<1>8. /\ count < MaxRecords
      /\ count' = count + 1
      /\ IF MustSync(rec, full)
         THEN /\ file' = Flushed(file, b, c)
              /\ buf' = IF full THEN b2 ELSE k
              /\ cur' = CurAfter(c, k, buf')
         ELSE buf' = b /\ cur' = c /\ file' = file
      /\ stream' = stream \o BytesOf(rec, 0, rec.len)
      /\ done' = IF rec.type = "COMMIT" /\ ~ full THEN done \cup {rec} ELSE done
      /\ restarts' = restarts
  BY DEF ClogAppendRecord
<1>9. ~ full => stream' = st
  <2>1. ~ full => n = rec.len
    BY <1>2, <1>3
  <2> QED
    BY <1>8, <2>1
<1>10. stream' \in Seq(Byte)
  <2>1. BytesOf(rec, 0, rec.len) \in Seq(Byte)
    BY <1>2, BytesOfIs
  <2> QED
    BY <1>1, <1>8, <2>1, ConcatProperties
<1>11. c \in Int
  BY <1>5 DEF Placed
<1> HIDE DEF b, c, n, full, k, b2, st
<1>12. GoodBuffer(k) /\ Placed(Flushed(file, b, c), k, c)
  BY <1>4, <1>5, KeptIs, FlushedPlaced DEF k
<1>13. full => k = EmptyBuffer
  BY <1>3, <1>4, KeptOfFull DEF k
<1>14. full => /\ GoodBuffer(b2)
               /\ Taken(k, rec, n) = rec.len - n
  <2>1. SUFFICES ASSUME full PROVE GoodBuffer(b2) /\ Taken(k, rec, n) = rec.len - n
    OBVIOUS
  <2>2. Len(k.bytes) = 0
    BY <1>13, <2>1, EmptyBufferGood
  <2>3. Taken(k, rec, n) = rec.len - n
    BY <1>2, <1>3, <2>2 DEF Taken, Lesser
  <2> QED
    BY <1>3, <1>12, <2>3, AppendedGood DEF b2
<1>15. CurAfter(c, k, k) = c
  <2>1. Len(k.first) \in Nat
    BY <1>12 DEF GoodBuffer
  <2> QED
    BY <1>11, <2>1 DEF CurAfter
<1>16. GoodBuffer(buf') /\ Placed(file', buf', cur')
  <2>1. CASE ~ MustSync(rec, full)
    BY <1>4, <1>5, <1>8, <2>1
  <2>2. CASE MustSync(rec, full) /\ ~ full
    BY <1>8, <1>12, <1>15, <2>2
  <2>3. CASE MustSync(rec, full) /\ full
    <3>1. file' = Flushed(file, b, c) /\ buf' = b2 /\ cur' = CurAfter(c, k, b2)
      BY <1>8, <2>3
    <3> QED
      BY <1>12, <1>14, <2>3, <3>1, AppendedPlaced
  <2> QED
    BY <2>1, <2>2, <2>3
<1>17. TypeOK'
  <2>1. cur' \in Nat \cup {-1} /\ file' \in Seq(Block)
    BY <1>16, CurIs DEF Placed
  <2>2. count' \in 0 .. MaxRecords /\ restarts' \in 0 .. MaxRestarts /\ done' \subseteq Records
    BY <1>8, CLogAssumption DEF IInv, TypeInv, TypeOK
  <2> QED
    BY <1>10, <1>16, <2>1, <2>2 DEF TypeOK, GoodBuffer
<1>18. ASSUME ~ FullTail
       PROVE  Holds(file', buf', cur', stream') /\ InFile(done', file')
  <2>1. Holds(file, b, c, st) /\ InFile(done, file)
    BY <1>1, <1>7, <1>18
  <2>2. CASE ~ MustSync(rec, full)
    <3>1. ~ full /\ rec.type # "COMMIT"
      BY <2>2 DEF MustSync
    <3> QED
      BY <1>8, <1>9, <2>1, <2>2, <3>1
  <2>3. CASE MustSync(rec, full)
    <3>1. /\ Holds(file', k, c, st)
          /\ Grown(file, file')
          /\ Len(b.bytes) > 0 => InBlocks(file', b.bytes[Len(b.bytes)])
      BY <1>4, <1>5, <1>6, <1>8, <2>1, <2>3, FlushedHolds DEF k
    <3>2. file' \in Seq(Block)
      BY <1>16 DEF Placed
    <3>3. InFile(done, file')
      BY <1>1, <2>1, <3>1, <3>2, GrownKeeps
    <3>4. CASE ~ full
      <4>1. Holds(file', buf', cur', stream')
        BY <1>8, <1>9, <1>15, <2>3, <3>1, <3>4
      <4>2. Len(b.bytes) > 0 /\ b.bytes[Len(b.bytes)] = <<rec, rec.len>>
        <5>1. n = rec.len
          BY <1>2, <1>3, <3>4 DEF full
        <5> DEFINE p == BytesOf(rec, 0, n)
                   m == Len(buf.bytes)
        <5>2. p \in Seq(Byte) /\ Len(p) = n /\ p[n] = <<rec, 0 + n>>
          BY <1>2, <5>1, BytesOfIs
        <5>3. buf.bytes \in Seq(Byte) /\ m \in Nat
          BY <1>1 DEF GoodBuffer
        <5>4. \A i \in 1 .. m + Len(p) :
                (buf.bytes \o p)[i] = IF i <= m THEN buf.bytes[i] ELSE p[i - m]
          BY <5>2, <5>3, ConcatProperties
        <5>5. b.bytes = buf.bytes \o p /\ Len(b.bytes) = m + n
          BY <1>4
        <5> HIDE DEF p, m
        <5> DEFINE x == m + n
        <5>6. x \in 1 .. m + Len(p) /\ ~ (x <= m) /\ x - m = n /\ 0 + n = rec.len /\ x > 0
          BY <1>2, <5>1, <5>2, <5>3
        <5> HIDE DEF x
        <5>7. (buf.bytes \o p)[x] = p[x - m]
          BY <5>4, <5>6
        <5>8. Len(b.bytes) = x
          BY <5>5 DEF x
        <5> QED
          BY <5>2, <5>5, <5>6, <5>7, <5>8
      <4>3. InFile({rec}, file')
        BY <3>1, <4>2 DEF InFile
      <4>4. done' \subseteq done \cup {rec}
        BY <1>8
      <4> QED
        BY <3>3, <4>1, <4>3, <4>4 DEF InFile
    <3>5. CASE full
      <4>1. buf' = b2 /\ cur' = CurAfter(c, k, b2) /\ done' = done
        BY <1>8, <2>3, <3>5
      <4>2. Holds(file', b2, CurAfter(c, k, b2), st \o BytesOf(rec, n, Taken(k, rec, n)))
        BY <1>3, <1>6, <1>11, <1>12, <3>1, <3>2, AppendedHolds DEF b2
      <4>3. st \o BytesOf(rec, n, Taken(k, rec, n)) = stream'
        BY <1>6, <1>8, <1>14, <3>5
      <4> QED
        BY <3>3, <4>1, <4>2, <4>3
    <3> QED
      BY <3>4, <3>5
  <2> QED
    BY <2>2, <2>3
<1>19. ~ FullTail => CommitDurable'
  <2>1. file' \in Seq(Block)
    BY <1>16 DEF Placed
  <2> QED
    BY <1>18, <2>1, InFileIs DEF CommitDurable
<1> QED
  BY <1>16, <1>17, <1>18, <1>19 DEF IInv, TypeInv

LEMMA RestartIInv ==
  ASSUME IInv, Restart
  PROVE  IInv'
<1> DEFINE n == Len(file)
           d == file[n].data
           len == Len(d)
           st == SubSeq(stream, 1, Lesser(Written, Len(stream)))
<1>1. /\ GoodBuffer(buf)
      /\ Placed(file, buf, cur)
      /\ file \in Seq(Block)
      /\ n \in Nat
      /\ stream \in Seq(Byte)
      /\ Len(stream) \in Nat
      /\ cur \in Int
      /\ ~ FullTail => Holds(file, buf, cur, stream) /\ CommitDurable
  BY IInvFacts DEF IInv
<1>2. /\ FullTail \/ ~ FullLastBlock
      /\ restarts < MaxRestarts
      /\ restarts' = restarts + 1
      /\ buf' = IF file = <<>> \/ len = BlockData THEN EmptyBuffer
                ELSE [bytes |-> d, first |-> <<file[n].first>>]
      /\ cur' \in CurAfterRecover
      /\ stream' = st
      /\ file' = file /\ done' = done /\ count' = count
  BY DEF Restart, LastBlock
<1>3. file # <<>> => /\ n >= 1
                     /\ d \in Seq(Byte)
                     /\ len \in 1 .. BlockData
                     /\ file[n].first \in 0 .. BlockData
  <2> HAVE file # <<>>
  <2>1. n \in 1 .. n
    BY <1>1, EmptySeq
  <2>2. file[n] \in Block
    BY <1>1, <2>1, ElementOfSeq
  <2> QED
    BY <2>1, <2>2 DEF Block
<1>4. file = <<>> => n = 0
  OBVIOUS
<1>5. Written = IF file = <<>> THEN 0 ELSE (n - 1) * BlockData + len
  BY DEF Written, LastBlock
<1>6. Written \in Nat
  <2>1. CASE file = <<>>
    BY <1>5, <2>1
  <2>2. CASE file # <<>>
    <3> DEFINE y == n - 1
    <3>1. y \in Nat /\ len \in Nat
      BY <1>1, <1>3, <2>2, BlockFacts
    <3>2. Written = y * BlockData + len
      BY <1>5, <2>2
    <3> HIDE DEF y, len
    <3>3. y * BlockData \in Nat
      BY <3>1, TimesNat
    <3> QED
      BY <3>1, <3>2, <3>3
  <2> QED
    BY <2>1, <2>2
<1> DEFINE e == Lesser(Written, Len(stream))
<1>7. e \in Nat /\ e <= Len(stream) /\ e <= Written /\ (Written <= Len(stream) => e = Written)
  BY <1>1, <1>6 DEF Lesser
<1> HIDE DEF e
<1>8. st \in Seq(Byte) /\ Len(st) = e /\ \A i \in 1 .. e : st[i] = stream[i]
  <2>1. \A i \in 1 .. e : stream[i] \in Byte
    BY <1>1, <1>7, ElementOfSeq
  <2>2. /\ SubSeq(stream, 1, e) \in Seq(Byte)
        /\ Len(SubSeq(stream, 1, e)) = IF 1 <= e THEN e - 1 + 1 ELSE 0
        /\ \A i \in 1 .. e - 1 + 1 : SubSeq(stream, 1, e)[i] = stream[1 + i - 1]
    BY <1>7, <2>1, SubSeqProperties
  <2>3. e - 1 + 1 = e /\ \A i \in 1 .. e : 1 + i - 1 = i
    BY <1>7
  <2>4. st = SubSeq(stream, 1, e)
    BY DEF e
  <2> HIDE DEF st
  <2>5. Len(st) = e
    <3>1. (IF 1 <= e THEN e - 1 + 1 ELSE 0) = e
      BY <1>7
    <3> QED
      BY <2>2, <2>4, <3>1
  <2>6. \A i \in 1 .. e : st[i] = stream[i]
    <3> TAKE i \in 1 .. e
    <3>1. st[i] = stream[1 + i - 1]
      BY <2>2, <2>3, <2>4
    <3> QED
      BY <2>3, <3>1
  <2> QED
    BY <2>2, <2>4, <2>5, <2>6
<1> HIDE DEF n, d, len, st
<1>9. cur' \in Int /\ cur' >= -1 /\ cur' <= n /\ (~ FullLastBlock => cur' = n)
  <2>1. CASE ~ FullLastBlock
    BY <1>1, <1>2, <2>1 DEF CurAfterRecover, n
  <2>2. CASE FullLastBlock
    <3> DEFINE q == n \div RedoBlocks
    <3>1. q \in Int /\ RedoBlocks * q \in Int /\ RedoBlocks * q <= n /\ RedoBlocks * q >= 0
      <4>1. RedoBlocks \in Nat \ {0}
        BY CLogAssumption
      <4>2. q \in Nat /\ RedoBlocks * q <= n
        BY <1>1, <4>1
      <4>3. \A x, y \in Nat : x * y \in Nat
        OBVIOUS
      <4> HIDE DEF q
      <4> QED
        BY <4>1, <4>2, <4>3
    <3> HIDE DEF q
    <3>2. cur' \in {-1} \cup {RedoBlocks * x : x \in {q} \ {0}}
      BY <1>2, <2>2 DEF CurAfterRecover, q, n
    <3>3. cur' = -1 \/ cur' = RedoBlocks * q
      BY <3>2
    <3> QED
      BY <1>1, <2>2, <3>1, <3>3
  <2> QED
    BY <2>1, <2>2
<1>10. ASSUME file = <<>> \/ len = BlockData
       PROVE  /\ GoodBuffer(buf')
              /\ Placed(file', buf', cur')
              /\ ~ FullTail => Holds(file', buf', cur', stream')
  <2>1. buf' = EmptyBuffer
    BY <1>2, <1>10
  <2>2. GoodBuffer(buf') /\ Len(buf'.first) = 0 /\ Len(buf'.bytes) = 0
    BY <2>1, EmptyBufferGood
  <2>3. cur' - Len(buf'.first) = cur'
    <3>1. cur' \in Int
      BY <1>9
    <3>2. \A x \in Int : x - 0 = x
      OBVIOUS
    <3> QED
      BY <2>2, <3>1, <3>2
  <2>4. Placed(file', buf', cur')
    BY <1>1, <1>2, <1>9, <2>3 DEF Placed, n
  <2>5. ASSUME ~ FullTail
        PROVE  Holds(file', buf', cur', stream')
    <3> DEFINE base == cur - Len(buf.first)
    <3>1. HoldsFrom(file, buf.bytes, base, stream)
      BY <1>1, <2>5 DEF Holds
    <3>2. base \in Nat /\ Len(buf.bytes) \in Nat
      BY <1>1, <3>1 DEF HoldsFrom, GoodBuffer
    <3> HIDE DEF base
    <3>3. cur' = n
      BY <1>2, <1>9, <2>5
    <3>4. n = base
      <4>1. n \in {base, base + 1} /\ (n = base + 1 => Len(file[base + 1].data) \in 1 .. BlockData - 1)
        BY <3>1 DEF HoldsFrom, n
      <4>2. CASE file = <<>>
        BY <1>4, <3>2, <4>1, <4>2
      <4>3. CASE len = BlockData
        <5>1. n = base + 1 => len \in 1 .. BlockData - 1
          BY <4>1 DEF len, d
        <5>2. BlockData \notin 1 .. BlockData - 1
          BY BlockFacts
        <5> QED
          BY <4>1, <4>3, <5>1, <5>2
      <4> QED
        BY <1>10, <4>2, <4>3
    <3>5. n * BlockData \in Nat
      BY <1>1, TimesNat
    <3>6. Written = n * BlockData
      <4>1. CASE file = <<>>
        BY <1>4, <1>5, <4>1, BlockFacts
      <4>2. CASE file # <<>>
        <5>1. Written = (n - 1) * BlockData + BlockData
          BY <1>5, <1>10, <4>2
        <5> QED
          BY <1>1, <5>1, BlockFacts
      <4> QED
        BY <4>1, <4>2
    <3>7. Len(stream) = n * BlockData + Len(buf.bytes)
      BY <3>1, <3>4 DEF HoldsFrom
    <3>8. e = n * BlockData
      BY <1>7, <3>2, <3>5, <3>6, <3>7
    <3>9. \A i \in 1 .. n :
            /\ Len(file[i].data) = BlockData
            /\ \A j \in 1 .. BlockData : file[i].data[j] = st[(i - 1) * BlockData + j]
      <4> SUFFICES ASSUME NEW i \in 1 .. n, NEW j \in 1 .. BlockData
                   PROVE  stream[(i - 1) * BlockData + j] = st[(i - 1) * BlockData + j]
        BY <3>1, <3>4 DEF HoldsFrom
      <4> DEFINE x == i - 1
                 y == n - 1
      <4>1. x \in Nat /\ y \in Nat /\ x <= y
        BY <1>1
      <4>2. y * BlockData = n * BlockData - BlockData
        BY <1>1, BlockFacts
      <4> HIDE DEF x, y
      <4>3. x * BlockData \in Nat /\ x * BlockData <= y * BlockData
        BY <4>1, TimesNat, TimesMonotone
      <4>4. x * BlockData + j \in 1 .. e
        BY <3>5, <3>8, <4>2, <4>3, BlockFacts
      <4> QED
        BY <1>8, <4>4 DEF x
    <3>10. Len(st) = n * BlockData + Len(buf'.bytes)
      BY <1>8, <2>2, <3>5, <3>8
    <3>11. HoldsFrom(file, buf'.bytes, n, st)
      <4>1. \A j \in 1 .. Len(buf'.bytes) : FALSE
        BY <2>2
      <4>2. Len(file) = n /\ n # n + 1 /\ n >= 0
        BY <1>1 DEF n
      <4> QED
        BY <3>9, <3>10, <4>1, <4>2 DEF HoldsFrom
    <3> QED
      BY <1>2, <2>3, <3>3, <3>11 DEF Holds
  <2> QED
    BY <2>2, <2>4, <2>5
<1>11. ASSUME ~ (file = <<>> \/ len = BlockData)
       PROVE  /\ GoodBuffer(buf')
              /\ Placed(file', buf', cur')
              /\ ~ FullTail => Holds(file', buf', cur', stream')
  <2>1. buf' = [bytes |-> d, first |-> <<file[n].first>>]
    BY <1>2, <1>11
  <2>2. n >= 1 /\ d \in Seq(Byte) /\ len \in 1 .. BlockData - 1 /\ file[n].first \in 0 .. BlockData
    BY <1>3, <1>11, BlockFacts
  <2>3. GoodBuffer(buf')
    BY <1>3, <1>11, <2>1, OneBlockGood DEF len
  <2>4. buf'.bytes = d /\ Len(buf'.first) = 1
    BY <2>1
  <2>5. cur' = n
    BY <1>9, <1>11 DEF FullLastBlock, LastBlock, len, d, n
  <2> DEFINE y == n - 1
  <2>6. y \in Nat /\ y + 1 = n
    BY <1>1, <2>2
  <2>7. cur' - Len(buf'.first) = y
    BY <2>4, <2>5
  <2>8. Placed(file', buf', cur')
    <3>1. cur' \in Int /\ y >= -1 /\ y <= Len(file)
      BY <1>9, <2>6 DEF n
    <3> HIDE DEF y
    <3> QED
      BY <1>1, <1>2, <2>7, <3>1 DEF Placed
  <2> HIDE DEF y
  <2>9. ASSUME ~ FullTail
        PROVE  Holds(file', buf', cur', stream')
    <3> DEFINE base == cur - Len(buf.first)
    <3>1. HoldsFrom(file, buf.bytes, base, stream)
      BY <1>1, <2>9 DEF Holds
    <3>2. base \in Nat /\ Len(buf.bytes) \in Nat
      BY <1>1, <3>1 DEF HoldsFrom, GoodBuffer
    <3> HIDE DEF base
    <3>3. base = y
      <4>1. n \in {base, base + 1} /\ \A i \in 1 .. base : Len(file[i].data) = BlockData
        BY <3>1 DEF HoldsFrom, n
      <4>2. n # base
        <5>1. n \in 1 .. n
          BY <1>1, <2>2
        <5>2. len # BlockData
          BY <1>11
        <5> QED
          BY <4>1, <5>1, <5>2 DEF len, d
      <4> QED
        BY <1>1, <2>6, <3>2, <4>1, <4>2
    <3> DEFINE off == y * BlockData
    <3>4. off \in Nat
      BY <2>6, TimesNat
    <3>5. /\ Len(stream) = off + Len(buf.bytes)
          /\ len <= Len(buf.bytes)
          /\ \A j \in 1 .. len : d[j] = buf.bytes[j]
          /\ \A j \in 1 .. Len(buf.bytes) : buf.bytes[j] = stream[off + j]
      BY <2>6, <3>1, <3>3 DEF HoldsFrom, n, d, len
    <3>6. Written = off + len
      BY <1>5, <1>11 DEF y
    <3> HIDE DEF off
    <3>7. len \in Nat /\ e = off + len
      BY <1>7, <2>2, <3>2, <3>4, <3>5, <3>6, BlockFacts
    <3>8. \A i \in 1 .. y :
            /\ Len(file[i].data) = BlockData
            /\ \A j \in 1 .. BlockData : file[i].data[j] = st[(i - 1) * BlockData + j]
      <4> SUFFICES ASSUME NEW i \in 1 .. y, NEW j \in 1 .. BlockData
                   PROVE  stream[(i - 1) * BlockData + j] = st[(i - 1) * BlockData + j]
        BY <3>1, <3>3 DEF HoldsFrom
      <4> DEFINE x == i - 1
                 z == y - 1
      <4>1. x \in Nat /\ z \in Nat /\ x <= z
        BY <2>6
      <4>2. z * BlockData = off - BlockData
        BY <2>6, BlockFacts DEF off
      <4> HIDE DEF x, z
      <4>3. x * BlockData \in Nat /\ x * BlockData <= z * BlockData
        BY <4>1, TimesNat, TimesMonotone
      <4>4. x * BlockData + j \in 1 .. e
        BY <3>4, <3>7, <4>2, <4>3, BlockFacts
      <4> QED
        BY <1>8, <4>4 DEF x
    <3>9. \A j \in 1 .. len : d[j] = st[off + j]
      <4> TAKE j \in 1 .. len
      <4> DEFINE x == off + j
      <4>1. j \in 1 .. Len(buf.bytes) /\ x \in 1 .. e
        BY <3>2, <3>4, <3>5, <3>7
      <4>2. d[j] = stream[x]
        BY <3>5, <4>1
      <4> HIDE DEF x
      <4>3. st[x] = stream[x]
        BY <1>8, <4>1
      <4> QED
        BY <4>2, <4>3 DEF x
    <3>10. HoldsFrom(file, d, y, st)
      <4>1. Len(file) = y + 1 /\ y >= 0 /\ Len(d) <= Len(d) /\ file[y + 1].data = d
        BY <1>1, <2>6, <3>7 DEF n, d, len
      <4>2. Len(st) = off + Len(d) /\ Len(d) \in 1 .. BlockData - 1
        BY <1>8, <2>2, <3>7 DEF len
      <4>3. \A j \in 1 .. Len(d) : d[j] = st[off + j]
        BY <3>9 DEF len
      <4> HIDE DEF d
      <4> QED
        BY <3>8, <4>1, <4>2, <4>3 DEF HoldsFrom, off
    <3> QED
      BY <1>2, <2>4, <2>7, <3>10 DEF Holds
  <2> QED
    BY <2>3, <2>8, <2>9
<1>12. /\ GoodBuffer(buf')
       /\ Placed(file', buf', cur')
       /\ ~ FullTail => Holds(file', buf', cur', stream')
  BY <1>10, <1>11
<1>13. TypeOK'
  <2>1. cur' \in Nat \cup {-1}
    BY <1>12, CurIs
  <2>2. /\ file' \in Seq(Block)
        /\ stream' \in Seq(Byte)
        /\ done' \subseteq Records
        /\ count' \in 0 .. MaxRecords
        /\ restarts' \in 0 .. MaxRestarts
    BY <1>1, <1>2, <1>8, CLogAssumption DEF IInv, TypeInv, TypeOK
  <2> QED
    BY <1>12, <2>1, <2>2 DEF TypeOK, GoodBuffer
<1>14. ~ FullTail => CommitDurable'
  BY <1>1, <1>2 DEF CommitDurable
<1> QED
  BY <1>12, <1>13, <1>14 DEF IInv, TypeInv

-----------------------------------------------------------------------------
(* The theorems *)

LEMMA NextIInv == IInv /\ [Next]_vars => IInv'
<1> SUFFICES ASSUME IInv, [Next]_vars PROVE IInv'
  OBVIOUS
<1>1. CASE \E rec \in Records : ClogAppendRecord(rec)
  BY <1>1, AppendIInv
<1>2. CASE ClogSync
  BY <1>2, SyncIInv
<1>3. CASE Restart
  BY <1>3, RestartIInv
<1>4. CASE UNCHANGED vars
  <2>1. /\ buf' = buf /\ cur' = cur /\ file' = file /\ stream' = stream /\ done' = done
        /\ count' = count /\ restarts' = restarts
    BY <1>4 DEF vars
  <2>2. TypeOK'
    BY <2>1 DEF IInv, TypeInv, TypeOK
  <2>3. Placed(file, buf, cur)'
    BY <2>1 DEF IInv, TypeInv, Placed
  <2>4. ~ FullTail => Holds(file, buf, cur, stream)'
    BY <2>1 DEF IInv, Holds
  <2>5. ~ FullTail => CommitDurable'
    BY <2>1 DEF IInv, CommitDurable
  <2> QED
    BY <2>2, <2>3, <2>4, <2>5 DEF IInv, TypeInv
<1> QED
  BY <1>1, <1>2, <1>3, <1>4 DEF Next

LEMMA SpecIInv == Spec => []IInv
<1>1. Init => IInv
  BY InitIInv
<1>2. IInv /\ [Next]_vars => IInv'
  BY NextIInv
<1> QED
  BY <1>1, <1>2, PTL DEF Spec

(***************************************************************************)
(* The buffer, the blocks of the file and current_block_no_ keep their     *)
(* types: no block of the file is empty or too long, first_rec_offset_     *)
(* lies in its block, and the buffer has a block header for just the       *)
(* blocks that its bytes need.  This holds with every restart.             *)
(***************************************************************************)
THEOREM CLogTypeCorrect == Spec => []TypeOK
<1>1. IInv => TypeOK
  BY DEF IInv, TypeInv
<1> QED
  BY <1>1, SpecIInv, PTL

LEMMA HoldsImpliesBytesKept ==
  ASSUME GoodBuffer(buf), file \in Seq(Block), stream \in Seq(Byte), cur \in Int,
         Holds(file, buf, cur, stream)
  PROVE  BytesKept
<1> DEFINE bytes == buf.bytes
           off == Base * BlockData
<1>1. HoldsFrom(file, bytes, Base, stream)
  BY DEF Holds, Base
<1>2. bytes \in Seq(Byte) /\ Len(bytes) \in Nat /\ Base \in Nat /\ Len(stream) \in Nat
  BY <1>1 DEF GoodBuffer, HoldsFrom, Base
<1>3. off \in Nat
  BY <1>2, TimesNat
<1>4. Len(stream) = off + Len(bytes)
  BY <1>1 DEF HoldsFrom
<1> HIDE DEF bytes
<1>5. ASSUME NEW i \in 1 .. Base
      PROVE  file[i].data = Cut(stream, i)
  <2> DEFINE x == i - 1
             w == x * BlockData
             d == file[i].data
  <2>1. x \in Nat /\ x + 1 = i /\ i <= Base /\ i \in Int
    BY <1>2
  <2>2. i * BlockData = w + BlockData
    BY <1>2, BlockFacts
  <2>3. i * BlockData <= off /\ i * BlockData \in Int
    <3>1. i \in Int /\ Base \in Int /\ i <= Base
      BY <1>2
    <3> QED
      BY <3>1, TimesMonotone
  <2>4. Len(d) = BlockData /\ \A j \in 1 .. BlockData : d[j] = stream[w + j]
    BY <1>1 DEF HoldsFrom
  <2>5. d \in Seq(Byte)
    <3>1. i \in 1 .. Len(file)
      BY <1>1, <1>2 DEF HoldsFrom
    <3>2. file[i] \in Block
      BY <3>1, ElementOfSeq
    <3> QED
      BY <3>2 DEF Block
  <2> HIDE DEF x
  <2>6. w \in Nat
    BY <2>1, TimesNat
  <2>7. Lesser(i * BlockData, Len(stream)) = w + BlockData
    BY <1>2, <1>3, <1>4, <2>2, <2>3 DEF Lesser
  <2> DEFINE hi == w + BlockData
  <2>8. hi \in Int /\ hi <= Len(stream)
    <3>1. hi <= off
      BY <2>2, <2>3
    <3> HIDE DEF off
    <3> QED
      BY <1>2, <1>3, <1>4, <2>6, <3>1, BlockFacts
  <2> DEFINE lo == w + 1
             s == SubSeq(stream, lo, hi)
  <2>9. Cut(stream, i) = s
    BY <2>7 DEF Cut, x
  <2>10. lo \in Nat /\ lo >= 1 /\ lo <= hi /\ hi - lo + 1 = BlockData
    BY <2>6, BlockFacts
  <2>11. \A j \in 1 .. BlockData : lo + j - 1 = w + j
    BY <2>6, BlockFacts
  <2> HIDE DEF d, w, lo, hi
  <2>12. \A j \in lo .. hi : stream[j] \in Byte
    <3> TAKE j \in lo .. hi
    <3>1. j \in 1 .. Len(stream)
      BY <1>2, <2>8, <2>10
    <3> QED
      BY <3>1, ElementOfSeq
  <2>13. /\ s \in Seq(Byte)
         /\ Len(s) = IF lo <= hi THEN hi - lo + 1 ELSE 0
         /\ \A j \in 1 .. hi - lo + 1 : s[j] = stream[lo + j - 1]
    BY <2>8, <2>10, <2>12, SubSeqProperties
  <2> HIDE DEF s
  <2>14. Len(s) = BlockData
    BY <2>10, <2>13
  <2>15. \A j \in 1 .. BlockData : d[j] = s[j]
    BY <2>4, <2>10, <2>11, <2>13
  <2>16. d = s
    BY <2>4, <2>5, <2>13, <2>14, <2>15, SeqEqual
  <2> QED
    BY <2>9, <2>16 DEF d
<1>6. bytes = SubSeq(stream, off + 1, Len(stream))
  <2> DEFINE lo == off + 1
             hi == Len(stream)
             s == SubSeq(stream, lo, hi)
             n == Len(bytes)
  <2>1. lo \in Int /\ hi \in Int /\ hi - lo + 1 = n /\ n \in Nat /\ (lo <= hi <=> n # 0)
    <3>1. off \in Nat /\ n \in Nat /\ hi \in Nat /\ hi = off + n
      BY <1>2, <1>3, <1>4
    <3> HIDE DEF n, hi, off
    <3> QED
      BY <3>1
  <2>2. \A j \in lo .. hi : stream[j] \in Byte
    <3> TAKE j \in lo .. hi
    <3>1. j \in 1 .. Len(stream)
      BY <1>2, <1>3
    <3> QED
      BY <3>1, ElementOfSeq
  <2>3. \A j \in 1 .. n : lo + j - 1 = off + j
    BY <1>3
  <2>4. \A j \in 1 .. n : bytes[j] = stream[off + j]
    BY <1>1 DEF HoldsFrom
  <2> HIDE DEF lo, hi, n, off
  <2>5. /\ s \in Seq(Byte)
        /\ Len(s) = IF lo <= hi THEN hi - lo + 1 ELSE 0
        /\ \A j \in 1 .. hi - lo + 1 : s[j] = stream[lo + j - 1]
    BY <2>1, <2>2, SubSeqProperties
  <2> HIDE DEF s
  <2>6. Len(s) = n
    BY <2>1, <2>5
  <2>7. \A j \in 1 .. n : bytes[j] = s[j]
    BY <2>1, <2>3, <2>4, <2>5
  <2>8. bytes = s
    BY <1>2, <2>5, <2>6, <2>7, SeqEqual DEF n
  <2> QED
    BY <2>8 DEF s, lo, hi
<1> QED
  BY <1>4, <1>5, <1>6 DEF BytesKept, bytes, off

(***************************************************************************)
(* Without restarts behind a full last block, no byte of a record is lost, *)
(* repeated or out of place, for any sizes of blocks, buffer and records:  *)
(* neither where append_log_record cuts a record, nor where flush_buffer   *)
(* moves the last block to the front and writes it again, nor where the    *)
(* log goes on after recover().                                            *)
(***************************************************************************)
THEOREM BytesKeptCorrect ==
  ASSUME ~ FullTail
  PROVE  Spec => []BytesKept
<1>1. IInv => BytesKept
  BY IInvFacts, HoldsImpliesBytesKept
<1> QED
  BY <1>1, SpecIInv, PTL

(***************************************************************************)
(* Under the same condition a COMMIT for which clog_append_record has      *)
(* returned SUCCESS is in the file, and stays there.                       *)
(***************************************************************************)
THEOREM CommitDurableCorrect ==
  ASSUME ~ FullTail
  PROVE  Spec => []CommitDurable
<1>1. IInv => CommitDurable
  BY DEF IInv
<1> QED
  BY <1>1, SpecIInv, PTL
=============================================================================
