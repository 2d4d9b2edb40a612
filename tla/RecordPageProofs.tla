-------------------------- MODULE RecordPageProofs --------------------------
(***************************************************************************)
(* What the searches in a bitmap find, and what the operations on a page   *)
(* of records and on the header of its file keep, for every size of file,  *)
(* page and byte.                                                          *)
(***************************************************************************)
EXTENDS PageFile, RecordPage, FiniteSetTheorems, WellFoundedInduction, TLAPS

(* A page whose header counts its slots, and whose slots in use hold       *)
(* records.                                                                *)
SoundPage(pg) ==
  /\ pg \in RecordPages
  /\ pg.record_num = Cardinality(pg.slots)
  /\ \A k \in pg.slots : pg.data[k] \in Data

-----------------------------------------------------------------------------
(* The searches of Bitmap. *)

(* A set of bit numbers that is not empty has a lowest one. *)
LEMMA LowestIs ==
  ASSUME NEW T \in SUBSET Nat, T # {}
  PROVE  Lowest(T) \in T /\ \A b \in T : Lowest(T) <= b
<1> DEFINE R == OpToRel(<, Nat)
<1>1. IsWellFoundedOn(R, Nat)
  BY NatLessThanWellFounded
<1> HIDE DEF R
<1>2. PICK b \in T : \A c \in T : ~ (<<c, b>> \in R)
  BY <1>1, WFMin
<1>3. \A c \in T : b <= c
  <2> SUFFICES ASSUME NEW c \in T PROVE b <= c
    OBVIOUS
  <2>1. ~ (c < b)
    BY <1>2 DEF R, OpToRel
  <2> QED BY <2>1
<1> QED BY <1>2, <1>3 DEF Lowest

(* Bits are ordered as their bytes are, and in a byte as their places. *)
LEMMA ByteOrder ==
  ASSUME NEW a \in Nat, NEW b \in Nat
  PROVE  /\ a \div ByteBits \in Nat /\ a % ByteBits \in Nat
         /\ a \div ByteBits > b \div ByteBits => a > b
         /\ a \div ByteBits = b \div ByteBits => (a % ByteBits >= b % ByteBits <=> a >= b)
<1>1. ByteBits \in Nat /\ ByteBits > 0
  BY ByteBitsAssumption
<1> DEFINE x == a \div ByteBits
           y == b \div ByteBits
           i == a % ByteBits
           j == b % ByteBits
<1>2. x \in Nat /\ y \in Nat /\ i \in 0 .. ByteBits - 1 /\ j \in 0 .. ByteBits - 1
  BY <1>1
<1>3. a = ByteBits * x + i /\ b = ByteBits * y + j
  BY <1>1
<1> HIDE DEF x, y, i, j
<1>4. x > y => a > b
  <2> SUFFICES ASSUME x > y PROVE a > b
    OBVIOUS
  <2>1. ByteBits * x >= ByteBits * (y + 1)
    BY <1>1, <1>2
  <2>2. ByteBits * (y + 1) = ByteBits * y + ByteBits
    BY <1>1, <1>2
  <2> QED BY <1>1, <1>2, <1>3, <2>1, <2>2
<1>5. x = y => (i >= j <=> a >= b)
  BY <1>1, <1>2, <1>3
<1> QED BY <1>2, <1>4, <1>5 DEF x, y, i, j

(* What a search finds is a bit of the set, and not before the start. *)
LEMMA SearchBound ==
  ASSUME NEW bits \in SUBSET Nat, NEW start \in Nat, SearchFrom(bits, start) # NoBit
  PROVE  SearchFrom(bits, start) \in bits /\ SearchFrom(bits, start) >= start
<1> DEFINE ahead == {b \in bits : b \div ByteBits >= start \div ByteBits}
           first == Lowest(ahead) \div ByteBits
           inFirst == {b \in ahead : b \div ByteBits = first /\ b % ByteBits >= start % ByteBits}
           later == {b \in ahead : b \div ByteBits > first}
<1>1. SearchFrom(bits, start) = IF ahead = {} THEN NoBit
                                ELSE IF inFirst # {} THEN Lowest(inFirst) ELSE LowestOrNone(later)
  BY DEF SearchFrom
<1>2. ahead # {}
  BY <1>1
<1>3. Lowest(ahead) \in ahead
  BY <1>2, LowestIs
<1>4. first \in Nat /\ start \div ByteBits \in Nat /\ first >= start \div ByteBits
  BY <1>3, ByteOrder
<1>5. \A b \in inFirst : b \in bits /\ b >= start
  <2> SUFFICES ASSUME NEW b \in inFirst PROVE b >= start
    OBVIOUS
  <2>1. /\ b \in Nat /\ b \div ByteBits = first /\ b % ByteBits >= start % ByteBits
    OBVIOUS
  <2> HIDE DEF first
  <2>2. b \div ByteBits > start \div ByteBits \/ b \div ByteBits = start \div ByteBits
    BY <2>1, <1>4
  <2> QED BY <2>1, <2>2, ByteOrder
<1>6. \A b \in later : b \in bits /\ b >= start
  <2> SUFFICES ASSUME NEW b \in later PROVE b >= start
    OBVIOUS
  <2>1. b \in Nat /\ b \div ByteBits \in Nat /\ b \div ByteBits > first
    BY ByteOrder
  <2> HIDE DEF first
  <2>2. b \div ByteBits > start \div ByteBits
    BY <2>1, <1>4
  <2> QED BY <2>1, <2>2, ByteOrder
<1>7. CASE inFirst # {}
  <2>1. inFirst \in SUBSET Nat
    OBVIOUS
  <2>2. Lowest(inFirst) \in inFirst
    BY <1>7, <2>1, LowestIs
  <2> QED BY <1>1, <1>2, <1>5, <1>7, <2>2
<1>8. CASE inFirst = {}
  <2>1. later # {} /\ SearchFrom(bits, start) = Lowest(later)
    BY <1>1, <1>2, <1>8 DEF LowestOrNone
  <2>2. later \in SUBSET Nat
    OBVIOUS
  <2>3. Lowest(later) \in later
    BY <2>1, <2>2, LowestIs
  <2> QED BY <1>6, <2>1, <2>3
<1> QED BY <1>7, <1>8

(* A search does not miss a bit when the byte it begins in is not skipped, *)
(* or when the bit has its place in its byte not before the start's.       *)
LEMMA SearchExact ==
  ASSUME NEW bits \in SUBSET Nat, NEW start \in Nat, NEW b \in bits, b >= start,
         \/ \E c \in bits : c \div ByteBits = start \div ByteBits
         \/ b % ByteBits >= start % ByteBits
  PROVE  SearchFrom(bits, start) # NoBit /\ SearchFrom(bits, start) <= b
<1> DEFINE ahead == {d \in bits : d \div ByteBits >= start \div ByteBits}
           low == Lowest(ahead)
           first == low \div ByteBits
           inFirst == {d \in ahead : d \div ByteBits = first /\ d % ByteBits >= start % ByteBits}
           later == {d \in ahead : d \div ByteBits > first}
<1>1. SearchFrom(bits, start) = IF ahead = {} THEN NoBit
                                ELSE IF inFirst # {} THEN Lowest(inFirst) ELSE LowestOrNone(later)
  BY DEF SearchFrom
<1>2. \A d \in Nat : d \div ByteBits \in Nat /\ d % ByteBits \in Nat
  BY ByteOrder
<1>3. \A d \in bits : d >= start => d \in ahead
  <2> SUFFICES ASSUME NEW d \in bits, d >= start, ~ (d \div ByteBits >= start \div ByteBits)
               PROVE  FALSE
    OBVIOUS
  <2>1. start \div ByteBits > d \div ByteBits
    BY <1>2
  <2> QED BY <2>1, ByteOrder
<1>4. low \in ahead /\ \A d \in ahead : low <= d
  BY <1>3, LowestIs
<1>5. \A d \in ahead : d \div ByteBits \in Nat /\ first \in Nat /\ d \div ByteBits >= first
  <2>1. low \in Nat /\ first \in Nat
    BY <1>2, <1>4
  <2> SUFFICES ASSUME NEW d \in ahead PROVE d \div ByteBits >= first
    BY <1>2, <2>1
  <2>2. d \in Nat /\ d \div ByteBits \in Nat /\ low <= d
    BY <1>2, <1>4
  <2>3. ~ (low > d)
    BY <2>1, <2>2
  <2>4. ~ (first > d \div ByteBits)
    BY <2>1, <2>2, <2>3, ByteOrder
  <2> QED BY <2>1, <2>2, <2>4
<1>6. inFirst \in SUBSET Nat /\ later \in SUBSET Nat /\ NoBit \notin Nat
  <2>1. inFirst \in SUBSET Nat /\ later \in SUBSET Nat
    OBVIOUS
  <2> QED BY <2>1 DEF NoBit
<1>7. b \in inFirst \/ b \in later
  <2>1. CASE b % ByteBits >= start % ByteBits
    BY <2>1, <1>2, <1>3, <1>5
  <2>2. CASE \E c \in bits : c \div ByteBits = start \div ByteBits
    <3>1. PICK c \in bits : c \div ByteBits = start \div ByteBits
      BY <2>2
    <3>2. first = start \div ByteBits
      <4>1. c \in ahead
        BY <3>1, <1>2
      <4>2. start \div ByteBits >= first
        BY <4>1, <3>1, <1>5
      <4>3. first >= start \div ByteBits /\ first \in Nat
        BY <1>4, <1>5
      <4> HIDE DEF first
      <4> QED BY <4>2, <4>3, <1>2
    <3>3. b \div ByteBits > first \/ b \div ByteBits = first
      BY <1>3, <1>5
    <3>4. b \div ByteBits = first => b % ByteBits >= start % ByteBits
      BY <3>2, ByteOrder
    <3> QED BY <3>3, <3>4, <1>3
  <2> QED BY <2>1, <2>2
<1>8. CASE inFirst # {}
  <2>1. Lowest(inFirst) \in inFirst /\ \A d \in inFirst : Lowest(inFirst) <= d
    BY <1>6, <1>8, LowestIs
  <2>2. SearchFrom(bits, start) = Lowest(inFirst)
    BY <1>1, <1>4, <1>8
  <2>3. CASE b \in inFirst
    BY <1>6, <2>1, <2>2, <2>3
  <2>4. CASE b \in later
    <3>1. Lowest(inFirst) \in Nat /\ Lowest(inFirst) \div ByteBits = first
      BY <2>1
    <3>2. b > Lowest(inFirst)
      BY <3>1, <2>4, ByteOrder
    <3> QED BY <1>6, <3>1, <3>2, <2>2
  <2> QED BY <1>7, <2>3, <2>4
<1>9. CASE inFirst = {}
  <2>1. later # {} /\ b \in later
    BY <1>7, <1>9
  <2>2. Lowest(later) \in later /\ Lowest(later) <= b
    BY <1>6, <2>1, LowestIs
  <2>3. SearchFrom(bits, start) = Lowest(later)
    BY <1>1, <1>4, <1>9, <2>1 DEF LowestOrNone
  <2> QED BY <1>6, <2>2, <2>3
<1> QED BY <1>8, <1>9

(* When a search begins at the first bit of a byte, every place is good;   *)
(* when it begins right behind a bit of the set, that, or its byte has it. *)
LEMMA InPlaceFromStart ==
  /\ \A b \in Nat : b >= 0 /\ b % ByteBits >= 0 % ByteBits
  /\ \A k \in Nat, b \in Nat : \/ k \div ByteBits = (k + 1) \div ByteBits
                              \/ b % ByteBits >= (k + 1) % ByteBits
<1>1. \A b \in Nat : b % ByteBits \in Nat
  BY ByteOrder
<1>2. 0 % ByteBits = 0
  BY ByteBitsAssumption
<1>3. \A k \in Nat : k \div ByteBits = (k + 1) \div ByteBits \/ (k + 1) % ByteBits = 0
  BY ByteBitsAssumption
<1> QED BY <1>1, <1>2, <1>3

(* The searches in the bitmap of a page, by what their callers need. *)
LEMMA NextSlot ==
  ASSUME NEW slots \in SUBSET Slot, NEW k \in Nat
  PROVE  LET n == next_setted_bit(slots, Capacity, k) IN
         /\ n \in slots \cup {NoBit} /\ (n # NoBit => n >= k)
         /\ \A b \in slots :
              /\ b >= k
              /\ \/ \E c \in slots : c \div ByteBits = k \div ByteBits
                 \/ b % ByteBits >= k % ByteBits
              => n # NoBit /\ n <= b
<1> DEFINE bits == slots \cap (0 .. Capacity - 1)
<1>1. bits = slots /\ slots \in SUBSET Nat
  <2>1. Slot \subseteq Nat
    BY CapacityAssumption DEF Slot
  <2> QED BY <2>1 DEF Slot
<1>2. next_setted_bit(slots, Capacity, k) = SearchFrom(slots, k)
  BY <1>1 DEF next_setted_bit
<1> QED BY <1>1, <1>2, SearchBound, SearchExact

LEMMA FreeSlotIs ==
  ASSUME NEW pg \in RecordPages, Cardinality(pg.slots) <= pg.record_num, ~ IsFull(pg)
  PROVE  FreeSlot(pg) \in Slot \ pg.slots
<1> DEFINE bits == (0 .. Capacity - 1) \ pg.slots
<1>1. pg.slots \in SUBSET Slot /\ pg.record_num \in Int
  BY DEF RecordPages
<1>2. bits \in SUBSET Nat
  BY CapacityAssumption
<1>3. bits # {}
  <2> SUFFICES ASSUME bits = {} PROVE FALSE
    OBVIOUS
  <2>1. pg.slots = 0 .. Capacity - 1
    BY <1>1 DEF Slot
  <2>2. Cardinality(0 .. Capacity - 1) = Capacity
    BY CapacityAssumption, FS_Interval
  <2> QED BY <1>1, <2>1, <2>2, CapacityAssumption DEF IsFull
<1>4. FreeSlot(pg) = SearchFrom(bits, 0)
  BY DEF FreeSlot, next_unsetted_bit
<1>5. PICK b \in bits : TRUE
  BY <1>3
<1>6. SearchFrom(bits, 0) # NoBit
  BY <1>2, <1>5, InPlaceFromStart, SearchExact
<1>7. SearchFrom(bits, 0) \in bits
  BY <1>2, <1>6, SearchBound
<1> QED BY <1>4, <1>7 DEF Slot

LEMMA FreeSlotOfSound ==
  ASSUME NEW pg, SoundPage(pg), ~ IsFull(pg)
  PROVE  FreeSlot(pg) \in Slot \ pg.slots
<1>1. pg \in RecordPages /\ pg.record_num \in Int /\ pg.record_num = Cardinality(pg.slots)
  BY DEF SoundPage, RecordPages
<1>2. Cardinality(pg.slots) <= pg.record_num
  BY <1>1
<1> QED BY <1>1, <1>2, FreeSlotIs

-----------------------------------------------------------------------------
(* The operations on a page. *)

LEMMA ClearedSound == SoundPage(ClearedPage) /\ ~ IsFull(ClearedPage) /\ ClearedPage.slots = {}
<1>1. ClearedPage \in RecordPages /\ ClearedPage.slots = {} /\ ClearedPage.record_num = 0
  BY DEF ClearedPage, RecordPages
<1>2. Cardinality({}) = 0
  BY FS_EmptySet
<1> QED BY <1>1, <1>2, CapacityAssumption DEF SoundPage, IsFull

LEMMA SlotsFinite ==
  ASSUME NEW slots \in SUBSET Slot
  PROVE  IsFiniteSet(slots) /\ Cardinality(slots) \in Nat
<1>1. IsFiniteSet(Slot)
  BY CapacityAssumption, FS_Interval DEF Slot
<1> QED BY <1>1, FS_Subset, FS_CardinalityType

LEMMA PutSound ==
  ASSUME NEW pg, SoundPage(pg), NEW k \in Slot \ pg.slots, NEW d \in Data
  PROVE  /\ SoundPage(PutRecord(pg, k, d))
         /\ PutRecord(pg, k, d).slots = pg.slots \cup {k}
         /\ PutRecord(pg, k, d).data[k] = d
         /\ \A j \in Slot \ {k} : PutRecord(pg, k, d).data[j] = pg.data[j]
<1> DEFINE new == PutRecord(pg, k, d)
<1>1. /\ pg.record_num \in Int /\ pg.slots \in SUBSET Slot
      /\ pg.data \in [Slot -> Data \cup {NoData}] /\ pg \in RecordPages
  BY DEF SoundPage, RecordPages
<1>2. /\ new \in RecordPages
      /\ new.record_num = pg.record_num + 1 /\ new.slots = pg.slots \cup {k}
      /\ new.data = [pg.data EXCEPT ![k] = d]
  BY <1>1 DEF PutRecord, RecordPages
<1>3. new.data[k] = d /\ \A j \in Slot \ {k} : new.data[j] = pg.data[j]
  BY <1>1, <1>2
<1>4. Cardinality(pg.slots \cup {k}) = Cardinality(pg.slots) + 1
  BY <1>1, SlotsFinite, FS_AddElement
<1> QED BY <1>1, <1>2, <1>3, <1>4 DEF SoundPage

LEMMA UpdateSound ==
  ASSUME NEW pg, SoundPage(pg), NEW k \in pg.slots, NEW d \in Data
  PROVE  /\ SoundPage(UpdateAt(pg, k, d))
         /\ UpdateAt(pg, k, d).slots = pg.slots
         /\ UpdateAt(pg, k, d).data[k] = d
         /\ \A j \in Slot \ {k} : UpdateAt(pg, k, d).data[j] = pg.data[j]
<1> DEFINE new == UpdateAt(pg, k, d)
<1>1. /\ pg.record_num \in Int /\ pg.slots \in SUBSET Slot
      /\ pg.data \in [Slot -> Data \cup {NoData}] /\ pg \in RecordPages
  BY DEF SoundPage, RecordPages
<1>2. /\ new \in RecordPages
      /\ new.record_num = pg.record_num /\ new.slots = pg.slots
      /\ new.data = [pg.data EXCEPT ![k] = d]
  BY <1>1 DEF UpdateAt, RecordPages
<1>3. new.data[k] = d /\ \A j \in Slot \ {k} : new.data[j] = pg.data[j]
  BY <1>1, <1>2
<1> QED BY <1>1, <1>2, <1>3 DEF SoundPage

LEMMA DeleteSound ==
  ASSUME NEW pg, SoundPage(pg), NEW k \in pg.slots
  PROVE  /\ SoundPage(DeleteAt(pg, k))
         /\ DeleteAt(pg, k).slots = pg.slots \ {k}
         /\ DeleteAt(pg, k).record_num = 0 => DeleteAt(pg, k).slots = {}
         /\ \A j \in Slot \ {k} : DeleteAt(pg, k).data[j] = pg.data[j]
<1> DEFINE new == DeleteAt(pg, k)
<1>1. /\ pg.record_num \in Int /\ pg.slots \in SUBSET Slot
      /\ pg.data \in [Slot -> Data \cup {NoData}] /\ pg \in RecordPages
  BY DEF SoundPage, RecordPages
<1>2. /\ new \in RecordPages
      /\ new.record_num = pg.record_num - 1 /\ new.slots = pg.slots \ {k}
      /\ new.data = [pg.data EXCEPT ![k] = NoData]
  BY <1>1 DEF DeleteAt, RecordPages
<1>3. \A j \in Slot \ {k} : new.data[j] = pg.data[j]
  BY <1>1, <1>2
<1>4. IsFiniteSet(pg.slots) /\ Cardinality(pg.slots \ {k}) = Cardinality(pg.slots) - 1
  BY <1>1, SlotsFinite, FS_RemoveElement
<1>5. SoundPage(new)
  BY <1>1, <1>2, <1>3, <1>4 DEF SoundPage
<1>6. new.record_num = 0 => new.slots = {}
  <2>1. new.slots \in SUBSET Slot
    BY <1>1, <1>2
  <2>2. IsFiniteSet(new.slots) /\ new.record_num = Cardinality(new.slots)
    BY <1>5, <2>1, SlotsFinite DEF SoundPage
  <2> QED BY <2>2, FS_EmptySet
<1> QED BY <1>2, <1>3, <1>5, <1>6

-----------------------------------------------------------------------------
(* The operations on the header of the file. *)

(* The search of allocate_page finds a page if some bit is clear. *)
LEMMA FirstFreePageIsFree ==
  ASSUME NEW h \in FileHeader, HasFreePage(h)
  PROVE  FirstFreePage(h) \in ClearBits(h)
<1>1. ClearBits(h) \in SUBSET Nat /\ ClearBits(h) # {}
  BY MaxPageNumAssumption DEF HasFreePage, ClearBits, PageNum
<1>2. FirstFreePage(h) = Lowest(ClearBits(h))
  BY DEF FirstFreePage, Lowest
<1> QED BY <1>1, <1>2, LowestIs

(* Every header operation gives a header again. *)
LEMMA HeaderTypes ==
  ASSUME NEW h \in FileHeader, NEW p \in PageNum
  PROVE  /\ ReusePage(h, p) \in FileHeader
         /\ p # HeaderPage => ReleasePage(h, p) \in FileHeader
         /\ RecoverPageBit(h, p) \in FileHeader
BY SMT DEF FileHeader, ReusePage, ReleasePage, RecoverPageBit

LEMMA ExtendType ==
  ASSUME NEW h \in FileHeader, ~ FileIsFull(h)
  PROVE  /\ h.page_count \in PageNum \ {HeaderPage}
         /\ ExtendFile(h) \in FileHeader
<1>1. h.page_count \in PageNum \ {HeaderPage}
  BY MaxPageNumAssumption, SMT DEF FileHeader, FileIsFull, PageNum, HeaderPage
<1> QED BY <1>1, SMT DEF FileHeader, ExtendFile

(* A new file's header is exact. *)
LEMMA NewHeaderExact ==
  NewHeader \in FileHeader /\ ExactHeader(NewHeader)
<1>1. Cardinality({HeaderPage}) = 1
  BY FS_Singleton
<1> QED BY <1>1, MaxPageNumAssumption, SMT
        DEF NewHeader, FileHeader, ExactHeader, PageNum, HeaderPage
=============================================================================
