----------------------------- MODULE RecordPage -----------------------------
(***************************************************************************)
(* A page of records (RecordPageHandler, record_manager.cpp): a header     *)
(* with the number of records and the capacity, a bitmap of the slots in   *)
(* use, and the slots.  The operators return the page after the operation; *)
(* the caller guards the error returns.                                    *)
(***************************************************************************)
EXTENDS Bitmap

CONSTANTS
  Capacity,   \* record_capacity: the slots of a page
  Data,       \* contents of a record
  NoData      \* a slot without a record

ASSUME CapacityAssumption == Capacity \in Nat \ {0}

ASSUME NoDataAssumption == NoData \notin Data

Slot == 0 .. Capacity - 1

RecordPages ==
  [record_num : Int, slots : SUBSET Slot, data : [Slot -> Data \cup {NoData}]]

\* a page as allocate_page clears it
ClearedPage ==
  [record_num |-> 0, slots |-> {}, data |-> [s \in Slot |-> NoData]]

(* init_empty_page: the header is set and the bitmap cleared.  (What is    *)
(* left in a slot whose bit is clear is never read: NoData.)               *)
InitEmptyPage(pg) == ClearedPage

IsFull(pg) == pg.record_num >= Capacity

(* insert_record and recover_insert_record, for the slot found or given.   *)
(* The count goes up whether or not the bit was set.                       *)
PutRecord(pg, s, d) ==
  [record_num |-> pg.record_num + 1,
   slots      |-> pg.slots \cup {s},
   data       |-> [pg.data EXCEPT ![s] = d]]

\* Mutant: the records are taken to be in the first slots.
FreeSlotAfterLast(pg) == pg.record_num

FreeSlot(pg) == next_unsetted_bit(pg.slots, Capacity, 0)

(* recover_insert_record fails, and leaves the page alone, when the count  *)
(* has reached the capacity.                                               *)
RecoverInsertFails(pg) == pg.record_num = Capacity

UpdateAt(pg, s, d) == [pg EXCEPT !.data[s] = d]

DeleteAt(pg, s) ==
  [record_num |-> pg.record_num - 1,
   slots      |-> pg.slots \ {s},
   data       |-> [pg.data EXCEPT ![s] = NoData]]

=============================================================================
