---------------------------- MODULE MCRecordFile ----------------------------
(* The records of one table file on small instances.  Record contents are  *)
(* interchangeable.                                                        *)
EXTENDS RecordFile, TLC

DataSymmetry == Permutations(Data)

(* Bounds: a page that is emptied over and over after it was disposed of   *)
(* lowers allocated_pages every time; at most one record has a content of  *)
(* its own, in at most four records in all.                                *)
Bounds ==
  /\ hdr.allocated_pages >= 1
  /\ Cardinality(StoredRids) <= 4
  /\ \E d \in Data : Cardinality({rid \in StoredRids : stored[rid] # d}) <= 1
=============================================================================
