----------------------------- MODULE MCBPlusTree -----------------------------
(* The B+ tree on small instances: created on an empty table, and on       *)
(* tables with enough rows, in ascending, descending and mixed order, for   *)
(* three levels with an internal node that is full and one at its minimum. *)
EXTENDS BPlusTree

Rows == {e \in Entries : e < Key(5, 2)}
Ascending == InOrder(Rows)
Outwards == SelectSeq(Reverse(Ascending), LAMBDA e : e % 2 = 0)
              \o SelectSeq(Ascending, LAMBDA e : e % 2 = 1)
Built == {<<>>, Ascending, Reverse(Ascending), Outwards}
=============================================================================
