--------------------------- MODULE MCTableIndexes ---------------------------
(***************************************************************************)
(* Two fields, the second nullable, two values, two slots; a unique index  *)
(* of one field and one of both.  Taken no further: a state with two       *)
(* entries of no row in the indexes; and a tree that got no page together  *)
(* with a LOAD DATA under way or a DELETE the transaction has yet to       *)
(* commit.                                                                 *)
(***************************************************************************)
EXTENDS TableIndexes

MCIndexDefs ==
  {[attributes |-> <<"a">>, unique |-> TRUE],
   [attributes |-> <<"a", "b">>, unique |-> TRUE]}

Stale(i) == entries[i] \ {EntryOf(indexes[i], rows[rid], rid) : rid \in DOMAIN rows}

OneStale == Cardinality(UNION {{i} \X Stale(i) : i \in DOMAIN indexes}) <= 1

FaultAlone ==
  faults > 0 => stmt.kind \notin {"LOAD", "COMMIT"} /\ \A rid \in RID : ops[rid] # "DELETE"
=============================================================================
