------------------------------ MODULE BPlusNode ------------------------------
(***************************************************************************)
(* The nodes of a B+ tree index (bplus_tree.h: IndexNode, LeafIndexNode,   *)
(* InternalIndexNode) and what the node handlers do to them.  A node is a  *)
(* record; key and child at the same position make up an item.  The key of *)
(* an entry is the attribute followed by the RID, so that keys are unique; *)
(* here it is a number that orders the same way.  The first key of an      *)
(* internal node is stored and ignored by lookups, as in the code.         *)
(* Positions count from 1.                                                 *)
(***************************************************************************)
EXTENDS Integers, SequencesExt

CONSTANTS
  Pages,         \* page numbers of nodes; the header page is not one
  InternalMax,   \* IndexFileHeader::internal_max_size
  LeafMax,       \* IndexFileHeader::leaf_max_size
  NoNode         \* content of a page that is not allocated

NoPage == -1   \* BP_INVALID_PAGE_NUM

ASSUME BPlusNodeAssumption ==
  /\ Pages \subseteq Nat
  /\ InternalMax \in Nat /\ InternalMax >= 4
  /\ LeafMax \in Nat /\ LeafMax >= 4

Node ==
  {n \in [leaf : BOOLEAN, keys : Seq(Nat), children : Seq(Pages),
          parent : Pages \cup {NoPage},
          prev : Pages \cup {NoPage}, next : Pages \cup {NoPage}] :
     Len(n.children) = IF n.leaf THEN 0 ELSE Len(n.keys)}

(* init_empty *)
EmptyNode(leaf) ==
  [leaf |-> leaf, keys |-> <<>>, children |-> <<>>,
   parent |-> NoPage, prev |-> NoPage, next |-> NoPage]

Size(n) == Len(n.keys)
FirstKey(n) == n.keys[1]
LastKey(n) == n.keys[Size(n)]
FirstChild(n) == n.children[1]
LastChild(n) == n.children[Len(n.children)]

MaxSize(n) == IF n.leaf THEN LeafMax ELSE InternalMax
MinSize(n) == MaxSize(n) - MaxSize(n) \div 2

-----------------------------------------------------------------------------
(* Search.                                                                 *)

(* lower_bound: the first position from `from` on whose key is not smaller. *)
LowerBound(keys, from, k) ==
  from + Cardinality({i \in from .. Len(keys) : keys[i] < k})

(* LeafIndexNodeHandler::lookup: where the key is or would be inserted. *)
LeafLookup(n, k) == LowerBound(n.keys, 1, k)
Found(n, k) == LeafLookup(n, k) <= Size(n) /\ n.keys[LeafLookup(n, k)] = k

(* InternalIndexNodeHandler::lookup: where a key is inserted, and the child *)
(* that a key belongs to.                                                   *)
InsertPosition(n, k) == LowerBound(n.keys, 2, k)

\* Mutant: a key equal to a separator is looked for on its left.
LookupLeft(n, k) == InsertPosition(n, k) - 1

InternalLookup(n, k) ==
  LET i == InsertPosition(n, k)
  IN IF i > Size(n) \/ k < n.keys[i] THEN i - 1 ELSE i

-----------------------------------------------------------------------------
(* Changes of one node.                                                    *)

(* LeafIndexNodeHandler::insert *)
LeafInsert(n, k) == [n EXCEPT !.keys = InsertAt(@, LeafLookup(n, k), k)]

(* InternalIndexNodeHandler::insert *)
InternalInsert(n, k, p) ==
  LET i == InsertPosition(n, k)
  IN [n EXCEPT !.keys = InsertAt(@, i, k), !.children = InsertAt(@, i, p)]

\* Mutant: an item is removed without the page number that belongs to it.
RemoveKeyOnly(n, i) == [n EXCEPT !.keys = RemoveAt(@, i)]

(* LeafIndexNodeHandler::remove and InternalIndexNodeHandler::remove *)
RemoveItem(n, i) ==
  [n EXCEPT !.keys = RemoveAt(@, i),
            !.children = IF n.leaf THEN @ ELSE RemoveAt(@, i)]

(* Items i to j of n, as the items of m. *)
Part(m, n, i, j) ==
  [m EXCEPT !.keys = SubSeq(n.keys, i, j),
            !.children = IF n.leaf THEN <<>> ELSE SubSeq(n.children, i, j)]

(* append, copy_from: the items of n after those of m. *)
Joined(m, n) ==
  [m EXCEPT !.keys = @ \o n.keys, !.children = @ \o n.children]

-----------------------------------------------------------------------------
(* Changes of several nodes of the table t of pages.                       *)

(* set_parent_page_num on the children that copy_from and preappend move. *)
Adopt(t, moved, p) ==
  [q \in Pages |->
     IF q \in moved THEN [t[q] EXCEPT !.parent = p] ELSE t[q]]

(* split with move_half_to: the upper half of page f goes to the new page g. *)
SplitNode(t, f, g) ==
  LET n == t[f]
      h == Size(n) \div 2
      right == Part([EmptyNode(n.leaf) EXCEPT !.parent = n.parent], n, h + 1, Size(n))
      u == [t EXCEPT ![f] = Part(n, n, 1, h), ![g] = right]
  IN Adopt(u, ToSet(right.children), g)

\* Mutant: the leaf behind the new one keeps its prev_brother.
LinkForwardOnly(t, f, g) ==
  [t EXCEPT ![f].next = g, ![g].prev = f, ![g].next = t[f].next]

(* The new leaf g takes its place in the list after f: the end of          *)
(* insert_entry_into_leaf_node.                                            *)
LinkAfter(t, f, g) ==
  LET next == t[f].next
      u == [t EXCEPT ![f].next = g, ![g].prev = f, ![g].next = next]
  IN IF next = NoPage THEN u ELSE [u EXCEPT ![next].prev = g]

(* move_to: the items of the right page go to the left one, and leaves take *)
(* the right one out of the list.  The right page is disposed of.           *)
MergeInto(t, left, right) ==
  LET u == [t EXCEPT ![left] = [Joined(@, t[right]) EXCEPT !.next = t[right].next],
                     ![right] = NoNode]
      v == IF t[left].leaf /\ t[right].next # NoPage
             THEN [u EXCEPT ![t[right].next].prev = left]
             ELSE u
  IN Adopt(v, ToSet(t[right].children), left)

(* move_first_to_end: the right neighbour r gives its first item to f. *)
TakeFirst(t, f, r) ==
  LET n == t[r]
      u == [t EXCEPT ![f] = Joined(@, Part(n, n, 1, 1)),
                     ![r] = Part(n, n, 2, Size(n))]
  IN Adopt(u, IF n.leaf THEN {} ELSE {FirstChild(n)}, f)

(* move_last_to_front: the left neighbour l gives its last item to f. *)
TakeLast(t, f, l) ==
  LET n == t[l]
      last == Part(t[f], n, Size(n), Size(n))
      u == [t EXCEPT ![f] = Joined(last, @),
                     ![l] = Part(n, n, 1, Size(n) - 1)]
  IN Adopt(u, IF n.leaf THEN {} ELSE {LastChild(n)}, f)

=============================================================================
