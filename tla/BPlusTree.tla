------------------------------ MODULE BPlusTree ------------------------------
(***************************************************************************)
(* The B+ tree of an index (BplusTreeHandler and BplusTreeScanner,         *)
(* bplus_tree.cpp).  An operation that reaches beyond one leaf is made of  *)
(* several steps, one for each function the code calls on the way up.      *)
(*                                                                         *)
(*   node      the pages of the index file as the buffer shows them        *)
(*   root      file_header_.root_page                                      *)
(*   work      the call in progress: Idle, or                              *)
(*               insert   insert_entry_into_parent(frame, new)             *)
(*               shrink   coalesce_or_redistribute(frame)                  *)
(*   entries   the entries of the index (history)                          *)
(*   build     entries still to insert when the index is created           *)
(*   ops       operations since then (bound)                               *)
(*   dirty, disk   pages whose frame is marked dirty, and the index file   *)
(***************************************************************************)
EXTENDS BPlusNode

CONSTANTS
  Attrs,        \* values of the indexed attribute
  MaxRid,       \* RIDs are 1 .. MaxRid; 0 and MaxRid + 1 are RID::min and max
  BuildOrders,  \* sequences of entries: what Table::create_index inserts
  MaxOps        \* bound: insert_entry and delete_entry after that

ASSUME BPlusTreeAssumption == Attrs \subseteq Nat /\ MaxRid \in Nat

VARIABLES node, root, work, entries, build, ops, dirty, disk

vars == <<node, root, work, entries, build, ops, dirty, disk>>

(* make_key *)
Key(a, rid) == a * (MaxRid + 2) + rid
Entries == {Key(a, r) : a \in Attrs, r \in 1 .. MaxRid}

Idle == [call |-> "idle", frame |-> NoPage, new |-> NoPage]
Call == [call : {"idle", "insert", "shrink"},
         frame : Pages \cup {NoPage}, new : Pages \cup {NoPage}]

Allocated(t) == {p \in Pages : t[p] # NoNode}

(* allocate_page hands out the first free page. *)
FreePage(t) ==
  CHOOSE p \in Pages \ Allocated(t) : \A q \in Pages \ Allocated(t) : p <= q

(* find_leaf_internal: down from page r, Child choosing the way. *)
Descend(t, r, Child(_)) ==
  LET at[p \in Pages] == IF t[p].leaf THEN p ELSE at[Child(t[p])] IN at[r]

FindLeaf(t, r, k) ==
  Descend(t, r, LAMBDA n : n.children[InternalLookup(n, k)])

-----------------------------------------------------------------------------
(* insert_entry.                                                           *)

(* create_new_tree *)
CreateNewTree(e) ==
  LET p == FreePage(node)
  IN /\ root = NoPage
     /\ node' = [node EXCEPT ![p] = LeafInsert(EmptyNode(TRUE), e)]
     /\ root' = p
     /\ work' = Idle
     /\ dirty' = dirty \cup {p}

(* insert_entry_into_leaf_node, a leaf with room *)
InsertIntoLeaf(e) ==
  LET f == FindLeaf(node, root, e)
  IN /\ root # NoPage
     /\ ~Found(node[f], e)
     /\ Size(node[f]) < LeafMax
     /\ node' = [node EXCEPT ![f] = LeafInsert(@, e)]
     /\ work' = Idle
     /\ dirty' = dirty \cup {f}
     /\ UNCHANGED root

(* insert_entry_into_leaf_node, a full leaf: it is split, the new leaf     *)
(* linked behind it, and the entry goes to the half its position is in.    *)
(* The leaf behind them gets a new prev_brother and is not marked dirty.   *)
SplitLeaf(e) ==
  LET f == FindLeaf(node, root, e)
      g == FreePage(node)
      split == LinkAfter(SplitNode(node, f, g), f, g)
      half == IF LeafLookup(node[f], e) <= Size(split[f]) THEN f ELSE g
  IN /\ root # NoPage
     /\ ~Found(node[f], e)
     /\ Size(node[f]) >= LeafMax
     /\ node' = [split EXCEPT ![half] = LeafInsert(@, e)]
     /\ work' = [call |-> "insert", frame |-> f, new |-> g]
     /\ dirty' = dirty \cup {f, g}
     /\ UNCHANGED root

InsertEntry(e) ==
  /\ work = Idle
  /\ IF build # <<>>
       THEN e = Head(build) /\ build' = Tail(build) /\ UNCHANGED ops
       ELSE ops < MaxOps /\ ops' = ops + 1 /\ UNCHANGED build
  /\ CreateNewTree(e) \/ InsertIntoLeaf(e) \/ SplitLeaf(e)
  /\ entries' = entries \cup {e}
  /\ UNCHANGED disk

(* insert_entry_into_parent when the node that was split is the root *)
NewRoot ==
  LET f == work.frame
      g == work.new
      r == FreePage(node)
      top == [EmptyNode(FALSE) EXCEPT !.keys = <<0, FirstKey(node[g])>>,
                                      !.children = <<f, g>>]
  IN /\ work.call = "insert"
     /\ node[f].parent = NoPage
     /\ node' = Adopt([node EXCEPT ![r] = top], {f, g}, r)
     /\ root' = r
     /\ work' = Idle
     /\ dirty' = dirty \cup {f, g, r}
     /\ UNCHANGED <<entries, build, ops, disk>>

(* insert_entry_into_parent, a parent with room *)
InsertIntoParent ==
  LET g == work.new
      p == node[work.frame].parent
  IN /\ work.call = "insert"
     /\ p # NoPage
     /\ Size(node[p]) < InternalMax
     /\ node' = Adopt([node EXCEPT ![p] = InternalInsert(@, FirstKey(node[g]), g)],
                      {g}, p)
     /\ work' = Idle
     /\ dirty' = dirty \cup {work.frame, g, p}
     /\ UNCHANGED <<root, entries, build, ops, disk>>

(* insert_entry_into_parent, a full parent: it is split, the new child goes *)
(* to the half its key belongs to, and the parent's parent is next.         *)
SplitParent ==
  LET g == work.new
      k == FirstKey(node[g])
      p == node[work.frame].parent
      q == FreePage(node)
      split == SplitNode(node, p, q)
      half == IF k > FirstKey(split[q]) THEN q ELSE p
      moved == ToSet(split[q].children)
  IN /\ work.call = "insert"
     /\ p # NoPage
     /\ Size(node[p]) >= InternalMax
     /\ node' = Adopt([split EXCEPT ![half] = InternalInsert(@, k, g)], {g}, half)
     /\ work' = [call |-> "insert", frame |-> p, new |-> q]
     /\ dirty' = dirty \cup {p, q} \cup moved
     /\ UNCHANGED <<root, entries, build, ops, disk>>

-----------------------------------------------------------------------------
(* delete_entry.                                                           *)

(* delete_entry and delete_entry_internal *)
DeleteEntry(e) ==
  LET f == FindLeaf(node, root, e)
      less == RemoveItem(node[f], LeafLookup(node[f], e))
  IN /\ work = Idle
     /\ build = <<>>
     /\ ops < MaxOps
     /\ root # NoPage
     /\ Found(node[f], e)
     /\ node' = [node EXCEPT ![f] = less]
     /\ work' = IF Size(less) >= MinSize(less) THEN Idle
                ELSE [call |-> "shrink", frame |-> f, new |-> NoPage]
     /\ entries' = entries \ {e}
     /\ ops' = ops + 1
     /\ dirty' = dirty \cup {f}
     /\ UNCHANGED <<root, build, disk>>

(* coalesce_or_redistribute of a node that is large enough, or of a root   *)
(* that may stay: with several items, or a leaf with one.                  *)
Enough ==
  LET n == node[work.frame]
  IN /\ work.call = "shrink"
     /\ \/ Size(n) >= MinSize(n)
        \/ n.parent = NoPage /\ Size(n) > 1
        \/ n.parent = NoPage /\ n.leaf /\ Size(n) > 0
     /\ work' = Idle
     /\ dirty' = IF Size(n) = 1 THEN dirty \cup {work.frame} ELSE dirty
     /\ UNCHANGED <<node, root, entries, build, ops, disk>>

(* adjust_root: an empty root leaf goes, a root with one child gives it    *)
(* its place.  The child's frame is not marked dirty.                      *)
AdjustRoot ==
  LET f == work.frame
      n == node[f]
      u == [node EXCEPT ![f] = NoNode]
  IN /\ work.call = "shrink"
     /\ Size(n) < MinSize(n)
     /\ n.parent = NoPage
     /\ \/ /\ n.leaf /\ Size(n) = 0
           /\ root' = NoPage
           /\ node' = u
        \/ /\ ~n.leaf /\ Size(n) <= 1
           /\ root' = FirstChild(n)
           /\ node' = Adopt(u, {FirstChild(n)}, NoPage)
     /\ work' = Idle
     /\ dirty' = dirty \ {f}
     /\ UNCHANGED <<entries, build, ops, disk>>

(* coalesce_or_redistribute looks its place in the parent up by its last   *)
(* key, and takes the neighbour on the left if there is one.               *)
PlaceInParent(f) == InternalLookup(node[node[f].parent], LastKey(node[f]))

Neighbor(f) ==
  LET up == node[node[f].parent]
      i == PlaceInParent(f)
  IN up.children[IF i = 1 THEN 2 ELSE i - 1]

Shrinking(f) ==
  /\ work.call = "shrink"
  /\ Size(node[f]) < MinSize(node[f])
  /\ node[f].parent # NoPage

Fits(f) == Size(node[f]) + Size(node[Neighbor(f)]) <= MaxSize(node[f])

(* coalesce: the right one of the two goes into the left one, its item is  *)
(* removed from the parent and its page disposed of; the parent is next.   *)
(* Only children that move and the frame of the deletion are marked dirty. *)
Coalesce ==
  LET f == work.frame
      up == node[f].parent
      i == PlaceInParent(f)
      left == IF i = 1 THEN f ELSE Neighbor(f)
      right == IF i = 1 THEN Neighbor(f) ELSE f
      less == [node EXCEPT ![up] = RemoveItem(@, IF i = 1 THEN 2 ELSE i)]
  IN /\ Shrinking(f)
     /\ Fits(f)
     /\ node' = MergeInto(less, left, right)
     /\ work' = [call |-> "shrink", frame |-> up, new |-> NoPage]
     /\ dirty' = (dirty \cup ToSet(node[right].children)
                  \cup (IF node[f].leaf /\ node[right].next # NoPage
                          THEN {node[right].next} ELSE {})) \ {right}
     /\ UNCHANGED <<root, entries, build, ops, disk>>

(* set_key_at of the parent *)
SetSeparator(t, up, i, k) == [t EXCEPT ![up].keys[i] = k]

(* redistribute: the neighbour gives one item. *)
Redistribute ==
  LET f == work.frame
      up == node[f].parent
      i == PlaceInParent(f)
      b == Neighbor(f)
      given == IF i = 1 THEN TakeFirst(node, f, b) ELSE TakeLast(node, f, b)
  IN /\ Shrinking(f)
     /\ ~Fits(f)
     /\ node' = IF i = 1 THEN SetSeparator(given, up, 2, FirstKey(given[b]))
                ELSE SetSeparator(given, up, i, FirstKey(given[f]))
     /\ work' = Idle
     /\ dirty' = dirty \cup {f, b, up}
                 \cup {c \in Allocated(node) : given[c].parent # node[c].parent}
     /\ UNCHANGED <<root, entries, build, ops, disk>>

-----------------------------------------------------------------------------
(* The buffer pool puts a page out of memory: a dirty one is written, a    *)
(* clean one is read from the file again when it is needed.                *)
EvictPage(p) ==
  /\ work = Idle
  /\ node[p] # NoNode
  /\ node' = IF p \in dirty THEN node ELSE [node EXCEPT ![p] = disk[p]]
  /\ disk' = IF p \in dirty THEN [disk EXCEPT ![p] = node[p]] ELSE disk
  /\ dirty' = dirty \ {p}
  /\ UNCHANGED <<root, work, entries, build, ops>>

Init ==
  /\ node = [p \in Pages |-> NoNode]
  /\ root = NoPage
  /\ work = Idle
  /\ entries = {}
  /\ build \in BuildOrders
  /\ ops = 0
  /\ dirty = {}
  /\ disk = node

Next ==
  \/ \E e \in Entries : InsertEntry(e)
  \/ \E e \in Entries : DeleteEntry(e)
  \/ NewRoot \/ InsertIntoParent \/ SplitParent
  \/ Enough \/ AdjustRoot \/ Coalesce \/ Redistribute

Spec == Init /\ [][Next]_vars

(* The same in a buffer pool with few frames. *)
SpecEvict == Init /\ [][Next \/ \E p \in Pages : EvictPage(p)]_vars

-----------------------------------------------------------------------------
(* BplusTreeScanner: open finds the leaf and the position of both ends of  *)
(* the range, next_entry goes from one to the other along the leaf list.   *)
(* An empty tree or range makes open fail: the scan returns nothing.       *)
NoKey == -1   \* no bound on this side
Broken == -1  \* in the result: next_entry returned INTERNAL

LeftMostPage == Descend(node, root, FirstChild)
RightMostPage == Descend(node, root, LastChild)

(* Where the scan starts: <<NoPage, 0>> when there is nothing from there on. *)
ScanStart(a, inclusive) ==
  LET k == Key(a, IF inclusive THEN 0 ELSE MaxRid + 1)
      p == FindLeaf(node, root, k)
      i == LeafLookup(node[p], k)
  IN CASE a = NoKey -> <<LeftMostPage, 1>>
       [] a # NoKey /\ i <= Size(node[p]) -> <<p, i>>
       [] OTHER -> <<node[p].next, IF node[p].next = NoPage THEN 0 ELSE 1>>

(* Where it ends. *)
ScanEnd(a, inclusive) ==
  LET k == Key(a, IF inclusive THEN MaxRid + 1 ELSE 0)
      p == FindLeaf(node, root, k)
      i == LeafLookup(node[p], k)
      prev == node[p].prev
  IN CASE a = NoKey -> <<RightMostPage, Size(node[RightMostPage])>>
       [] a # NoKey /\ i > 1 -> <<p, i - 1>>
       [] OTHER -> IF prev = NoPage THEN <<NoPage, 0>>
                   ELSE <<prev, Size(node[prev])>>

\* Mutant: open compares the two ends only when they are in one leaf.
CrossedInLeaf(from, to) == from[1] = to[1] /\ from[2] > to[2]

(* open decides that the left end lies behind the right one. *)
Crossed(from, to) ==
  \/ from[1] = to[1] /\ from[2] > to[2]
  \/ from[1] # to[1] /\ node[from[1]].prev = to[1]

(* All next_entry calls of a scan. *)
ScanFrom(from, to) ==
  LET rest[at \in Pages \X (1 .. LeafMax)] ==
        LET n == node[at[1]]
        IN <<n.keys[at[2]]>> \o
           CASE at = to -> <<>>
             [] at # to /\ at[2] < Size(n) -> rest[<<at[1], at[2] + 1>>]
             [] at # to /\ at[2] >= Size(n) /\ (at[1] = to[1] \/ n.next = NoPage) -> <<Broken>>
             [] OTHER -> rest[<<n.next, 1>>]
  IN rest[from]

Scan(left, leftIn, right, rightIn) ==
  LET from == ScanStart(left, leftIn)
      to == ScanEnd(right, rightIn)
  IN CASE root = NoPage -> <<>>
       [] root # NoPage /\ left # NoKey /\ right # NoKey
          /\ (left > right \/ (left = right /\ ~(leftIn /\ rightIn))) -> <<>>
       [] OTHER -> IF from[1] = NoPage \/ to[1] = NoPage THEN <<>>
                   ELSE IF Crossed(from, to) THEN <<>>
                   ELSE ScanFrom(from, to)

-----------------------------------------------------------------------------
(* What the code checks itself (validate_tree).                            *)

(* IndexNodeHandler::validate, the key order of both kinds of nodes, and   *)
(* the separators on both sides of the node in its parent.                 *)
ValidateNode(p) ==
  LET n == node[p]
      up == node[n.parent]
      i == CHOOSE j \in 1 .. Size(up) : up.children[j] = p
      low == IF n.leaf THEN 1 ELSE 2
  IN /\ n.parent = NoPage => Size(n) >= 1 /\ (n.leaf \/ Size(n) >= 2)
     /\ \A j \in low + 1 .. Size(n) : n.keys[j - 1] < n.keys[j]
     /\ \A j \in 1 .. Len(n.children) : node[n.children[j]].parent = p
     /\ n.parent # NoPage =>
          /\ p \in ToSet(up.children)
          /\ i > 1 => n.keys[low] >= up.keys[i]
          /\ i < Size(up) => LastKey(n) < up.keys[i + 1]

(* validate_leaf_link *)
ValidateLeafLink ==
  LET link[p \in Pages] ==
        LET next == node[p].next
        IN \/ next = NoPage
           \/ /\ node[next].prev = p
              /\ LastKey(node[p]) < FirstKey(node[next])
              /\ link[next]
  IN node[LeftMostPage].prev = NoPage /\ link[LeftMostPage]

(* validate_tree: every node from the root down, and the list of leaves. *)
Below(p) ==
  LET under[q \in Pages] == {q} \cup UNION {under[c] : c \in ToSet(node[q].children)}
  IN under[p]

ValidateTree ==
  root = NoPage \/ ((\A p \in Below(root) : ValidateNode(p)) /\ ValidateLeafLink)

-----------------------------------------------------------------------------
TypeOK ==
  /\ node \in [Pages -> Node \cup {NoNode}]
  /\ root \in Pages \cup {NoPage}
  /\ work \in Call
  /\ entries \subseteq Entries
  /\ dirty \subseteq Pages

(* All leaves at one depth, every node but the root between min_size and   *)
(* max_size, and every allocated page of the file belongs to the tree.     *)
Balanced ==
  LET depth[p \in Pages] == IF node[p].leaf THEN {0}
                            ELSE {1 + d : d \in UNION {depth[c] : c \in ToSet(node[p].children)}}
  IN /\ Allocated(node) = IF root = NoPage THEN {} ELSE Below(root)
     /\ root # NoPage => Cardinality(depth[root]) = 1
     /\ \A p \in Allocated(node) :
          Size(node[p]) <= MaxSize(node[p])
          /\ (p # root => Size(node[p]) >= MinSize(node[p]))

(* Between operations the tree passes the code's own validate_tree (order  *)
(* of the keys, separators, parent pointers and the doubly linked list of  *)
(* leaves, bplus_tree.cpp:1063), is balanced, and has lost no page: splits, *)
(* merges and redistributions give back the pages they empty.              *)
TreeValid == work = Idle => ValidateTree /\ Balanced

(* A descent by key finds an entry exactly if it was inserted and not      *)
(* deleted since: find_leaf agrees with where splits, merges and           *)
(* redistributions have put the entries.                                   *)
EntriesExact ==
  work = Idle =>
    \A e \in Entries :
      e \in entries <=> root # NoPage /\ Found(node[FindLeaf(node, root, e)], e)

(* The numbers of a set in ascending order. *)
InOrder(S) ==
  [i \in 1 .. Cardinality(S) |->
     CHOOSE x \in S : Cardinality({y \in S : y < x}) = i - 1]

(* A range scan returns the entries of the range, in order, for every kind *)
(* of bound on either side, whether or not the bounds are in the index.    *)
ScanExact ==
  (work = Idle /\ build = <<>>) =>
    \A l, r \in Attrs \cup {NoKey}, li, ri \in BOOLEAN :
      Scan(l, li, r, ri) =
        InOrder({e \in entries :
                   /\ l # NoKey => e > Key(l, IF li THEN 0 ELSE MaxRid + 1)
                   /\ r # NoKey => e < Key(r, IF ri THEN MaxRid + 1 ELSE 0)})
=============================================================================
