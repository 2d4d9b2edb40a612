----------------------------- MODULE SelectFlow -----------------------------
(***************************************************************************)
(* The operators of a SELECT: scan, join, predicate, aggregate, order and  *)
(* project, and the comparison of a filter unit, which evaluates the       *)
(* subqueries below it again for every row.                                *)
(*                                                                         *)
(* An operator returns [rc, rel, st].  st is what outlives one evaluation  *)
(* of an operator tree: ran, the subqueries whose join ran before (a       *)
(* JoinOperator never empties its lists), and nul, the aggregate objects   *)
(* that have read a NULL, each named by its place <<query, list, number>>. *)
(* fa is the row of the outer query a subquery is evaluated for.           *)
(***************************************************************************)
EXTENDS SelectStmt

NoRow == <<>>   \* a free slot of a table

Answer(rc, rel, st) == [rc |-> rc, rel |-> rel, st |-> st]
Verdict(rc, b, st) == [rc |-> rc, b |-> b, st |-> st]
Rel(sch, rows) == [sch |-> sch, rows |-> rows]
NoRel == Rel(<<>>, <<>>)
NoFather == [sch |-> <<>>, row |-> <<>>]
Fresh == [ran |-> {}, nul |-> {}]
RelationItem == [t |-> "RELATIONS", n |-> 0, s |-> <<>>]

Flagged(st, place) == {p[2] : p \in {q \in st.nul : q[1] = place}}
Flag(st, place, aggregates) == [st EXCEPT !.nul = @ \cup ({place} \X aggregates)]

tupleToRow(rec) == [i \in DOMAIN rec |-> IF rec[i].null THEN Null ELSE rec[i].v]

Scan(db, t) ==
  LET records == SelectSeq(db[t], LAMBDA r : r # NoRow)
  IN Rel(expandStar(t), [i \in DOMAIN records |-> tupleToRow(records[i])])

\* Every combination of rows; the index of the last relation moves fastest.
Product(rels) ==
  LET Times(rows, rel) ==
        FlattenSeq([i \in DOMAIN rows |-> [j \in DOMAIN rel.rows |-> rows[i] \o rel.rows[j]]])
  IN Rel(FlattenSeq([i \in DOMAIN rels |-> rels[i].sch]), FoldLeft(Times, << <<>> >>, rels))

MapUnits(units, sch) ==
  \A i \in DOMAIN units :
    IsInner(units[i]) \/ (mapToRelation(units[i].l, sch) /\ mapToRelation(units[i].r, sch))

\* The one value of a relation: NULL for no row, nothing (Bad) for several.
relation2item(rel) ==
  CASE rel.rows = <<>> -> Null
    [] Len(rel.rows) = 1 /\ Len(rel.rows[1]) = 1 -> rel.rows[1][1]
    [] OTHER -> Bad

RECURSIVE evaluateQuery(_, _, _, _, _), compare(_, _, _, _, _, _), update(_, _, _, _)

\* The relation of a list or of a subquery, for the row of the outer query.
update(e, fa, db, st) ==
  IF e.k = "LIST" THEN Answer("SUCCESS", Rel(e.items, <<e.items>>), st)
  ELSE evaluateQuery(e.q, e.id, fa, db, st)

\* One side of a comparison as a single value, Bad when it has several.
Single(e, v, fa, db, st) ==
  IF v # RelationItem THEN [rc |-> "SUCCESS", v |-> v, st |-> st]
  ELSE Then(update(e, fa, db, st), LAMBDA u :
         [rc |-> IF relation2item(u.rel) = Bad THEN "FAILURE" ELSE "SUCCESS",
          v |-> relation2item(u.rel), st |-> u.st])

\* left IN / NOT IN right, both relations by now.
CompareIn(op, left, right, isColumn, st) ==
  IF relation2item(left) = Bad \/ (isColumn /\ Len(right.sch) > 1)
  THEN Verdict("FAILURE", FALSE, st)
  ELSE Verdict("SUCCESS",
               inComp(relation2item(left),
                      IF isColumn THEN [i \in DOMAIN right.rows |-> right.rows[i][1]]
                      ELSE right.rows[1], op, isColumn), st)

\* A comparison with a relation on at least one side.
CompareRelation(u, l, r, fa, db, st) ==
  IF u.op \in {"EXISTS", "NOT_EXISTS", "IN", "NOT_IN"} /\ r # RelationItem
  THEN Verdict("FAILURE", FALSE, st)
  ELSE IF u.op \in {"EXISTS", "NOT_EXISTS"}
  THEN Then(update(u.r, fa, db, st), LAMBDA right :
         Verdict("SUCCESS", (u.op = "EXISTS") = (right.rel.rows # <<>>), right.st))
  ELSE IF u.op \in {"IN", "NOT_IN"}
  THEN Then(IF l = RelationItem THEN update(u.l, fa, db, st)
            ELSE Answer("SUCCESS", Rel(<<u.l>>, << <<l>> >>), st), LAMBDA left :
         Then(update(u.r, fa, db, left.st), LAMBDA right :
           CompareIn(u.op, left.rel, right.rel, u.r.k = "SUBQUERY", right.st)))
  ELSE Then(Single(u.l, l, fa, db, st), LAMBDA left :
         Then(Single(u.r, r, fa, db, left.st), LAMBDA right :
           Verdict("SUCCESS", itemComp(left.v, right.v, u.op), right.st)))

\* The comparison of two values.  NULL is decided before a subquery runs.
CompareValues(u, l, r, fa, db, st) ==
  IF Bad \in {l, r} \/ ~checkTypeMatch(l.t, r.t) THEN Verdict("FAILURE", FALSE, st)
  ELSE IF IsNull(l) /\ IsNull(r) THEN Verdict("SUCCESS", u.op = "IS", st)
  ELSE IF IsNull(l) \/ IsNull(r) THEN Verdict("SUCCESS", u.op = "IS_NOT", st)
  ELSE IF RelationItem \in {l, r} THEN CompareRelation(u, l, r, fa, db, st)
  ELSE Verdict("SUCCESS", u.op \notin {"IS", "IS_NOT"} /\ itemComp(l, r, u.op), st)

NoValue(e) == e = NoExpr \/ IsRelation(e)

\* A filter unit on a row, at = [sch, row].
compare(u, at, fa, place, db, st) ==
  LET Value(e) == IF NoValue(e) THEN RelationItem
                  ELSE calculate(e, at.sch, at.row, Flagged(st, place))
      read == UNION {NullsRead(e, at.sch, at.row) : e \in {f \in {u.l, u.r} : ~NoValue(f)}}
  IN CompareValues(u, Value(u.l), Value(u.r), fa, db, Flag(st, place, read))

\* The condition tree below unit cur; the right side is skipped when the left
\* one decides.
RECURSIVE filter_row_tree(_, _, _, _, _, _)
filter_row_tree(units, cur, at, id, db, st) ==
  IF ~IsInner(units[cur])
  THEN compare(units[cur], at, at, <<id, "where", cur>>, db, st)
  ELSE Then(filter_row_tree(units, units[cur].lc, at, id, db, st), LAMBDA l :
         IF l.b = (units[cur].op = "OR_OP") THEN l
         ELSE filter_row_tree(units, units[cur].rc, at, id, db, l.st))

\* Units joined by AND, in order, until one is false.
FilterAnd(units, at, fa, id, list, db, st) ==
  FoldLeft(LAMBDA acc, i :
             IF acc.rc # "SUCCESS" \/ ~acc.b THEN acc
             ELSE compare(units[i], at, fa, <<id, list, i>>, db, acc.st),
           Verdict("SUCCESS", TRUE, st), [i \in DOMAIN units |-> i])

\* The rows of a relation a test accepts, until the test fails.
Filtered(Test(_, _), rel, st) ==
  FoldLeft(LAMBDA acc, row :
             Then(acc, LAMBDA before :
               Then(Test(row, before.st), LAMBDA v :
                 Answer("SUCCESS",
                        IF v.b THEN Rel(rel.sch, Append(before.rel.rows, row)) ELSE before.rel,
                        v.st))),
           Answer("SUCCESS", Rel(rel.sch, <<>>), st), rel.rows)

JoinRows(product, units, id, db, st) ==
  IF ~MapUnits(units, product.sch) THEN Answer("FAILURE", NoRel, st)
  ELSE Filtered(LAMBDA row, s : FilterAnd(units, [sch |-> product.sch, row |-> row],
                                          NoFather, id, "on", db, s),
                product, st)

JoinOperator(rels, units, id, db, st) == JoinRows(Product(rels), units, id, db, st)

\* A chain of joins: the new table first, what is joined so far second.
JoinChain(chain, id, db, st) ==
  FoldLeft(LAMBDA acc, link :
             Then(acc, LAMBDA before :
               JoinOperator(<<Scan(db, link.tab), before.rel>>, link.on, id, db, before.st)),
           Answer("SUCCESS", Scan(db, Head(chain).tab), st), Tail(chain))

JoinAll(joins, id, db, st) ==
  Then(FoldLeft(LAMBDA acc, chain :
                  Then(acc, LAMBDA before :
                    Then(JoinChain(chain, id, db, before.st), LAMBDA c :
                      Answer("SUCCESS", Append(before.rel, c.rel), c.st))),
                Answer("SUCCESS", <<>>, st), joins), LAMBDA chains :
    Answer("SUCCESS", Product(chains.rel), chains.st))

PredicateOperator1(rel, units, isTree, fa, id, db, st) ==
  LET At(row) == [sch |-> rel.sch \o fa.sch, row |-> row \o fa.row]
      Test(row, s) == IF units = <<>> THEN Verdict("SUCCESS", TRUE, s)
                      ELSE IF isTree THEN filter_row_tree(units, Len(units), At(row), id, db, s)
                      ELSE FilterAnd(units, At(row), At(row), id, "having", db, s)
  IN IF ~MapUnits(units, rel.sch \o fa.sch) THEN Answer("FAILURE", NoRel, st)
     ELSE Filtered(Test, rel, st)

\* The items of one row, or the failure of one of them.
constructRow(items, sch, acc, read) ==
  IF {Bad, Undefined} \cap ToSet(items) # {} THEN Answer("FAILURE", NoRel, acc.st)
  ELSE Answer("SUCCESS", Rel(sch, Append(acc.rel.rows, items)),
              [acc.st EXCEPT !.nul = @ \cup read])

TransformerAndProject(rel, exprs, fa, id, list, st) ==
  LET ToItem(i, row, s) == IF IsRelation(exprs[i]) THEN Undefined
                           ELSE calculate(exprs[i], rel.sch \o fa.sch, row, Flagged(s, <<id, list, i>>))
      Read(i, row) == {<<id, list, i>>} \X NullsRead(exprs[i], rel.sch \o fa.sch, row)
  IN IF \E i \in DOMAIN exprs : ~mapToRelation(exprs[i], rel.sch \o fa.sch)
     THEN Answer("FAILURE", NoRel, st)
     ELSE FoldLeft(LAMBDA acc, row :
                     Then(acc, LAMBDA before :
                       constructRow([i \in DOMAIN exprs |-> ToItem(i, row \o fa.row, before.st)],
                                    exprs, before,
                                    UNION {Read(i, row \o fa.row) : i \in DOMAIN exprs})),
                   Answer("SUCCESS", Rel(exprs, <<>>), st), rel.rows)

\* The values of the group-by expressions on a row.
KeyOf(groupBy, sch, row) == [i \in DOMAIN groupBy |-> calculate(groupBy[i], sch, row, {})]

\* The groups: the rows of each key, in the order the keys first appear; a
\* row with a NULL key belongs to none.
Groups(rel, groupBy) ==
  FoldLeft(LAMBDA acc, row :
             IF Null \in ToSet(KeyOf(groupBy, rel.sch, row)) THEN acc
             ELSE IF \E g \in DOMAIN acc : acc[g].key = KeyOf(groupBy, rel.sch, row)
             THEN [g \in DOMAIN acc |-> IF acc[g].key = KeyOf(groupBy, rel.sch, row)
                                        THEN [acc[g] EXCEPT !.rows = Append(@, row)] ELSE acc[g]]
             ELSE Append(acc, [key |-> KeyOf(groupBy, rel.sch, row), rows |-> <<row>>]),
           <<>>, rel.rows)

\* One aggregate on each group.
ColumnOf(a, groups, sch) ==
  [g \in DOMAIN groups |->
    Aggregated(a, [i \in DOMAIN groups[g].rows |-> calculate(a.sub, sch, groups[g].rows[i], {})])]

Aggregation(aggregates, rows, st) ==
  IF \E i \in DOMAIN rows : Bad \in ToSet(rows[i]) THEN Answer("FAILURE", NoRel, st)
  ELSE IF \E i \in DOMAIN rows : Crash \in ToSet(rows[i]) THEN Answer("CRASH", NoRel, st)
  ELSE Answer("SUCCESS", Rel(aggregates, rows), st)

\* One row for each group; a relation without rows gives one row too.
AggregateOperator(rel, aggregates, groupBy, st) ==
  LET Rows(columns) == IF columns = <<>> THEN <<>>
                       ELSE [g \in DOMAIN columns[1] |-> [j \in DOMAIN columns |-> columns[j][g]]]
      groups == Groups(rel, groupBy)
  IN IF \E i \in DOMAIN rel.rows : Bad \in ToSet(KeyOf(groupBy, rel.sch, rel.rows[i]))
     THEN Answer("FAILURE", NoRel, st)
     ELSE IF rel.rows = <<>>
     THEN Aggregation(aggregates, <<[j \in DOMAIN aggregates |-> AggregatedEmpty(aggregates[j])]>>, st)
     ELSE Aggregation(aggregates,
                      Rows([j \in DOMAIN aggregates |-> ColumnOf(aggregates[j], groups, rel.sch)]), st)

\* Mutant: DESC is forgotten.
sortRowAscending(r1, r2, metas) ==
  LET differ == {i \in DOMAIN metas : r1[metas[i].idx] # r2[metas[i].idx]}
      a == r1[metas[Min(differ)].idx]
      b == r2[metas[Min(differ)].idx]
  IN differ = {} \/ (IF IsNull(a) \/ IsNull(b) THEN IsNull(a) ELSE ItemLess(a, b))

\* Whether r1 goes before r2, metas a sequence of [idx, asc].  Equal rows go
\* before each other.
sortRow(r1, r2, metas) ==
  LET Before(a, b) == IF IsNull(a) \/ IsNull(b) THEN IsNull(a) ELSE ItemLess(a, b)
      differ == {i \in DOMAIN metas : r1[metas[i].idx] # r2[metas[i].idx]}
      m == metas[Min(differ)]
  IN differ = {} \/ (m.asc <=> Before(r1[m.idx], r2[m.idx]))

\* std::sort on at most 16 rows is an insertion sort: a row that goes before
\* the first is put in front, else it moves left past the rows it goes before.
OrderOperator(rel, order) ==
  LET metas == SelectSeq([i \in DOMAIN order |-> [idx |-> findExpressionColumn(order[i].e, rel.sch),
                                                  asc |-> order[i].asc]],
                         LAMBDA m : m.idx # 0)
      Insert(rows, row) ==
        LET stop == Max({0} \cup {k \in DOMAIN rows : ~sortRow(row, rows[k], metas)})
            at == IF rows # <<>> /\ sortRow(row, rows[1], metas) THEN 0 ELSE stop
        IN SubSeq(rows, 1, at) \o <<row>> \o SubSeq(rows, at + 1, Len(rows))
  IN IF order = <<>> THEN rel ELSE Rel(rel.sch, FoldLeft(Insert, <<>>, rel.rows))

\* A SELECT without FROM: one row of constants.
SimpleSelect(exprs, st) ==
  LET items == [i \in DOMAIN exprs |-> IF IsRelation(exprs[i]) THEN Undefined
                                       ELSE calculate(exprs[i], <<>>, <<>>, {})]
  IN IF Bad \in ToSet(items) THEN Answer("FAILURE", NoRel, st)
     ELSE IF Undefined \in ToSet(items) THEN Answer("CRASH", NoRel, st)
     ELSE Answer("SUCCESS", Rel(exprs, <<items>>), st)

UsesJoin(s) == Len(s.joins) > 1 \/ \E i \in DOMAIN s.joins : Len(s.joins[i]) > 1

\* From the rows found to the rows of the answer, for a statement with
\* aggregates: inputs, groups, HAVING, order, projection.
AggregateFlow(s, aggregates, found, id, fa, db) ==
  Then(TransformerAndProject(found.rel, AddMissing(<<>>, [i \in DOMAIN aggregates |-> aggregates[i].sub]),
                             fa, id, "inputs", found.st), LAMBDA inputs :
  Then(AggregateOperator(inputs.rel, aggregates, s.group, inputs.st), LAMBDA grouped :
  Then(PredicateOperator1(grouped.rel, s.having, FALSE, fa, id, db, grouped.st), LAMBDA having :
    TransformerAndProject(OrderOperator(having.rel, s.order),
                          [i \in DOMAIN s.exprs |-> IF s.exprs[i].k = "FIE" THEN Identity(s.exprs[i])
                                                    ELSE s.exprs[i]],
                          fa, id, "select", having.st))))

\* The operator tree of a statement, from the scans to the projection.
evaluateQuery(s, id, fa, db, st) ==
  IF s.joins = <<>> THEN SimpleSelect(s.exprs, st)
  ELSE IF UsesJoin(s) /\ id \in st.ran THEN Answer("CRASH", NoRel, st)
  ELSE Then(JoinAll(s.joins, id, db,
                    [st EXCEPT !.ran = IF UsesJoin(s) THEN @ \cup {id} ELSE @]), LAMBDA joined :
       Then(PredicateOperator1(joined.rel, s.where, TRUE, fa, id, db, joined.st), LAMBDA found :
         IF containAggregateFunction(s)
         THEN AggregateFlow(s, collectAggregate(s), found, id, fa, db)
         ELSE TransformerAndProject(OrderOperator(found.rel, s.order), s.exprs, fa, id, "select",
                                    found.st)))
==============================================================================
