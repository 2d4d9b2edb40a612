------------------------------ MODULE SQLMeaning ------------------------------
(***************************************************************************)
(* What a SELECT means in SQL, for comparison with what the operators      *)
(* compute: every combination of rows, conditions in three-valued logic,   *)
(* groups and aggregates over the rows that remain.  Nothing here models   *)
(* code.  Queries are parsed SELECTs; names stand for the innermost table  *)
(* that has them.                                                          *)
(***************************************************************************)
EXTENDS SelectFlow

\* A scope is a sequence of [alias, tab, row]; env is the scopes, innermost first.
NamedBy(name, b) == name \in {b.alias, b.tab} \ {""}

\* The tables of a scope a field may stand for.
Found(e, scope) == {i \in DOMAIN scope : NamedBy(e.tab, scope[i]) \/ e.tab = NoTable}

FieldIn(b, attr) == b.row[FieldNumber(b.tab, attr)]

RECURSIVE Lookup(_, _)
Lookup(e, env) ==
  IF Found(e, Head(env)) = {} THEN Lookup(e, Tail(env))
  ELSE FieldIn(Head(env)[Min(Found(e, Head(env)))], e.attr)

\* The arithmetic of SQL: NULL if a side is.
SqlArithmetic(l, r, op) == IF Null \in {l, r} THEN Null ELSE evaluate(l, r, op)

SqlLength(v) == IF IsNull(v) THEN Null ELSE Int_(Len(v.s))

RECURSIVE SqlValue(_, _)
SqlValue(e, env) ==
  CASE e.k = "FIE" -> Lookup(e, env)
    [] e.k = "CONST" -> e.i
    [] e.k = "BIN" -> SqlArithmetic(SqlValue(e.l, env), SqlValue(e.r, env), e.op)
    [] e.k = "NEG" -> [SqlValue(e.sub, env) EXCEPT !.n = -@]
    [] e.k = "FUNC" -> SqlLength(SqlValue(e.sub, env))

Truth(b) == IF b THEN "TRUE" ELSE "FALSE"
And3(a, b) == IF "FALSE" \in {a, b} THEN "FALSE" ELSE IF a = "TRUE" THEN b ELSE a
Or3(a, b) == IF "TRUE" \in {a, b} THEN "TRUE" ELSE IF a = "FALSE" THEN b ELSE a
Not3(a) == CASE a = "TRUE" -> "FALSE" [] a = "FALSE" -> "TRUE" [] OTHER -> a

SqlCompare(a, b, op) ==
  CASE op = "IS" -> Truth(IsNull(a))
    [] op = "IS_NOT" -> Truth(~IsNull(a))
    [] OTHER -> IF Null \in {a, b} THEN "UNKNOWN"
                ELSE IF op = "LIKE" THEN Truth(Like(a.s, b.s))
                ELSE IF op = "NOT_LIKE" THEN Truth(~Like(a.s, b.s))
                ELSE Truth(itemComp(a, b, op))

\* An aggregate over values, none of them NULL.
AggregateOf(f, some, sum) ==
  CASE f = "COUNT" -> Int_(Len(some))
    [] f # "COUNT" /\ some = <<>> -> Null
    [] f = "SUM" /\ some # <<>> -> Int_(sum)
    [] f = "AVG" /\ some # <<>> -> Float((sum * Scale) \div Len(some))
    [] f = "MAX" /\ some # <<>> -> CHOOSE v \in ToSet(some) : \A w \in ToSet(some) : ~ItemLess(v, w)
    [] f = "MIN" /\ some # <<>> -> CHOOSE v \in ToSet(some) : \A w \in ToSet(some) : ~ItemLess(w, v)

SqlAggregate(f, vals) ==
  AggregateOf(f, SelectSeq(vals, LAMBDA v : ~IsNull(v)), FoldLeft(LAMBDA acc, v : acc + v.n, 0, vals))

\* An expression over a group, a sequence of environments.
RECURSIVE SqlGroupValue(_, _)
SqlGroupValue(e, group) ==
  CASE e.k = "FUNC" /\ e.f \in AggregateFunctions ->
         IF e.sub = Fie(NoTable, Star) THEN Int_(Len(group))
         ELSE SqlAggregate(e.f, [i \in DOMAIN group |-> SqlValue(e.sub, group[i])])
    [] e.k = "BIN" -> SqlArithmetic(SqlGroupValue(e.l, group), SqlGroupValue(e.r, group), e.op)
    [] e.k = "CONST" -> e.i
    [] OTHER -> SqlValue(e, group[1])

Bindings(q, db) ==
  LET links == FlattenSeq(q.joins)
      Times(scopes, link) ==
        LET rows == Scan(db, link.tab).rows
        IN FlattenSeq([i \in DOMAIN scopes |-> [j \in DOMAIN rows |->
             Append(scopes[i], [alias |-> link.alias, tab |-> link.tab, row |-> rows[j]])]])
  IN FoldLeft(Times, << <<>> >>, links)

IsAggregateQuery(q) ==
  q.group # <<>> \/ \E i \in DOMAIN q.exprs : containAggregate(q.exprs[i])

RECURSIVE SqlRows(_, _, _), SqlCondition(_, _, _, _)

\* The first values of rows.
FirstOf(rows) == [i \in DOMAIN rows |-> rows[i][1]]

\* The one value of a column, NULL for none.
OneOf(column) == IF column = <<>> THEN Null ELSE column[1]

Column(e, env, db) == IF e.k = "LIST" THEN e.items ELSE FirstOf(SqlRows(e.q, db, env))

\* A side of a comparison over a group of environments.
Side(e, group, env, db) ==
  IF IsRelation(e) THEN OneOf(Column(e, env, db)) ELSE SqlGroupValue(e, group)

AnyEqual(v, column) ==
  FoldLeft(LAMBDA acc, w : Or3(acc, SqlCompare(v, w, "EQUAL_TO")), "FALSE", column)

\* A condition over a group: one environment for ON and WHERE.
SqlCondition(c, group, env, db) ==
  CASE c.op = "EXISTS" -> Truth(Column(c.r, env, db) # <<>>)
    [] c.op = "NOT_EXISTS" -> Truth(Column(c.r, env, db) = <<>>)
    [] c.op = "IN" -> AnyEqual(Side(c.l, group, env, db), Column(c.r, env, db))
    [] c.op = "NOT_IN" -> Not3(AnyEqual(Side(c.l, group, env, db), Column(c.r, env, db)))
    [] OTHER -> SqlCompare(Side(c.l, group, env, db), Side(c.r, group, env, db), c.op)

RECURSIVE SqlTree(_, _, _, _)
SqlTree(nodes, k, env, db) ==
  CASE ~IsInner(nodes[k]) -> SqlCondition(nodes[k], <<env>>, env, db)
    [] nodes[k].op = "AND_OP" -> And3(SqlTree(nodes, nodes[k].lc, env, db),
                                      SqlTree(nodes, nodes[k].rc, env, db))
    [] nodes[k].op = "OR_OP" -> Or3(SqlTree(nodes, nodes[k].lc, env, db),
                                    SqlTree(nodes, nodes[k].rc, env, db))

OnsOf(q) == FlattenSeq([i \in DOMAIN q.joins |->
              FlattenSeq([j \in DOMAIN q.joins[i] |-> q.joins[i][j].on])])

\* Each scope in front of the outer ones.
Under(scopes, env) == [i \in DOMAIN scopes |-> <<scopes[i]>> \o env]

\* The environments FROM, ON and WHERE leave.
SqlFound(q, db, env) ==
  SelectSeq(Under(Bindings(q, db), env),
            LAMBDA e : /\ \A c \in ToSet(OnsOf(q)) : SqlCondition(c, <<e>>, e, db) = "TRUE"
                       /\ q.where = <<>> \/ SqlTree(q.where, Len(q.where), e, db) = "TRUE")

KeyIn(group, env) == [i \in DOMAIN group |-> SqlValue(group[i], env)]

\* The environments in groups of equal keys, one group without GROUP BY.
SqlGroups(group, found) ==
  IF group = <<>> THEN <<found>>
  ELSE FoldLeft(LAMBDA acc, e :
                  IF \E g \in DOMAIN acc : KeyIn(group, acc[g][1]) = KeyIn(group, e)
                  THEN [g \in DOMAIN acc |-> IF KeyIn(group, acc[g][1]) = KeyIn(group, e)
                                             THEN Append(acc[g], e) ELSE acc[g]]
                  ELSE Append(acc, <<e>>),
                <<>>, found)

Singles(found) == [i \in DOMAIN found |-> <<found[i]>>]

\* The row of a group; '*' stands alone.
SqlRow(exprs, group) ==
  IF exprs = <<Fie(NoTable, Star)>>
  THEN FlattenSeq([j \in DOMAIN group[1][1] |-> group[1][1][j].row])
  ELSE [i \in DOMAIN exprs |-> SqlGroupValue(exprs[i], group)]

RowsOf(exprs, groups) == [g \in DOMAIN groups |-> SqlRow(exprs, groups[g])]

SqlRows(q, db, env) ==
  IF q.joins = <<>> THEN <<SqlRow(q.exprs, <<env>>)>>
  ELSE IF ~IsAggregateQuery(q)
  THEN RowsOf(q.exprs, Singles(SqlFound(q, db, env)))
  ELSE RowsOf(q.exprs, SelectSeq(SqlGroups(q.group, SqlFound(q, db, env)),
                                 LAMBDA g : \A c \in ToSet(q.having) : SqlCondition(c, g, env, db) = "TRUE"))

\* How often a row occurs among the rows of an answer.
Times(row, rows) == Cardinality({i \in DOMAIN rows : rows[i] = row})

Within(rows, more) == \A row \in ToSet(rows) : Times(row, rows) <= Times(row, more)
==============================================================================
