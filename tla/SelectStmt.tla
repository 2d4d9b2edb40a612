------------------------------ MODULE SelectStmt ------------------------------
(***************************************************************************)
(* How a parsed SELECT becomes a statement: names are resolved, '*' is     *)
(* expanded, conditions become filter units.                               *)
(*                                                                         *)
(* A parsed SELECT is [joins, exprs, where, group, having, order]:         *)
(*   joins   the comma list of FROM, each a chain of INNER JOINs, a        *)
(*           sequence of [tab, alias, on] (alias "" for none, on a         *)
(*           sequence of conditions, empty for the first of the chain);    *)
(*   where   the nodes of the condition tree, children before parents: a   *)
(*           condition [op, l, r] or [op, lc, rc] with op AND_OP or OR_OP  *)
(*           and the places of its children;                               *)
(*   having  a sequence of conditions, order a sequence of [e, asc].       *)
(* A statement has the same shape; its expressions name their tables.      *)
(*                                                                         *)
(* One static map of the whole server, table to alias, carries the aliases *)
(* of a statement to the subqueries inside it: al here, a set of pairs.    *)
(* It is emptied when a statement is complete, a subquery too, and kept    *)
(* when one fails.                                                         *)
(***************************************************************************)
EXTENDS Expressions

IsInner(node) == node.op \in {"AND_OP", "OR_OP"}

\* A result: how it ended, what was built and the alias map.
Built(rc, x, al) == [rc |-> rc, x |-> x, al |-> al]

\* Goes on with a result that is a success.
Then(r, GoOn(_)) == IF r.rc = "SUCCESS" THEN GoOn(r) ELSE r

TablesOf(q) ==
  LET names == FoldLeft(LAMBDA acc, chain : acc \o [i \in DOMAIN chain |-> chain[i].tab],
                        <<>>, q.joins)
  IN FoldLeft(LAMBDA acc, t : IF t \in ToSet(acc) THEN acc ELSE Append(acc, t),
              <<>>, names)

AliasesOf(q) == {<<n.tab, n.alias>> : n \in {m \in UNION {ToSet(q.joins[i]) : i \in DOMAIN q.joins}
                                             : m.alias # ""}}

\* The tables a name is an alias of.
Aliased(name, al) == {p \in al : p[2] = name}

RECURSIVE revertTableName(_, _)
revertTableName(e, al) ==
  CASE e.k = "FIE" /\ e.tab # NoTable ->
         IF Cardinality(Aliased(e.tab, al)) > 1 THEN NoExpr
         ELSE IF Aliased(e.tab, al) = {} THEN e
         ELSE Fie((CHOOSE p \in Aliased(e.tab, al) : TRUE)[1], e.attr)
    [] e.k = "BIN" ->
         LET l == revertTableName(e.l, al)
             r == revertTableName(e.r, al)
         IN IF NoExpr \in {l, r} THEN NoExpr ELSE Bin(e.op, l, r)
    [] e.k \in {"NEG", "FUNC"} ->
         LET sub == revertTableName(e.sub, al)
         IN IF sub = NoExpr THEN NoExpr ELSE [e EXCEPT !.sub = sub]
    [] OTHER -> e

\* A condition tree with its names reverted; EXISTS has no left side.
RevertNode(node, al) ==
  IF IsInner(node) THEN node
  ELSE [op |-> node.op, r |-> revertTableName(node.r, al),
        l |-> IF node.l = NoExpr THEN NoExpr ELSE revertTableName(node.l, al)]

NodeLost(node, orig) ==
  ~IsInner(node) /\ (node.r = NoExpr \/ (node.l = NoExpr /\ orig.l # NoExpr))

\* The field references of an expression, '*' included.
RECURSIVE getExpressionLeafs(_)
getExpressionLeafs(e) ==
  CASE e.k = "FIE" -> {e}
    [] e.k = "BIN" -> getExpressionLeafs(e.l) \cup getExpressionLeafs(e.r)
    [] e.k \in {"NEG", "FUNC"} -> getExpressionLeafs(e.sub)
    [] OTHER -> {}

\* Two tables of the map share an alias.
AliasRepeated(al) == \E p, r \in al : p # r /\ p[2] = r[2]

\* The check of one field reference of the select list or of WHERE.
LeafCheck(leaf, tables, al) ==
  IF leaf.tab = NoTable
  THEN IF leaf.attr = Star THEN IF AliasRepeated(al) THEN "FAILURE" ELSE "SUCCESS"
       ELSE IF Len(tables) # 1 \/ FieldNumber(tables[1], leaf.attr) = 0
       THEN "FAILURE" ELSE "SUCCESS"
  ELSE IF leaf.tab \notin DOMAIN Schema THEN "CRASH"
  ELSE IF leaf.attr # Star /\ FieldNumber(leaf.tab, leaf.attr) = 0
  THEN "FAILURE" ELSE "SUCCESS"

expandStar(tab) == [i \in DOMAIN Schema[tab] |-> Fie(tab, Schema[tab][i].name)]

AggregateFunctions == {"MAX", "MIN", "SUM", "AVG", "COUNT"}

\* COUNT(*), or another function of '*'.
CountsAll(e) == e.sub.k = "FIE" /\ e.sub.attr = Star

RECURSIVE constructExpression(_, _, _), create(_, _), generateOperatorFlow(_)

\* Resolves an expression; dft is the table of a statement with one table.
\* Without one, a field with no table name makes a string from a null pointer.
constructExpression(e, dft, al) ==
  CASE e.k = "FIE" ->
         LET tab == IF e.tab = NoTable THEN dft ELSE e.tab
         IN IF tab = NoTable THEN Built("CRASH", e, al)
            ELSE IF tab \notin DOMAIN Schema \/ FieldNumber(tab, e.attr) = 0
            THEN Built("FAILURE", e, al) ELSE Built("SUCCESS", Fie(tab, e.attr), al)
    [] e.k = "BIN" ->
         Then(constructExpression(e.l, dft, al), LAMBDA l :
           Then(constructExpression(e.r, dft, l.al), LAMBDA r :
             Built("SUCCESS", Bin(e.op, l.x, r.x), r.al)))
    [] e.k = "NEG" ->
         Then(constructExpression(e.sub, dft, al), LAMBDA s : Built("SUCCESS", Neg(s.x), s.al))
    [] e.k = "FUNC" /\ CountsAll(e) ->
         IF e.f = "COUNT" THEN Built("SUCCESS", Func("COUNT", Const(Int_(1))), al)
         ELSE Built("FAILURE", e, al)
    [] e.k = "FUNC" /\ ~CountsAll(e) ->
         Then(constructExpression(e.sub, dft, al), LAMBDA s :
           IF e.f \in AggregateFunctions \/ (e.f = "LENGTH" /\ TypeOf(s.x) = "CHARS")
           THEN Built("SUCCESS", Func(e.f, s.x), s.al) ELSE Built("FAILURE", e, s.al))
    [] e.k = "SUBQUERY" ->
         Then(create(e.q, al), LAMBDA s :
           Built(generateOperatorFlow(s.x), SubQuery(e.id, s.x), s.al))
    [] OTHER -> Built("SUCCESS", e, al)

\* Applies a construction to each element of a sequence, until one fails.
BuildAll(Construct(_, _), seq, al) ==
  FoldLeft(LAMBDA acc, x :
             Then(acc, LAMBDA before :
               Then(Construct(x, before.al), LAMBDA b :
                 Built("SUCCESS", Append(before.x, b.x), b.al))),
           Built("SUCCESS", <<>>, al), seq)

create_filter_unit(c, dft, al) ==
  Then(IF c.op \in {"EXISTS", "NOT_EXISTS"} THEN Built("SUCCESS", NoExpr, al)
       ELSE constructExpression(c.l, dft, al), LAMBDA l :
    Then(constructExpression(c.r, dft, l.al), LAMBDA r :
      Built("SUCCESS", [op |-> c.op, l |-> l.x, r |-> r.x], r.al)))

\* The unit of node cur; the units of its subtrees go to the list before it,
\* and the children are where they were put.  x is [units, unit].
RECURSIVE create_filter_unit_tree(_, _, _, _, _)
create_filter_unit_tree(nodes, cur, dft, units, al) ==
  IF IsInner(nodes[cur])
  THEN Then(create_filter_unit_tree(nodes, nodes[cur].lc, dft, units, al), LAMBDA l :
         Then(create_filter_unit_tree(nodes, nodes[cur].rc, dft, Append(l.x.units, l.x.unit), l.al),
              LAMBDA r :
           Built("SUCCESS",
                 [units |-> Append(r.x.units, r.x.unit),
                  unit |-> [op |-> nodes[cur].op, lc |-> Len(l.x.units) + 1,
                            rc |-> Len(r.x.units) + 1]],
                 r.al)))
  ELSE Then(create_filter_unit(nodes[cur], dft, al), LAMBDA u :
         Built("SUCCESS", [units |-> units, unit |-> u.x], u.al))

create_tree(nodes, dft, al) ==
  IF nodes = <<>> THEN Built("SUCCESS", <<>>, al)
  ELSE Then(create_filter_unit_tree(nodes, Len(nodes), dft, <<>>, al), LAMBDA t :
         Built("SUCCESS", Append(t.x.units, t.x.unit), t.al))

\* One chain of joins: the conditions of the last join are built first.
creatInnerJoin(chain, dft, al) ==
  Then(BuildAll(LAMBDA n, a : BuildAll(LAMBDA c, b : create_filter_unit(c, dft, b), n.on, a),
                Reverse(chain), al), LAMBDA on :
    Built("SUCCESS", [i \in DOMAIN chain |-> [tab |-> chain[i].tab, alias |-> "",
                                              on |-> Reverse(on.x)[i]]], on.al))

\* The table of name.*: one of those the name is an alias of, if it still is.
StarTable(name, al) ==
  IF Aliased(name, al) = {} THEN name ELSE (CHOOSE p \in Aliased(name, al) : TRUE)[1]

\* One element of the select list, to a sequence of expressions.
SelectExpr(e, tables, dft, al, al1) ==
  IF e.k = "FIE" /\ e.attr = Star
  THEN IF e.tab = NoTable THEN Built("SUCCESS", FlattenSeq([i \in DOMAIN tables |-> expandStar(tables[i])]), al)
       ELSE IF Cardinality(Aliased(e.tab, al1)) = 1 THEN Built("FAILURE", <<>>, al)
       ELSE IF StarTable(e.tab, al1) \notin ToSet(tables) THEN Built("CRASH", <<>>, al)
       ELSE Built("SUCCESS", expandStar(StarTable(e.tab, al1)), al)
  ELSE Then(constructExpression(e, dft, al), LAMBDA c : Built("SUCCESS", <<c.x>>, c.al))

\* The SELECT with the aliases in its names replaced, NoExpr where two tables
\* share one.  ON and HAVING keep their names.
Reverted(q, al) ==
  [q EXCEPT !.exprs = [i \in DOMAIN q.exprs |-> revertTableName(q.exprs[i], al)],
            !.where = [i \in DOMAIN q.where |-> RevertNode(q.where[i], al)],
            !.group = [i \in DOMAIN q.group |-> revertTableName(q.group[i], al)],
            !.order = [i \in DOMAIN q.order |-> [q.order[i] EXCEPT !.e = revertTableName(@, al)]]]

AllReverted(r, q) ==
  /\ NoExpr \notin ToSet(r.exprs) \cup ToSet(r.group) \cup {o.e : o \in ToSet(r.order)}
  /\ \A i \in DOMAIN r.where : ~NodeLost(r.where[i], q.where[i])

\* The field references create checks: '*' only as an element of the select list.
CheckedLeaves(r) ==
  LET inExprs == UNION {getExpressionLeafs(e) : e \in ToSet(r.exprs)}
      inWhere == UNION {getExpressionLeafs(n.l) \cup getExpressionLeafs(n.r)
                        : n \in {m \in ToSet(r.where) : ~IsInner(m)}}
  IN {f \in inExprs : f.attr = Star => f \in ToSet(r.exprs)} \cup {f \in inWhere : f.attr # Star}

\* The parts of the statement in the order the code builds them.
BuildParts(r, tables, dft, al) ==
  Then(BuildAll(LAMBDA e, a : SelectExpr(e, tables, dft, a, al), r.exprs, al), LAMBDA es :
  Then(BuildAll(LAMBDA c, a : creatInnerJoin(c, dft, a), Reverse(r.joins), es.al), LAMBDA js :
  Then(BuildAll(LAMBDA e, a : constructExpression(e, dft, a), r.group, js.al), LAMBDA gs :
  Then(BuildAll(LAMBDA o, a : constructExpression(o.e, dft, a), r.order, gs.al), LAMBDA os :
  Then(create_tree(r.where, dft, os.al), LAMBDA ws :
  Then(BuildAll(LAMBDA c, a : create_filter_unit(c, dft, a), r.having, ws.al), LAMBDA hs :
    Built("SUCCESS",
          [joins |-> js.x, exprs |-> FlattenSeq(es.x), where |-> ws.x, group |-> gs.x,
           having |-> hs.x,
           order |-> [i \in DOMAIN os.x |-> [e |-> os.x[i], asc |-> r.order[i].asc]]],
          {})))))))

\* With the names reverted: the checks, then the construction.
CreateReverted(r, q, tables, al) ==
  LET failed == {LeafCheck(f, tables, al) : f \in CheckedLeaves(r)} \ {"SUCCESS"}
  IN IF ~AllReverted(r, q) THEN Built("FAILURE", q, al)
     ELSE IF failed # {} THEN Built(CHOOSE c \in failed : TRUE, q, al)
     ELSE BuildParts(r, tables, IF Len(tables) = 1 THEN tables[1] ELSE NoTable, al)

\* The aliases of q join the map, in place of older ones of the same tables.
AddAliases(own, al) == {p \in al : \A r \in own : r[1] # p[1]} \cup own

create(q, al) ==
  LET Go(tables, al1) == CreateReverted(Reverted(q, al1), q, tables, al1)
  IN IF ~(ToSet(TablesOf(q)) \subseteq DOMAIN Schema) THEN Built("FAILURE", q, al)
     ELSE Go(TablesOf(q), AddAliases(AliasesOf(q), al))

(***************************************************************************)
(* The plan: which aggregates the statement needs.                         *)
(***************************************************************************)
containExpression(list, e) == findExpressionColumn(e, list) # 0

containAggregateFunction(s) ==
  s.group # <<>> \/ \E i \in DOMAIN s.exprs : containAggregate(s.exprs[i])

AddMissing(list, more) ==
  FoldLeft(LAMBDA acc, e : IF containExpression(acc, e) THEN acc ELSE Append(acc, e),
           list, more)

\* A side of a HAVING condition is a constant, an aggregate or a group column.
HavingSide(s, e) == IsConst(e) \/ IsAggregate(e) \/ containExpression(s.group, e)

\* The aggregates of a statement, in the order they are evaluated.
collectAggregate(s) ==
  LET ofExprs == AddMissing(<<>>, FlattenSeq([i \in DOMAIN s.exprs |->
                                                collectAllAggregate(s.exprs[i])]))
      ofGroup == AddMissing(ofExprs, [i \in DOMAIN s.group |-> Identity(s.group[i])])
      sides == FlattenSeq([i \in DOMAIN s.having |-> <<s.having[i].l, s.having[i].r>>])
      ofHaving == AddMissing(ofGroup, SelectSeq(sides, LAMBDA e : ~IsConst(e)))
  IN AddMissing(ofHaving, FlattenSeq([i \in DOMAIN s.order |->
                                        collectAllAggregate(s.order[i].e)]))

\* Whether a plan exists.
generateOperatorFlow(s) ==
  IF s.joins = <<>> THEN "SUCCESS"
  ELSE IF ~containAggregateFunction(s)
  THEN IF s.having # <<>> THEN "FAILURE" ELSE "SUCCESS"
  ELSE IF /\ \A i \in DOMAIN s.exprs :
               s.exprs[i].k = "FIE" => containExpression(s.group, s.exprs[i])
          /\ \A i \in DOMAIN s.having :
               HavingSide(s, s.having[i].l) /\ HavingSide(s, s.having[i].r)
       THEN "SUCCESS" ELSE "FAILURE"
==============================================================================
