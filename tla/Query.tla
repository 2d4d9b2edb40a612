-------------------------------- MODULE Query --------------------------------
(***************************************************************************)
(* The statements INSERT, DELETE, UPDATE and SELECT over the stored rows   *)
(* of some tables without indexes, one statement of one session at a time. *)
(* The log commits with each statement that succeeds; what a failed one    *)
(* has changed stays, uncommitted, and is committed with the next, whose   *)
(* records have the same transaction id.                                   *)
(*                                                                         *)
(* A table is a sequence of slots, each a record or NoRow; a record is a   *)
(* sequence of fields [null, v].  The bytes of a field stored as NULL are  *)
(* what the memory held (Garbage): make_record leaves them alone.          *)
(*                                                                         *)
(* A statement is a record of its kind:                                    *)
(*   INSERT [tab, rows], the rows sequences of items;                      *)
(*   DELETE [tab, where], the conditions joined by AND;                    *)
(*   UPDATE [tab, sets, where], sets a sequence of [attr, e] with e a      *)
(*          constant or a subquery;                                        *)
(*   SELECT [q], a parsed SELECT.                                          *)
(***************************************************************************)
EXTENDS SQLMeaning

CONSTANTS Workload,  \* the statements clients send, a sequence
          MaxRows,   \* table -> bound on the rows a table holds
          Garbage    \* the numbers uninitialised bytes may show

VARIABLES db,       \* table -> its slots
          saved,    \* the slots as of the last commit record
          aliases,  \* the static alias map, pairs <<table, alias>>
          last,     \* the answer on its way: [n, rc, rows], or NoAnswer
          up        \* the server runs

vars == <<db, saved, aliases, last, up>>

NoAnswer == [n |-> 0, rc |-> "NONE", rows |-> <<>>]

Init == /\ db = [t \in DOMAIN Schema |-> [k \in 1..MaxRows[t] |-> NoRow]]
        /\ saved = db
        /\ aliases = {}
        /\ last = NoAnswer
        /\ up = TRUE

Idle(n, kind) == up /\ last = NoAnswer /\ Workload[n].kind = kind

Respond(n, rc, rows) == /\ last' = [n |-> n, rc |-> rc, rows |-> rows]
                        /\ up' = (rc # "CRASH")

\* A statement that changes data ends, the tables being `new`: the record that
\* commits it is written when it succeeded.
Finish(n, rc, new) == /\ Respond(n, rc, <<>>)
                      /\ db' = new
                      /\ saved' = IF rc = "SUCCESS" THEN new ELSE saved

(***************************************************************************)
(* INSERT.                                                                 *)
(***************************************************************************)
\* A value on its way to a field; where there is no conversion it stays.
Converted(v, field) ==
  IF v.t = field.t \/ type_cast(v, field).t = "MISMATCH" THEN v ELSE type_cast(v, field)

\* Every row has a value for each field and no NULL for a NOT NULL one.
InsertAccepted(tab, rows) ==
  \A k \in DOMAIN rows :
    /\ Len(rows[k]) = Len(Schema[tab])
    /\ \A i \in DOMAIN rows[k] : IsNull(rows[k][i]) => Schema[tab][i].nullable

\* Mutant: the types of the values are not compared with the fields.
MakesRecordOfAnyType(tab, vals) ==
  \A i \in DOMAIN vals : IsNull(vals[i]) => Schema[tab][i].nullable

\* A value of another type than its field, or NULL in a NOT NULL one, fails.
MakesRecord(tab, vals) ==
  \A i \in DOMAIN vals : IF IsNull(vals[i]) THEN Schema[tab][i].nullable
                         ELSE vals[i].t = Schema[tab][i].t

make_record(tab, vals, garbage) ==
  [i \in DOMAIN vals |->
    [null |-> IsNull(vals[i]),
     v |-> IF IsNull(vals[i]) THEN [t |-> Schema[tab][i].t, n |-> garbage, s |-> <<>>] ELSE vals[i]]]

Stored(slots) == {k \in DOMAIN slots : slots[k] # NoRow}

FreeSlot(slots) == Min({k \in DOMAIN slots : slots[k] = NoRow})

\* The rows of one statement, one after the other: those before a row that
\* cannot be stored stay.
insert_record(slots, tab, rows, garbage) ==
  FoldLeft(LAMBDA acc, vals :
             IF acc.rc # "SUCCESS" THEN acc
             ELSE IF ~MakesRecord(tab, vals) THEN [acc EXCEPT !.rc = "FAILURE"]
             ELSE [acc EXCEPT !.slots[FreeSlot(acc.slots)] = make_record(tab, vals, garbage)],
           [rc |-> "SUCCESS", slots |-> slots], rows)

Insert(n) ==
  LET s == Workload[n]
      vals == [k \in DOMAIN s.rows |-> [i \in DOMAIN s.rows[k] |->
                                         Converted(s.rows[k][i], Schema[s.tab][i])]]
  IN /\ Idle(n, "INSERT")
     /\ Cardinality({k \in DOMAIN db[s.tab] : db[s.tab][k] = NoRow}) >= Len(s.rows)
     /\ IF ~InsertAccepted(s.tab, s.rows) THEN Finish(n, "FAILURE", db)
        ELSE \E g \in Garbage :
               LET done == insert_record(db[s.tab], s.tab, vals, g)
               IN Finish(n, done.rc, [db EXCEPT ![s.tab] = done.slots])
     /\ UNCHANGED aliases

(***************************************************************************)
(* DELETE and UPDATE: a scan filtered by the old predicate operator.       *)
(***************************************************************************)
\* Mutant: NOT LIKE is not turned into not equal.
DecidedNoNotLike(c, op) ==
  [rc |-> IF c.ok THEN "SUCCESS" ELSE "FAILURE",
   b |-> c.ok /\ Holds(c.c, IF op \in {"LIKE", "IS", "IS_NOT", "IN", "NOT_IN"} THEN "EQUAL_TO" ELSE op)]

\* What a comparison's result c decides about its operator.
Decided(c, op) ==
  [rc |-> IF c.ok THEN "SUCCESS" ELSE "FAILURE",
   b |-> c.ok /\ Holds(c.c, IF op \in {"LIKE", "IS", "IS_NOT", "IN", "NOT_IN"} THEN "EQUAL_TO"
                            ELSE IF op = "NOT_LIKE" THEN "NOT_EQUAL" ELSE op)]

\* The conditions on one record, in order, until one is false.  What
\* get_value returns is not looked at; EXISTS has no left side to ask.
do_predicate(units, tab, rec) ==
  FoldLeft(LAMBDA acc, u :
             IF acc.rc # "SUCCESS" \/ ~acc.b THEN acc
             ELSE IF u.l = NoExpr THEN [rc |-> "CRASH", b |-> FALSE]
             ELSE Decided(compare_all(get_value(u.l, tab, rec), get_value(u.r, tab, rec), u.op), u.op),
           [rc |-> "SUCCESS", b |-> TRUE], units)

\* Makes the change (slot -> [rc, rec]) of the records the predicate accepts, in
\* slot order.  An error of the predicate ends the scan and is taken for its
\* end; an error of a change ends the statement.
ScanAndChange(slots, tab, units, change) ==
  LET Changed(acc, k, c) ==
        IF c.rc = "SUCCESS" THEN [acc EXCEPT !.slots[k] = c.rec]
        ELSE [acc EXCEPT !.ended = TRUE, !.rc = c.rc]
      Visit(acc, k, p) ==
        CASE p.rc = "FAILURE" -> [acc EXCEPT !.ended = TRUE]
          [] p.rc = "CRASH" -> [acc EXCEPT !.ended = TRUE, !.rc = "CRASH"]
          [] OTHER -> IF p.b THEN Changed(acc, k, change[k]) ELSE acc
  IN FoldLeft(LAMBDA acc, k : IF acc.ended \/ k \notin Stored(slots) THEN acc
                              ELSE Visit(acc, k, do_predicate(units, tab, slots[k])),
              [rc |-> "SUCCESS", slots |-> slots, ended |-> FALSE],
              [k \in DOMAIN slots |-> k])

\* The end of a DELETE or UPDATE whose scan is done.
FinishScan(n, done) == Finish(n, done.rc, [db EXCEPT ![Workload[n].tab] = done.slots])

CreateFilter(where, tab, al) ==
  BuildAll(LAMBDA c, a : create_filter_unit(c, tab, a), where, al)

Delete(n) ==
  /\ Idle(n, "DELETE")
  /\ \E filter \in {CreateFilter(Workload[n].where, Workload[n].tab, aliases)} :
       /\ aliases' = filter.al
       /\ IF filter.rc # "SUCCESS" THEN Finish(n, filter.rc, db)
          ELSE FinishScan(n, ScanAndChange(db[Workload[n].tab], Workload[n].tab, filter.x,
                                           [k \in Stored(db[Workload[n].tab]) |->
                                              [rc |-> "SUCCESS", rec |-> NoRow]]))

Relation(rc, rel, al) == Built(rc, IF rc = "SUCCESS" THEN rel ELSE NoRel, al)

\* The relation of a statement created by s: it is planned and evaluated.
Executed(s, id) ==
  IF s.rc # "SUCCESS" THEN Relation(s.rc, NoRel, s.al)
  ELSE IF generateOperatorFlow(s.x) # "SUCCESS" THEN Relation("FAILURE", NoRel, s.al)
  ELSE LET Of(a) == Relation(a.rc, a.rel, s.al)
       IN Of(evaluateQuery(s.x, id, NoFather, db, Fresh))

\* The value of one assignment, a subquery evaluated once.
UpdateValue(e, al) ==
  IF e.k = "CONST" THEN Built("SUCCESS", e.i, al)
  ELSE Then(Executed(create(e.q, al), e.id), LAMBDA a :
         Built(IF relation2item(a.x) = Bad THEN "FAILURE" ELSE "SUCCESS",
               relation2item(a.x), a.al))

\* One field k set to val, converted to v.
SetField(acc, k, f, val, v) ==
  IF IsNull(val) THEN IF f.nullable THEN [acc EXCEPT !.rec[k].null = TRUE]
                      ELSE [acc EXCEPT !.rc = "FAILURE"]
  ELSE IF v.t = "MISMATCH" THEN [acc EXCEPT !.rc = "FAILURE"]
  ELSE [acc EXCEPT !.rec[k] = [null |-> FALSE, v |-> v]]

\* The record with its fields set, or the failure of one of them.
Assigned(tab, sets, vals, rec) ==
  LET Assign(acc, k, val) ==
        IF k = 0 THEN [acc EXCEPT !.rc = "FAILURE"]
        ELSE SetField(acc, k, Schema[tab][k], val,
                      IF val.t = Schema[tab][k].t THEN val ELSE type_cast(val, Schema[tab][k]))
  IN FoldLeft(LAMBDA acc, i : IF acc.rc # "SUCCESS" THEN acc
                              ELSE Assign(acc, FieldNumber(tab, sets[i].attr), vals[i]),
              [rc |-> "SUCCESS", rec |-> rec], [i \in DOMAIN sets |-> i])

\* The values of an UPDATE, after its filter.
UpdateValues(s, filter) ==
  Then(filter, LAMBDA f : BuildAll(LAMBDA set, a : UpdateValue(set.e, a), s.sets, f.al))

Update(n) ==
  /\ Idle(n, "UPDATE")
  /\ \E filter \in {CreateFilter(Workload[n].where, Workload[n].tab, aliases)} :
     \E values \in {UpdateValues(Workload[n], filter)} :
       /\ aliases' = values.al
       /\ IF values.rc # "SUCCESS" THEN Finish(n, values.rc, db)
          ELSE FinishScan(n, ScanAndChange(db[Workload[n].tab], Workload[n].tab, filter.x,
                                           [k \in Stored(db[Workload[n].tab]) |->
                                              Assigned(Workload[n].tab, Workload[n].sets, values.x,
                                                       db[Workload[n].tab][k])]))

(***************************************************************************)
(* SELECT.                                                                 *)
(***************************************************************************)
Select(n) ==
  /\ Idle(n, "SELECT")
  /\ \E a \in {Executed(create(Workload[n].q, aliases), 0)} :
       Respond(n, a.rc, a.x.rows) /\ aliases' = a.al
  /\ UNCHANGED <<db, saved>>

\* The answer goes to the client.
Reply == /\ up
         /\ last # NoAnswer
         /\ last' = NoAnswer
         /\ UNCHANGED <<db, saved, aliases, up>>

\* A server that died is started again; redo brings back what was committed
\* (no page of these small tables was evicted and so written before).
Restart == /\ ~up
           /\ up' = TRUE
           /\ aliases' = {}
           /\ last' = NoAnswer
           /\ db' = saved
           /\ UNCHANGED saved

Next == \/ \E n \in DOMAIN Workload : Insert(n) \/ Delete(n) \/ Update(n) \/ Select(n)
        \/ Reply
        \/ Restart

Spec == Init /\ [][Next]_vars

(***************************************************************************)
(* Properties.                                                             *)
(***************************************************************************)
\* A stored record has a value of each field's type, and no NULL in a NOT NULL
\* field, whatever was converted, assigned from a subquery or half done
\* (insert_stmt.cpp, make_record, update_operator.cpp).
StoredTyped ==
  \A t \in DOMAIN db : \A k \in DOMAIN db[t] :
    LET rec == db[t][k]
    IN rec # NoRow => /\ DOMAIN rec = DOMAIN Schema[t]
                      /\ \A i \in DOMAIN rec : /\ rec[i].v.t = Schema[t][i].t
                                               /\ rec[i].null => Schema[t][i].nullable

Answered(kind) == last # NoAnswer /\ last.rc = "SUCCESS" /\ Workload[last.n].kind = kind

NullFree == \A t \in DOMAIN db : \A k \in DOMAIN db[t] :
              db[t][k] # NoRow => \A i \in DOMAIN db[t][k] : ~db[t][k][i].null

\* The subqueries of the conditions of q, theirs too.
RECURSIVE Subqueries(_)
Subqueries(q) ==
  LET leaves == {n \in ToSet(q.where) : ~IsInner(n)}
      here == {e.q : e \in {f \in {n.l : n \in leaves} \cup {n.r : n \in leaves} : f.k = "SUBQUERY"}}
  IN here \cup UNION {Subqueries(s) : s \in here}

\* A condition of q reads a table of an outer query.
Correlated(q) ==
  LET leaves == {n \in ToSet(q.where) : ~IsInner(n)}
      fields == UNION {getExpressionLeafs(n.l) \cup getExpressionLeafs(n.r) : n \in leaves}
      links == UNION {ToSet(q.joins[i]) : i \in DOMAIN q.joins}
  IN \E f \in fields : f.tab # NoTable /\ \A b \in links : ~NamedBy(f.tab, b)

\* The answer of a SELECT holds no row that SQL would not give, and every row
\* it would, through aliases, joins, the AND/OR tree, NULLs, and subqueries
\* evaluated again for every row (generateOperatorFlow, compare).  Two things
\* may lose rows: an aggregate of a correlated subquery, whose null flag stays
\* set, and a NULL in the column of a subquery.  COUNT, SUM, AVG, MAX and MIN
\* are those of SQL over NULLs and empty tables too; with GROUP BY and HAVING
\* only as long as no NULL is stored and there is a row (AggregateFunction.cpp).
SelectIsSQL ==
  LET RowsExact(q) == \A s \in Subqueries(q) : NullFree /\ ~(IsAggregateQuery(s) /\ Correlated(s))
      GroupsExact(q) == \/ q.group = <<>>
                        \/ NullFree /\ SqlRows([q EXCEPT !.having = <<>>], db, <<>>) # <<>>
      Agrees(q, sql) == IF IsAggregateQuery(q)
                        THEN GroupsExact(q) => Within(last.rows, sql) /\ Within(sql, last.rows)
                        ELSE Within(last.rows, sql) /\ (RowsExact(q) => Within(sql, last.rows))
  IN Answered("SELECT") => Agrees(Workload[last.n].q, SqlRows(Workload[last.n].q, db, <<>>))

\* The rows of an ORDER BY come out in order, NULL first when ascending, though
\* the comparison std::sort is given holds both ways for equal rows
\* (OrderOperator.cpp).
OrderIsSort ==
  Answered("SELECT") =>
    LET q == Workload[last.n].q
        At(o) == CHOOSE i \in DOMAIN q.exprs : q.exprs[i] = o.e
        Before(a, b) == IF IsNull(a) \/ IsNull(b) THEN IsNull(a) /\ ~IsNull(b) ELSE ItemLess(a, b)
        Misplaced(r1, r2) ==
          \E i \in DOMAIN q.order :
            LET c == At(q.order[i])
            IN /\ IF q.order[i].asc THEN Before(r2[c], r1[c]) ELSE Before(r1[c], r2[c])
               /\ \A j \in 1..(i - 1) : r1[At(q.order[j])] = r2[At(q.order[j])]
    IN \A i, j \in DOMAIN last.rows : i < j => ~Misplaced(last.rows[i], last.rows[j])

Finishes(kind, rcs) == /\ last = NoAnswer /\ last' # NoAnswer
                       /\ Workload[last'.n].kind = kind /\ last'.rc \in rcs

\* What the conditions of a DELETE or UPDATE are in SQL on one record.
SqlWhere(s, rec) ==
  LET In(env) == FoldLeft(LAMBDA acc, c : And3(acc, SqlCondition(c, <<env>>, env, db)),
                          "TRUE", s.where)
  IN In(<< <<[alias |-> "", tab |-> s.tab, row |-> tupleToRow(rec)]>> >>)

\* No condition of the statement compares a list, a subquery or a negated value.
PlainWhere(s) == \A i \in DOMAIN s.where :
                   {s.where[i].l.k, s.where[i].r.k} \subseteq {"FIE", "CONST", "BIN"}

\* A DELETE or UPDATE reaches every record its WHERE is true of, and no record
\* without NULLs that it is not true of: the byte comparisons of the old
\* predicate operator agree with SQL there (do_predicate, compare_all).
WhereDecides ==
  [][\A kind \in {"DELETE", "UPDATE"} : Finishes(kind, {"SUCCESS"}) =>
       LET s == Workload[last'.n]
           Reached(new) ==
             IF kind = "DELETE" THEN new = NoRow
             ELSE \A i \in DOMAIN s.sets :
                    LET k == FieldNumber(s.tab, s.sets[i].attr)
                    IN (s.sets[i].e.k = "CONST" /\ s.sets[i].e.i.t \in {Schema[s.tab][k].t, "NULLS"})
                         => tupleToRow(new)[k] = s.sets[i].e.i
       IN PlainWhere(s) =>
            \A k \in DOMAIN db[s.tab] :
              LET rec == db[s.tab][k]
              IN rec # NoRow =>
                   /\ SqlWhere(s, rec) = "TRUE" => Reached(db'[s.tab][k])
                   /\ SqlWhere(s, rec) # "TRUE" /\ Null \notin ToSet(tupleToRow(rec))
                        => db'[s.tab][k] = rec]_vars

\* A DELETE removes only records its WHERE is true of: BaseExpression.cpp says
\* of a comparison with NULL that its result is false.
DeleteExact ==
  [][Finishes("DELETE", {"SUCCESS"}) =>
       LET s == Workload[last'.n]
       IN \A k \in DOMAIN db[s.tab] :
            db'[s.tab][k] # db[s.tab][k] => SqlWhere(s, db[s.tab][k]) = "TRUE"]_vars

\* An INSERT of several rows that fails stores none of them: miniob_topics.md
\* asks of the rows of one INSERT that they succeed or fail together, and
\* Table::insert_record stops at the row that fails.
InsertAllOrNothing == [][Finishes("INSERT", {"FAILURE"}) => db' = db]_vars
==============================================================================
