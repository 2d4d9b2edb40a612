----------------------------- MODULE Expressions -----------------------------
(***************************************************************************)
(* The expressions of a statement, and what they are worth on a row.       *)
(*                                                                         *)
(* A relation is [sch, rows]: the expressions that name its columns and    *)
(* its rows, sequences of items.  An expression that is itself a column    *)
(* of the relation takes its value from there (the code compares the       *)
(* strings toString returns; the model compares the expressions).          *)
(*                                                                         *)
(* SELECT uses calculate, over rows of items.  DELETE and UPDATE use       *)
(* get_value, over the bytes of the stored record: a stored field is       *)
(* [null, v], and v stays what the bytes hold when the null bit is set.    *)
(***************************************************************************)
EXTENDS Items

CONSTANT Schema  \* table name -> its fields, [name, t, len, nullable]

NoTable == ""    \* a field reference without a table name
Star == "*"

Fie(tab, attr) == [k |-> "FIE", tab |-> tab, attr |-> attr]
Const(i) == [k |-> "CONST", i |-> i]
Neg(e) == [k |-> "NEG", sub |-> e]
Bin(op, l, r) == [k |-> "BIN", op |-> op, l |-> l, r |-> r]
Func(f, e) == [k |-> "FUNC", f |-> f, sub |-> e]
Identity(e) == [k |-> "IDENTITY", sub |-> e]
List(items) == [k |-> "LIST", items |-> items]
SubQuery(id, q) == [k |-> "SUBQUERY", id |-> id, q |-> q]
NoExpr == [k |-> "NIL"]

IsRelation(e) == e.k \in {"LIST", "SUBQUERY"}
IsAggregate(e) == e.k = "IDENTITY" \/ (e.k = "FUNC" /\ e.f # "LENGTH")

FieldNumber(tab, attr) ==
  LET found == {i \in DOMAIN Schema[tab] : Schema[tab][i].name = attr}
  IN IF found = {} THEN 0 ELSE Min(found)

FieldOf(e) == Schema[e.tab][FieldNumber(e.tab, e.attr)]

\* The types of -e and of l op r, from those of their operands.
NegativeType(t) == IF t \in {"INTS", "FLOATS"} THEN t ELSE "UNDEFINED"

BinaryType(l, r, op) == IF ~({l, r} \subseteq {"INTS", "FLOATS"}) THEN "UNDEFINED"
                        ELSE IF "FLOATS" \in {l, r} \/ op = "DIV" THEN "FLOATS" ELSE "INTS"

RECURSIVE TypeOf(_)
TypeOf(e) ==
  CASE e.k = "FIE" -> FieldOf(e).t
    [] e.k = "CONST" -> e.i.t
    [] IsRelation(e) -> "RELATIONS"
    [] e.k = "NEG" -> NegativeType(TypeOf(e.sub))
    [] e.k = "BIN" -> BinaryType(TypeOf(e.l), TypeOf(e.r), e.op)
    [] e.k = "FUNC" /\ e.f \in {"COUNT", "LENGTH"} -> "INTS"
    [] e.k = "FUNC" /\ e.f = "AVG" -> "FLOATS"
    [] e.k = "FUNC" /\ e.f = "SUM" -> IF TypeOf(e.sub) = "CHARS" THEN "FLOATS"
                                      ELSE TypeOf(e.sub)
    [] OTHER -> TypeOf(e.sub)

RECURSIVE IsConst(_)
IsConst(e) ==
  CASE e.k = "FIE" -> FALSE
    [] e.k = "CONST" \/ IsRelation(e) -> TRUE
    [] e.k = "BIN" -> IsConst(e.l) /\ IsConst(e.r)
    [] e.k = "FUNC" /\ e.f \in {"AVG", "COUNT"} -> FALSE
    [] OTHER -> IsConst(e.sub)

RECURSIVE containAggregate(_)
containAggregate(e) ==
  \/ IsAggregate(e)
  \/ e.k = "BIN" /\ (containAggregate(e.l) \/ containAggregate(e.r))

RECURSIVE collectAllAggregate(_)
collectAllAggregate(e) ==
  CASE e.k = "FIE" -> <<Identity(e)>>
    [] IsAggregate(e) -> <<e>>
    [] e.k = "BIN" -> collectAllAggregate(e.l) \o collectAllAggregate(e.r)
    [] e.k = "NEG" -> collectAllAggregate(e.sub)
    [] OTHER -> <<>>

(***************************************************************************)
(* Values over a relation's rows.  Two items are no values: Bad, where     *)
(* calculate reports an error, and Undefined, where it succeeds and leaves *)
(* an expression without a type.                                           *)
(***************************************************************************)
Bad == [t |-> "ERROR", n |-> 0, s |-> <<>>]
Undefined == [t |-> "UNDEFINED", n |-> 0, s |-> <<>>]

\* What toString prints: an Identity prints as the field it stands for.
Printed(e) == IF e.k = "IDENTITY" THEN e.sub ELSE e

findExpressionColumn(e, sch) ==
  LET found == {i \in DOMAIN sch : Printed(sch[i]) = Printed(e)}
  IN IF found = {} THEN 0 ELSE Min(found)

RECURSIVE mapToRelation(_, _)
mapToRelation(e, sch) ==
  \/ e.k = "NIL" \/ e.k = "CONST" \/ IsRelation(e)
  \/ findExpressionColumn(e, sch) # 0
  \/ e.k = "BIN" /\ mapToRelation(e.l, sch) /\ mapToRelation(e.r, sch)
  \/ e.k \in {"NEG", "FUNC", "IDENTITY"} /\ mapToRelation(e.sub, sch)

\* The arithmetic of two items, neither of them NULL.
evaluate(l, r, op) ==
  LET a == AsFloat(l)
      b == AsFloat(r)
  IN IF ~({l.t, r.t} \subseteq {"INTS", "FLOATS"}) THEN Undefined
     ELSE IF op = "DIV" THEN IF b = 0 THEN Null ELSE Float((a * Scale) \div b)
     ELSE IF "FLOATS" \in {l.t, r.t}
     THEN Float(CASE op = "ADD" -> a + b
                  [] op = "SUB" -> a - b
                  [] op = "MUL" -> (a * b) \div Scale)
     ELSE Int_(CASE op = "ADD" -> l.n + r.n
                 [] op = "SUB" -> l.n - r.n
                 [] op = "MUL" -> l.n * r.n)

\* The values of the kinds of expressions, each from its column (0 for none)
\* or from the values of its operands.
BinaryValue(e, col, row, l, r) ==
  IF col # 0 THEN IF IsNull(row[col]) \/ TypeOf(e) = "INTS" THEN row[col] ELSE Bad
  ELSE IF Bad \in {l, r} THEN Bad
  ELSE IF Null \in {l, r} THEN Null ELSE evaluate(l, r, e.op)

NegativeValue(e, col, v) ==
  IF IsNull(v) \/ v = Bad THEN v
  ELSE IF TypeOf(e) = "UNDEFINED" THEN Bad
  ELSE IF col # 0 THEN v ELSE [v EXCEPT !.n = -v.n]

LengthValue(col, v) == IF col # 0 \/ IsNull(v) \/ v = Bad THEN v ELSE Int_(Len(v.s))

\* nul holds the aggregates that have read a NULL before: their null flag is
\* set then and never reset.
AggregateValue(e, col, row, nul) ==
  IF col = 0 THEN Bad ELSE IF e \in nul THEN Null ELSE row[col]

\* The value of e on a row.
RECURSIVE calculate(_, _, _, _)
calculate(e, sch, row, nul) ==
  LET In(col) ==
        LET Sub == IF col # 0 THEN row[col] ELSE calculate(e.sub, sch, row, nul)
        IN CASE e.k = "FIE" -> row[col]
             [] e.k = "CONST" -> e.i
             [] IsAggregate(e) -> AggregateValue(e, col, row, nul)
             [] e.k = "BIN" -> BinaryValue(e, col, row, calculate(e.l, sch, row, nul),
                                           calculate(e.r, sch, row, nul))
             [] e.k = "NEG" -> NegativeValue(e, col, Sub)
             [] e.k = "FUNC" /\ e.f = "LENGTH" -> LengthValue(col, Sub)
  IN In(findExpressionColumn(e, sch))

\* The aggregates of e that read a NULL on this row.
NullsRead(e, sch, row) ==
  {a \in ToSet(collectAllAggregate(e)) :
     /\ a.k = "IDENTITY" => e.k = "IDENTITY"
     /\ findExpressionColumn(a, sch) # 0
     /\ IsNull(row[findExpressionColumn(a, sch)])}

(***************************************************************************)
(* Aggregates: vals are the values of a group, in the order of its rows.   *)
(***************************************************************************)
Crash == [t |-> "CRASH", n |-> 0, s |-> <<>>]

ItemLess(a, b) == IF a.t = "CHARS" THEN strcmp(a.s, b.s) < 0 ELSE a.n < b.n

\* MAX and MIN: a NULL that follows a value is asked for its number, which
\* throws, and nothing catches the exception.
MaxOf(vals) ==
  LET Step(acc, v) == IF acc = Crash THEN acc
                      ELSE IF IsNull(acc) THEN v
                      ELSE IF IsNull(v) THEN Crash
                      ELSE IF ItemLess(acc, v) THEN v ELSE acc
  IN FoldLeft(Step, Null, vals)

MinOf(vals) ==
  LET Step(acc, v) == IF acc = Crash THEN acc
                      ELSE IF IsNull(acc) THEN v
                      ELSE IF IsNull(v) THEN Crash
                      ELSE IF ItemLess(v, acc) THEN v ELSE acc
  IN FoldLeft(Step, Null, vals)

NonNull(vals) == SelectSeq(vals, LAMBDA v : ~IsNull(v))

SumOfFloats(vals) == FoldLeft(LAMBDA acc, v : acc + AsFloat(v), 0, NonNull(vals))

AvgOf(vals) == IF NonNull(vals) = <<>> THEN Null
               ELSE Float(SumOfFloats(vals) \div Len(NonNull(vals)))

SumOf(type, vals) ==
  IF NonNull(vals) = <<>> THEN Null
  ELSE IF type = "INTS" THEN Int_(SumOfFloats(vals) \div Scale)
  ELSE Float(SumOfFloats(vals))

CountOf(vals) == Int_(Len(NonNull(vals)))

\* One aggregate over one group.
Aggregated(a, vals) ==
  LET type == TypeOf(a.sub)
  IN IF Bad \in ToSet(vals) THEN Bad
     ELSE CASE a.k = "IDENTITY" -> vals[1]
            [] a.k = "FUNC" /\ a.f = "MAX" -> MaxOf(vals)
            [] a.k = "FUNC" /\ a.f = "MIN" -> MinOf(vals)
            [] a.k = "FUNC" /\ a.f = "COUNT" -> CountOf(vals)
            [] a.k = "FUNC" /\ type = "DATES" -> Bad
            [] a.k = "FUNC" /\ a.f = "AVG" -> AvgOf(vals)
            [] a.k = "FUNC" /\ a.f = "SUM" -> SumOf(type, vals)

\* One aggregate over no rows at all: dealWithEmptyRelation.
AggregatedEmpty(a) ==
  IF a.k = "FUNC" /\ a.f = "COUNT" THEN Int_(0)
  ELSE IF a.k = "FUNC" /\ a.f = "SUM" /\ TypeOf(a.sub) = "DATES" THEN Bad ELSE Null

(***************************************************************************)
(* Cells over a stored record.                                             *)
(***************************************************************************)
NoCell == [null |-> FALSE, v |-> Undefined, len |-> -1]

FieldCell(e, tab, rec) ==
  IF e.tab # tab THEN NoCell
  ELSE LET f == rec[FieldNumber(tab, e.attr)]
       IN [null |-> f.null, v |-> f.v, len |-> FieldOf(e).len]

ConstCell(i) == Cell(i, Len(i.s))

\* What a number divided by zero is worth (0 / 0 is not met).
Infinity(sign) == Float(sign * 100000 * Scale)

\* The null flags of the operands are not looked at, nor is a divisor of zero.
BinaryCell(e, l, r) ==
  IF ~({TypeOf(e.l), TypeOf(e.r)} \subseteq {"INTS", "FLOATS"}) THEN NoCell
  ELSE [null |-> FALSE, len |-> 4,
        v |-> IF e.op = "DIV" /\ r.v.n = 0 THEN Infinity(Sign(l.v.n))
              ELSE evaluate(l.v, r.v, e.op)]

\* The number is stored again as it is: nothing negates it.
NegativeCell(e, c) == IF TypeOf(e) = "UNDEFINED" THEN NoCell ELSE [c EXCEPT !.len = 4]

RECURSIVE get_value(_, _, _)
get_value(e, tab, rec) ==
  CASE e.k = "FIE" -> FieldCell(e, tab, rec)
    [] e.k = "CONST" -> ConstCell(e.i)
    [] e.k = "BIN" -> BinaryCell(e, get_value(e.l, tab, rec), get_value(e.r, tab, rec))
    [] e.k = "NEG" -> NegativeCell(e, get_value(e.sub, tab, rec))
    [] OTHER -> NoCell
==============================================================================
