------------------------------- MODULE MCQuery -------------------------------
(***************************************************************************)
(* Two small tables, t(id INT, v INT NULLABLE, s CHAR(4)) and              *)
(* u(id INT, v INT NULLABLE), and a workload that meets every operator.    *)
(***************************************************************************)
EXTENDS Query

MCSchema ==
  LET F(name, t, len, nullable) == [name |-> name, t |-> t, len |-> len, nullable |-> nullable]
  IN [t |-> <<F("id", "INTS", 4, FALSE), F("v", "INTS", 4, TRUE), F("s", "CHARS", 4, FALSE)>>,
      u |-> <<F("id", "INTS", 4, FALSE), F("v", "INTS", 4, TRUE)>>]

MCMaxRows == [t |-> 3, u |-> 2]
MCGarbage == {0, 2}

\* Constants and fields.
I(n) == Const(Int_(n))
ab == <<97, 98>>
b == <<98>>
a_ == <<97, 37>>                   \* the pattern 'a%'
F(attr) == Fie("", attr)
T(attr) == Fie("t", attr)
U(attr) == Fie("u", attr)
C(l, op, r) == [op |-> op, l |-> l, r |-> r]
Node(op, lc, rc) == [op |-> op, lc |-> lc, rc |-> rc]

\* FROM, and SELECTs built from it.
From(tab) == <<[tab |-> tab, alias |-> "", on |-> <<>>]>>
As(tab, alias) == <<[tab |-> tab, alias |-> alias, on |-> <<>>]>>
Q(exprs, joins, where) == [exprs |-> exprs, joins |-> joins, where |-> where,
                           group |-> <<>>, having |-> <<>>, order |-> <<>>]
GroupBy(q, group, having) == [q EXCEPT !.group = group, !.having = having]
OrderBy(q, order) == [q EXCEPT !.order = order]
Asc(e) == [e |-> e, asc |-> TRUE]
Desc(e) == [e |-> e, asc |-> FALSE]

all == Fie("", "*")
Sum(e) == Func("SUM", e)
CountAll == Func("COUNT", all)

Sel(q) == [kind |-> "SELECT", q |-> q]
Ins(tab, rows) == [kind |-> "INSERT", tab |-> tab, rows |-> rows]
Del(tab, where) == [kind |-> "DELETE", tab |-> tab, where |-> where]
Upd(tab, sets, where) == [kind |-> "UPDATE", tab |-> tab, sets |-> sets, where |-> where]
Set(attr, e) == [attr |-> attr, e |-> e]

Writes == <<
  Ins("t", << <<Int_(1), Null, Text(b)>> >>),
  Ins("t", << <<Int_(2), Int_(1), Text(ab)>> >>),
  Ins("t", << <<Int_(1), Float(100), Text(b)>>, <<Int_(1), Int_(1), Null>> >>),
  Ins("t", << <<Int_(1), Float(100), Text(b)>>, <<Int_(1), Date(7), Text(b)>> >>),
  Ins("u", << <<Int_(1), Int_(2)>>, <<Int_(2), Null>> >>),
  Del("t", <<C(F("v"), "GREAT_THAN", I(1))>>),
  Del("t", <<C(Bin("ADD", F("v"), I(1)), "EQUAL_TO", I(3)), C(F("s"), "NOT_LIKE", Const(Text(a_)))>>),
  Del("u", <<C(F("v"), "IS", Const(Null))>>),
  Del("u", <<[op |-> "EXISTS", l |-> NoExpr, r |-> SubQuery(1, Q(<<all>>, <<From("t")>>, <<>>))]>>),
  Upd("t", <<Set("v", Const(Null))>>, <<C(F("v"), "GREAT_THAN", I(1))>>),
  Upd("t", <<Set("v", SubQuery(1, Q(<<F("v")>>, <<From("u")>>, <<>>)))>>,
      <<C(F("v"), "GREAT_THAN", I(1))>>)
  >>

InU == SubQuery(1, Q(<<U("v")>>, <<From("u")>>, <<>>))

Reads == <<
  \* an AND below an OR, arithmetic, LIKE
  Sel(Q(<<all>>, <<From("t")>>,
        <<C(F("id"), "EQUAL_TO", I(2)), C(F("s"), "LIKE", Const(Text(a_))), Node("AND_OP", 1, 2),
          C(Bin("MUL", F("v"), I(2)), "NOT_EQUAL", I(2)), Node("OR_OP", 3, 4)>>)),
  \* products and joins
  Sel(Q(<<T("v"), U("id")>>, <<From("t"), From("u")>>, <<C(T("v"), "LESS_EQUAL", U("v"))>>)),
  Sel(Q(<<all>>, <<From("t") \o <<[tab |-> "u", alias |-> "", on |-> <<C(T("id"), "EQUAL_TO", U("id"))>>]>> >>,
        <<>>)),
  \* lists and subqueries
  Sel(Q(<<F("id"), Neg(F("v"))>>, <<From("t")>>,
        <<C(F("v"), "IN", List(<<Int_(2), Null>>))>>)),
  Sel(Q(<<F("id")>>, <<From("t")>>, <<C(F("v"), "IN", InU)>>)),
  Sel(Q(<<F("id")>>, <<From("t")>>, <<C(F("v"), "NOT_IN", InU)>>)),
  Sel(Q(<<F("id")>>, <<From("t")>>,
        <<C(NoExpr, "EXISTS", SubQuery(1, Q(<<all>>, <<From("u")>>, <<C(U("v"), "EQUAL_TO", T("v"))>>)))>>)),
  Sel(Q(<<F("id")>>, <<From("t")>>,
        <<C(F("id"), "LESS_THAN",
            SubQuery(1, Q(<<Sum(U("v"))>>, <<From("u")>>, <<C(U("id"), "EQUAL_TO", T("id"))>>)))>>)),
  Sel(Q(<<F("id")>>, <<From("t")>>,
        <<C(F("v"), "EQUAL_TO", SubQuery(1, Q(<<U("v")>>, <<From("u")>>, <<>>)))>>)),
  Sel(Q(<<F("id")>>, <<From("t")>>,
        <<C(NoExpr, "EXISTS", SubQuery(1, Q(<<U("v")>>, <<From("u"), From("t")>>, <<>>)))>>)),
  \* aliases, one used in the subquery; one that does not resolve
  Sel(Q(<<Fie("a", "id")>>, <<As("t", "a")>>,
        <<C(NoExpr, "NOT_EXISTS",
            SubQuery(1, Q(<<all>>, <<As("u", "b")>>, <<C(Fie("b", "v"), "EQUAL_TO", Fie("a", "v"))>>)))>>)),
  Sel(Q(<<F("nosuch")>>, <<As("u", "a")>>, <<>>)),
  \* aggregates
  Sel(Q(<<CountAll, Func("COUNT", F("v")), Func("AVG", F("v")), Sum(F("v"))>>, <<From("t")>>, <<>>)),
  Sel(Q(<<Func("MAX", F("v")), Func("MIN", F("s"))>>, <<From("t")>>, <<>>)),
  Sel(GroupBy(Q(<<F("v"), Bin("ADD", CountAll, Sum(F("id")))>>, <<From("t")>>, <<>>),
              <<F("v")>>, <<C(CountAll, "GREAT_EQUAL", I(1)), C(Sum(F("id")), "LESS_THAN", I(4))>>)),
  \* order
  Sel(OrderBy(Q(<<F("v"), F("id"), Func("LENGTH", F("s"))>>, <<From("t")>>, <<>>),
              <<Asc(F("v")), Desc(F("id"))>>)),
  Sel(OrderBy(GroupBy(Q(<<F("id"), Sum(F("v"))>>, <<From("t")>>, <<>>), <<F("id")>>, <<>>),
              <<Desc(Sum(F("v")))>>)),
  \* no FROM; no such table; HAVING without an aggregate
  Sel(Q(<<Bin("ADD", I(1), Const(Float(30)))>>, <<>>, <<>>)),
  Sel(Q(<<all>>, <<From("nosuch")>>, <<>>)),
  Sel(GroupBy(Q(<<all>>, <<From("t")>>, <<>>), <<>>, <<C(F("id"), "EQUAL_TO", I(1))>>))
  >>

\* The one-pass LIKE on every short text and pattern: it accepts no text the
\* pattern does not match, and where at most one character follows each '%' it
\* decides the match exactly (compare_like).
ASSUME LikeAgrees ==
  \A s \in SeqOf({97, 98}, 4), p \in SeqOf({97, 98, Percent, Underscore}, 3) :
    /\ compare_like(s, p) => Like(s, p)
    /\ OnePass(p) => compare_like(s, p) = Like(s, p)

MCWorkload == Writes \o Reads
==============================================================================
