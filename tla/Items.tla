-------------------------------- MODULE Items --------------------------------
(***************************************************************************)
(* The values of the SQL layer and the comparisons over them, as pure      *)
(* operators.  A value is an item [t, n, s]: its type, its number and its  *)
(* text.  A FLOATS number counts sixtieths, so that tenths and the halves  *)
(* and thirds of whole numbers are exact; two of them are equal or         *)
(* farther apart than the code's epsilon of 1E-6.  A text is the sequence  *)
(* of its character codes.                                                 *)
(*                                                                         *)
(* The code compares in two ways.  SELECT compares items (itemComp,        *)
(* inComp); DELETE and UPDATE compare the bytes of the record              *)
(* (compare_all).                                                          *)
(***************************************************************************)
EXTENDS Integers, Sequences, SequencesExt, FiniteSetsExt

Scale == 60

Int_(n) == [t |-> "INTS", n |-> n, s |-> <<>>]
Date(n) == [t |-> "DATES", n |-> n, s |-> <<>>]
Float(n) == [t |-> "FLOATS", n |-> n, s |-> <<>>]
Text(s) == [t |-> "CHARS", n |-> 0, s |-> s]
Null == [t |-> "NULLS", n |-> 0, s |-> <<>>]

IsNull(i) == i.t = "NULLS"

(***************************************************************************)
(* Text.                                                                   *)
(***************************************************************************)
Percent == 37
Underscore == 95
Dot == 46
Digits == 48..57

\* The character at the 0-based position k; the terminating zero after the end.
CharAt(s, k) == IF k < Len(s) THEN s[k + 1] ELSE 0

Sign(n) == IF n > 0 THEN 1 ELSE IF n < 0 THEN -1 ELSE 0

strcmp(a, b) ==
  LET differ == {k \in 0..Len(a) : CharAt(a, k) # CharAt(b, k)}
  IN IF differ = {} THEN 0
     ELSE Sign(CharAt(a, Min(differ)) - CharAt(b, Min(differ)))

\* The number a text starts with: digits, then perhaps a dot and more digits
\* (the tenths are all the model keeps).  There is no sign.
char2double(s) ==
  LET End(from) == Min({k \in from..Len(s) : CharAt(s, k) \notin Digits})
      whole == End(0)
      value[k \in 0..whole] == IF k = 0 THEN 0 ELSE 10 * value[k - 1] + s[k] - 48
      tenths == IF /\ CharAt(s, whole) = Dot /\ CharAt(s, whole + 1) \in Digits
                THEN CharAt(s, whole + 1) - 48 ELSE 0
  IN value[whole] * Scale + tenths * (Scale \div 10)

\* The pattern match: one pass over the text, j the position in the pattern.
\* On a mismatch j falls back to the last '%'; the text never goes back.
compare_like(s, p) ==
  LET pl == Len(p)
      SkipPercents(j) == Min({k \in j..pl : k = pl \/ CharAt(p, k) # Percent})
      AfterLastPercent == Max({k \in 0..pl : k = 0 \/ CharAt(p, k - 1) = Percent})
      FallBack(j) == Max({k \in -1..j : k = -1 \/ CharAt(p, k) = Percent})
      Fail == [j |-> 0, verdict |-> "no"]
      At(j) == [j |-> j, verdict |-> "open"]
      Match(c, j) ==
        IF c = CharAt(p, j) \/ CharAt(p, j) = Underscore THEN At(j + 1)
        ELSE IF FallBack(j) = -1 THEN Fail ELSE At(FallBack(j))
      Step(st, c) ==
        LET j == SkipPercents(st.j)
        IN IF st.verdict # "open" THEN st
           ELSE IF j < pl THEN Match(c, j)
           ELSE IF CharAt(p, pl - 1) = Percent THEN [j |-> j, verdict |-> "yes"]
           ELSE IF AfterLastPercent = 0 THEN Fail
           ELSE Match(c, AfterLastPercent)
      end == FoldLeft(Step, At(0), s)
  IN IF Len(s) > 0 /\ pl = 0 THEN FALSE
     ELSE IF end.verdict = "open" THEN SkipPercents(end.j) = pl
     ELSE end.verdict = "yes"

(***************************************************************************)
(* Comparisons of SELECT: a truth value, and NULL compares false.          *)
(***************************************************************************)
\* Whether a comparison whose three-way result is c satisfies op.
Holds(c, op) ==
  CASE op = "EQUAL_TO"    -> c = 0
    [] op = "LESS_EQUAL"  -> c <= 0
    [] op = "NOT_EQUAL"   -> c # 0
    [] op = "LESS_THAN"   -> c < 0
    [] op = "GREAT_EQUAL" -> c >= 0
    [] op = "GREAT_THAN"  -> c > 0
    [] OTHER -> FALSE

compare_float(a, b) == Sign(a - b)

textComp(a, b, op) ==
  CASE op = "LIKE"     -> compare_like(a, b)
    [] op = "NOT_LIKE" -> ~compare_like(a, b)
    [] OTHER           -> Holds(strcmp(a, b), op)

numberComp(a, b, op) == Holds(Sign(a - b), op)

floatComp(a, b, op) == Holds(compare_float(a, b), op)

AsFloat(i) ==
  CASE i.t = "CHARS" -> char2double(i.s)
    [] i.t = "INTS"  -> i.n * Scale
    [] OTHER         -> i.n

checkTypeMatch(l, r) ==
  /\ "UNDEFINED" \notin {l, r}
  /\ "NULLS" \in {l, r} \/ (l = "DATES" <=> r = "DATES")

itemComp(i1, i2, op) ==
  IF op \in {"IS", "IS_NOT"} \/ IsNull(i1) \/ IsNull(i2)
  THEN IF IsNull(i1) /\ IsNull(i2) THEN op = "IS" ELSE op = "IS_NOT"
  ELSE IF i1.t = "CHARS" /\ i2.t = "CHARS" THEN textComp(i1.s, i2.s, op)
  ELSE IF i1.t = i2.t /\ i1.t \in {"INTS", "DATES"} THEN numberComp(i1.n, i2.n, op)
  ELSE IF "DATES" \in {i1.t, i2.t} THEN FALSE
  ELSE floatComp(AsFloat(i1), AsFloat(i2), op)

\* Mutant: NOT IN holds as soon as one value differs.
inCompAny(left, rights, op, isColumn) ==
  \E i \in 1..Len(rights) : itemComp(left, rights[i], IF op = "IN" THEN "EQUAL_TO" ELSE "NOT_EQUAL")

\* left IN / NOT IN the items of the right side.  In a column (the rows of a
\* subquery) the type turns to NULLS at the first NULL and stays so; in a list
\* every value has its own type.
inComp(left, rights, op, isColumn) ==
  LET Right(i) == IF isColumn /\ \E j \in 1..i : IsNull(rights[j]) THEN Null
                  ELSE rights[i]
  IN IF op = "IN"
     THEN \E i \in 1..Len(rights) : itemComp(left, Right(i), "EQUAL_TO")
     ELSE \A i \in 1..Len(rights) : itemComp(left, Right(i), "NOT_EQUAL")

(***************************************************************************)
(* Comparisons of DELETE and UPDATE: a three-way result over cells.  A     *)
(* cell is [null, v, len]: the null flag, the bytes as an item of the      *)
(* cell's type, and the length compare_string looks at.                    *)
(***************************************************************************)
Cell(v, len) == [null |-> IsNull(v), v |-> v, len |-> len]

compare_string(s1, len1, s2, len2) ==
  LET maxlen == Min({len1, len2})
      First(s) == SubSeq(s, 1, Min({maxlen, Len(s)}))
      c == strcmp(First(s1), First(s2))
  IN IF c # 0 THEN c
     ELSE IF len1 > maxlen THEN Sign(CharAt(s1, maxlen))
     ELSE IF len2 > maxlen THEN -Sign(CharAt(s2, maxlen))
     ELSE 0

\* The result of a comparison; "ok" is false for types the code refuses.
compare_all(c1, c2, op) ==
  LET t1 == IF c1.null THEN "NULLS" ELSE c1.v.t
      t2 == IF c2.null THEN "NULLS" ELSE c2.v.t
      Ok(c) == [ok |-> TRUE, c |-> c]
  IN IF op \in {"IS", "IS_NOT"} \/ "NULLS" \in {t1, t2}
     THEN IF t1 = "NULLS" /\ t2 = "NULLS" THEN Ok(IF op = "IS" THEN 0 ELSE 1)
          ELSE IF "NULLS" \in {t1, t2} THEN Ok(IF op = "IS_NOT" THEN 0 ELSE 1)
          ELSE Ok(1)
     ELSE IF op \in {"LIKE", "NOT_LIKE"}
     THEN Ok(IF compare_like(c1.v.s, c2.v.s) THEN 0 ELSE 1)
     ELSE IF t1 = t2 /\ t1 \in {"INTS", "DATES"} THEN Ok(Sign(c1.v.n - c2.v.n))
     ELSE IF t1 = "CHARS" /\ t2 = "CHARS"
     THEN Ok(compare_string(c1.v.s, c1.len, c2.v.s, c2.len))
     ELSE IF {t1, t2} \subseteq {"INTS", "FLOATS", "CHARS"}
     THEN Ok(compare_float(AsFloat(c1.v), AsFloat(c2.v)))
     ELSE [ok |-> FALSE, c |-> 0]

(***************************************************************************)
(* Conversion of a value to the type of a field.                           *)
(***************************************************************************)
\* The digits snprintf writes for a number.
IntText(n) ==
  LET digits[k \in Nat] == IF k < 10 THEN <<48 + k>>
                           ELSE Append(digits[k \div 10], 48 + (k % 10))
  IN IF n < 0 THEN <<45>> \o digits[-n] ELSE digits[n]

\* "%f": six decimals, of which the tenths fill the first.
FloatText(n) ==
  LET abs == IF n < 0 THEN -n ELSE n
      whole == IntText(abs \div Scale)
      frac == <<Dot, 48 + (((abs % Scale) * 10) \div Scale), 48, 48, 48, 48, 48>>
  IN (IF n < 0 THEN <<45>> ELSE <<>>) \o whole \o frac

\* A conversion to int cuts the fraction off.
Cut(n) == IF n >= 0 THEN n \div Scale ELSE -((-n) \div Scale)

\* snprintf keeps one byte of the field for the terminating zero.
Fit(s, len) == SubSeq(s, 1, Min({Len(s), len - 1}))

\* The converted value; "MISMATCH" where there is no conversion.
type_cast(v, field) ==
  CASE field.t = "CHARS"  /\ v.t = "INTS"   -> Text(Fit(IntText(v.n), field.len))
    [] field.t = "CHARS"  /\ v.t = "FLOATS" -> Text(Fit(FloatText(v.n), field.len))
    [] field.t = "INTS"   /\ v.t = "FLOATS" -> Int_(Cut(v.n + Scale \div 2))
    [] field.t = "INTS"   /\ v.t = "CHARS"  -> Int_(Cut(char2double(v.s)))
    [] field.t = "FLOATS" /\ v.t \in {"INTS", "CHARS"} -> Float(AsFloat(v))
    [] OTHER -> [t |-> "MISMATCH", n |-> 0, s |-> <<>>]

(***************************************************************************)
(* What SQL asks for: a text matches a pattern when its characters can be  *)
(* split so that '%' takes any number of them and '_' one.                 *)
(***************************************************************************)
Like(s, p) ==
  LET m[i \in 0..Len(s), j \in 0..Len(p)] ==
        IF j = Len(p) THEN i = Len(s)
        ELSE IF CharAt(p, j) = Percent
        THEN \E k \in i..Len(s) : m[k, j + 1]
        ELSE /\ i < Len(s)
             /\ CharAt(p, j) \in {Underscore, CharAt(s, i)}
             /\ m[i + 1, j + 1]
  IN m[0, 0]

\* At most one character follows each '%': the patterns the one pass decides.
OnePass(p) == \A k \in 2..Len(p) :
                (\E j \in 1..(k - 1) : p[j] = Percent) /\ p[k] # Percent
                => p[k - 1] = Percent
==============================================================================
