----------------------------- MODULE Databases -----------------------------
(***************************************************************************)
(* What the databases make of the conditions that reach them: the rows for       *)
(* which the text of a SQL condition is true, with AND before OR and with NULL    *)
(* as a third truth value, and the documents that a MongoDB filter matches.  A    *)
(* row gives each column "null" or a number; a null column is a field that the    *)
(* document does not have.                                                   *)
(***************************************************************************)
EXTENDS QueryAST, FiniteSetsExt

Columns == {"a", "b", "id"}
Digits == [n \in {"0", "1", "2", "3"} |->
             CASE n = "0" -> 0 [] n = "1" -> 1 [] n = "2" -> 2 [] n = "3" -> 3]

\* Truth values: their AND is the smaller, their OR the greater.
False == 0
Unknown == 1
True == 2
Is(b) == IF b THEN True ELSE False
Lower(s) == FoldLeft(LAMBDA x, y : IF y < x THEN y ELSE x, True, s)
Upper(s) == FoldLeft(LAMBDA x, y : IF y > x THEN y ELSE x, False, s)

Compares(op, x, y) ==
  CASE op \in {"=", "$eq", "eq"} -> x = y
    [] op \in {"<>", "!=", "$ne", "neq"} -> x # y
    [] op \in {">", "$gt", "gt"} -> x > y
    [] op \in {"<", "$lt", "lt"} -> x < y
    [] op \in {">=", "$gte", "gte"} -> x >= y
    [] op \in {"<=", "$lte", "lte"} -> x <= y

Compared(op, x, y) ==
  IF "null" \in {x, y} THEN Unknown ELSE Is(Compares(op, Digits[x], Digits[y]))

-----------------------------------------------------------------------------
(* SQL.                                                                      *)

\* The text with the values in the place of its placeholders.
Filled(text, params) ==
  FoldLeft(LAMBDA a, t : IF t = "?" THEN [ts |-> Append(a.ts, params[a.i].value), i |-> a.i + 1]
                         ELSE [a EXCEPT !.ts = Append(@, t)],
           [ts |-> <<>>, i |-> 1], text).ts

Depth(ts, i) ==
  Cardinality({j \in 1..i : ts[j] = "("}) - Cardinality({j \in 1..i : ts[j] = ")"})

\* The places of a word outside parentheses; the AND of a BETWEEN is no AND.
Places(ts, word) ==
  {i \in DOMAIN ts : ts[i] = word /\ Depth(ts, i) = 0 /\ ~(i > 2 /\ word = "and" /\ ts[i - 2] = "between")}
InTextOrder(places, ts) == SelectSeq([i \in DOMAIN ts |-> i], LAMBDA i : i \in places)
Parts(ts, word) ==
  LET cuts == <<0>> \o InTextOrder(Places(ts, word), ts) \o <<Len(ts) + 1>>
  IN  [i \in 1..(Len(cuts) - 1) |-> SubSeq(ts, cuts[i] + 1, cuts[i + 1] - 1)]

\* What stands behind the word, up to the next clause.
Clauses == {"from", "join", "where", "group", "having", "order", "limit", "offset", "distinct", "returning"}
Behind(ts, word) ==
  LET start == CHOOSE i \in DOMAIN ts : ts[i] = word /\ Depth(ts, i) = 0
      ends == {i \in DOMAIN ts : i > start /\ ts[i] \in Clauses /\ Depth(ts, i) = 0}
  IN  IF Places(ts, word) = {} THEN <<"1=1">>
      ELSE SubSeq(ts, start + 1, (IF ends = {} THEN Len(ts) + 1 ELSE Min(ends)) - 1)

Operand(t, row) == IF t \in Columns THEN row[t] ELSE t

\* The values between the parentheses of an IN.
Listed(ts) == SelectSeq(ts, LAMBDA t : t \in DOMAIN Digits)
Member(x, values) == Upper(Each(LAMBDA v : Compared("=", x, v), values))

Predicate(ts, row) ==
  LET x == Operand(ts[1], row)
  IN  IF Len(ts) = 1 THEN Is(ts[1] = "1=1")
      ELSE CASE ts[2] = "is" -> Is((x = "null") = (ts[3] = "null"))
             [] ts[2] = "between" -> Lower(<<Compared(">=", x, ts[3]), Compared("<=", x, ts[5])>>)
             [] ts[2] = "in" -> Member(x, Listed(Tail(ts)))
             [] ts[2] = "not" -> True - Member(x, Listed(Tail(ts)))
             [] ts[2] = "%" ->
                  IF x = "null" THEN Unknown ELSE Is(Digits[x] % Digits[ts[3]] = Digits[ts[5]])
             [] OTHER -> Compared(ts[2], x, Operand(ts[3], row))

RECURSIVE Truth(_, _)
Truth(ts, row) ==
  LET ors == Parts(ts, "or")
      ands == Parts(ts, "and")
  IN  IF Len(ors) > 1 THEN Upper(Each(LAMBDA p : Truth(p, row), ors))
      ELSE IF Len(ands) > 1 THEN Lower(Each(LAMBDA p : Truth(p, row), ands))
      ELSE IF ts[1] = "not" THEN True - Truth(Tail(ts), row)
      ELSE IF ts[1] = "(" THEN Truth(SubSeq(ts, 2, Len(ts) - 1), row)
      ELSE Predicate(ts, row)

-----------------------------------------------------------------------------
(* MongoDB.                                                                  *)

RECURSIVE Matches(_, _), FieldMatches(_, _, _), Holds(_, _)

\* The operators of a field.  Nothing is less or greater than a missing field.
FieldMatches(x, op, v) ==
  CASE op \in {"$eq", "$ne"} -> (x = v.value) = (op = "$eq")
    [] op \in {"$gt", "$lt", "$gte", "$lte"} ->
         x # "null" /\ v.value # "null" /\ Compares(op, Digits[x], Digits[v.value])
    [] op \in {"$in", "$nin"} -> (\E i \in DOMAIN v.of : v.of[i].value = x) = (op = "$in")
    [] op = "$exists" -> (x # "null") = (v = Value("1"))
    [] op = "$mod" -> x # "null" /\ Digits[x] % Digits[v.of[1].value] = Digits[v.of[2].value]
    [] op = "$not" -> ~\A i \in DOMAIN v.of : FieldMatches(x, v.of[i].key, v.of[i].is)

\* The expression under $expr; there null is less than any number.
Operands(v, row) == IF v.type = "ref" THEN row[v.name] ELSE v.value
Number(x) == IF x = "null" THEN 0 - 1 ELSE Digits[x]
Holds(e, row) ==
  IF e.key = "$not" THEN ~Holds(e.is.of[1], row)
  ELSE Compares(e.key, Number(Operands(e.is.of[1], row)), Number(Operands(e.is.of[2], row)))

EntryMatches(e, row) ==
  LET m == {Matches(e.is.of[i], row) : i \in DOMAIN e.is.of}
  IN  CASE e.key = "$and" -> FALSE \notin m
        [] e.key = "$or" -> TRUE \in m
        [] e.key = "$nor" -> TRUE \notin m
        [] e.key = "$expr" -> Holds(e.is.of[1], row)
        [] e.key \in Columns /\ e.is.type = "doc" ->
             \A i \in DOMAIN e.is.of : FieldMatches(row[e.key], e.is.of[i].key, e.is.of[i].is)
        [] e.key \in Columns /\ e.is.type # "doc" -> row[e.key] = e.is.value
Matches(filter, row) == \A i \in DOMAIN filter.of : EntryMatches(filter.of[i], row)

-----------------------------------------------------------------------------
(* What a tree of the query builder says.                                     *)

RECURSIVE Says(_, _)
Says(c, row) ==
  LET x == row[c.left.name]
      parts == Each(LAMBDA e : Says(e, row), c.conditions)
  IN  CASE c.type \in Comparisons -> Compared(c.type, x, c.right.value)
        [] c.type \in {"in", "notIn"} ->
             LET m == Member(x, Each(LAMBDA v : v.value, c.values))
             IN  IF c.type = "in" THEN m ELSE True - m
        [] c.type = "between" -> Lower(<<Compared("gte", x, c.min.value), Compared("lte", x, c.max.value)>>)
        [] c.type \in {"isNull", "isNotNull"} -> Is((x = "null") = (c.type = "isNull"))
        [] c.type = "and" -> Lower(parts)
        [] c.type = "or" -> Upper(parts)
        [] c.type = "not" -> True - Says(c.condition, row)
=============================================================================
