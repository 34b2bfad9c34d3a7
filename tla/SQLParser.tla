------------------------------ MODULE SQLParser ------------------------------
(***************************************************************************)
(* src/parser/sql-parser.ts: the recursive descent from the tokens of a         *)
(* statement to the AST.  A token is a string; its type is the lexer's.         *)
(*                                                                         *)
(* The parser's state is a record: the tokens from #current on, #paramIndex,    *)
(* and what the last method has returned.  A ParseError leaves no tokens, so     *)
(* that every method after it gives up too.                                    *)
(***************************************************************************)
EXTENDS QueryAST

Keywords ==
  {"select", "from", "where", "insert", "into", "values", "update", "set", "delete",
   "create", "table", "drop", "join", "inner", "left", "right", "full", "cross",
   "natural", "on", "as", "group", "by", "having", "order", "asc", "desc", "limit",
   "offset", "distinct", "and", "or", "not", "in", "like", "between", "is", "null",
   "true", "false", "count", "sum", "avg", "min", "max", "begin", "commit", "rollback",
   "returning", "with", "union", "intersect", "except", "exists", "all", "case", "when",
   "then", "else", "end", "over", "partition", "rows", "range", "unbounded", "preceding",
   "following", "current", "row_number", "rank", "dense_rank", "first_value",
   "last_value", "ntile", "lead", "lag", "conflict", "duplicate", "nothing", "do",
   "excluded", "index", "explain", "analyze", "primary", "key", "default", "unique",
   "if", "integer", "text", "varchar", "boolean", "real", "blob"}

Operators == {"+", "-", "*", "/", "%", "=", "<>", "!=", "<", ">", "<=", ">=", "||"}
Arithmetic == {"+", "-", "*", "/", "%"}
Numbers == {"0", "1", "2", "3"}

\* String literals, and their values: the parser compares the values of tokens,
\* so that two of these pass for keywords.
Strings == [t \in {"'x'", "'case'", "'select'"} |->
  CASE t = "'x'" -> "x" [] t = "'case'" -> "case" [] t = "'select'" -> "select"]
Numbered == [t \in {"$1", "$2"} |-> IF t = "$1" THEN 1 ELSE 2]

tokenType(t) ==
  CASE t \in Keywords -> "keyword"
    [] t \in Operators -> "operator"
    [] t \in Numbers -> "number"
    [] t \in DOMAIN Strings -> "string"
    [] t \in DOMAIN Numbered \cup {"?"} -> "param"
    [] t \in {",", ".", "(", ")"} -> "punctuation"
    [] t = "" -> "eof"
    [] OTHER -> "identifier"

-----------------------------------------------------------------------------
(* Tokens.                                                                   *)

Start(ts) == [ts |-> ts, k |-> 0, ok |-> TRUE, node |-> None]

Token(p) == IF p.ts = <<>> THEN "" ELSE p.ts[1]
TokenValue(t) == IF t \in DOMAIN Strings THEN Strings[t] ELSE t
Cur(p) == TokenValue(Token(p))
Peek(p) == IF Len(p.ts) < 2 THEN "" ELSE TokenValue(p.ts[2])
Advance(p) == IF p.ts = <<>> THEN p ELSE [p EXCEPT !.ts = Tail(@)]
Give(p, node) == [p EXCEPT !.node = node]
Fail(p) == [p EXCEPT !.ts = <<>>, !.ok = FALSE, !.node = None]

match(p, t) == IF Cur(p) = t THEN Advance(p) ELSE p
expect(p, t) == IF Cur(p) = t THEN Advance(p) ELSE Fail(p)
expectAll(p, ts) == FoldLeft(expect, p, ts)

parseIdentifier(p) ==
  IF tokenType(Token(p)) \in {"identifier", "keyword", "string"}
  THEN Give(Advance(p), Token(p)) ELSE Fail(p)

parseLiteral(p) ==
  CASE Cur(p) = "?" -> [Advance(p) EXCEPT !.k = @ + 1, !.node = Param(p.k)]
    [] Cur(p) \in DOMAIN Numbered -> Give(Advance(p), Param(Numbered[Cur(p)] - 1))
    [] tokenType(Token(p)) = "number" -> Give(Advance(p), Value(Token(p)))
    [] OTHER -> LET q == parseIdentifier(p) IN Give(q, Value(q.node))

\* AS alias, or an identifier that stands where an alias may; "" if neither.
parseAlias(p) ==
  IF Cur(p) = "as" \/ tokenType(Token(p)) = "identifier"
  THEN parseIdentifier(match(p, "as")) ELSE Give(p, "")

\* The rules that the grammar nests are reached through this one.
RECURSIVE Parse(_, _)

-----------------------------------------------------------------------------
(* Lists: every list of the grammar is the same loop, over different items.   *)

parseOrderItem(p) ==
  LET c == Parse(p, "column")
      d == match(match(c, "desc"), IF Cur(c) = "desc" THEN "" ELSE "asc")
  IN  Give(d, orderBy(c.node, IF Cur(c) = "desc" THEN "desc" ELSE "asc"))

parseAssignment(p) ==
  LET c == parseIdentifier(p)
      v == parseLiteral(expect(c, "="))
  IN  Give(v, [column |-> c.node, value |-> v.node])

parseIndexColumn(p) ==
  LET c == parseIdentifier(p)
      order == IF Cur(c) \in {"asc", "desc"} THEN Cur(c) ELSE ""
  IN  Give(match(c, order), [column |-> c.node, order |-> order])

RECURSIVE parseList(_, _, _)
parseList(p, what, items) ==
  LET q == Parse(match(p, ","), what)
  IN  IF Cur(q) = "," THEN parseList(q, what, Append(items, q.node))
      ELSE Give(q, Append(items, q.node))

parseColumns(p) ==
  CASE Cur(p) = "*" -> Give(Advance(p), <<wildcard>>)
    [] Cur(p) = ")" -> Give(p, <<>>)
    [] OTHER -> parseList(p, "column", <<>>)

\* The list in parentheses that begins here.
InParens(p, what) == expect(parseList(expect(p, "("), what, <<>>), ")")
OptionalParens(p, what) == IF Cur(p) = "(" THEN InParens(p, what) ELSE Give(p, <<>>)

-----------------------------------------------------------------------------
(* Column expressions.                                                       *)

RECURSIVE parseBranches(_, _, _)
parseBranches(p, subject, branches) ==
  IF Cur(p) # "when" THEN Give(p, branches)
  ELSE LET w == IF subject = None THEN Parse(Advance(p), "or") ELSE Parse(Advance(p), "column")
           t == Parse(expect(w, "then"), "column")
           \* thenExpr.value ?? thenExpr
           value == IF t.node.type = "literal" THEN t.node.value ELSE t.node
       IN  parseBranches(t, subject, Append(branches, [when |-> w.node, then |-> value]))

parseCase(p) ==
  LET s == IF Cur(p) = "when" THEN Give(p, None) ELSE Parse(p, "column")
      b == parseBranches(s, s.node, <<>>)
      e == IF Cur(b) = "else" THEN Parse(Advance(b), "column") ELSE Give(b, None)
      a == parseAlias(expect(e, "end"))
  IN  Give(a, [type |-> "case", caseValue |-> s.node, branches |-> b.node, alias |-> a.node,
               else |-> IF e.node.type = "literal" THEN e.node.value ELSE e.node])

\* OVER ( [PARTITION BY columns] [ORDER BY items] )
parseOver(p) ==
  LET o == expect(Advance(p), "(")
      by == IF Cur(o) = "partition" THEN parseColumns(expect(Advance(o), "by")) ELSE Give(o, <<>>)
      ord == IF Cur(by) = "order" THEN parseList(expect(Advance(by), "by"), "order item", <<>>)
             ELSE Give(by, <<>>)
  IN  Give(expect(ord, ")"), [partitionBy |-> by.node, orderBy |-> ord.node])

parseFunction(p) ==
  LET f == Give(Advance(Advance(p)), None)
      args == parseColumns(match(f, "distinct"))
      end == expect(args, ")")
      over == IF Cur(end) = "over" THEN parseOver(end) ELSE Give(end, None)
  IN  Give(over, [type |-> "function", func |-> Cur(p), distinct |-> Cur(f) = "distinct",
                  args |-> args.node, over |-> over.node, alias |-> ""])

parseColumn(p) ==
  LET n == parseIdentifier(p)
      c == parseIdentifier(Advance(n))
  IN  IF Cur(n) = "." THEN Give(c, col(c.node, n.node)) ELSE Give(n, col(n.node, ""))

isFunction(p) == tokenType(Token(p)) \in {"identifier", "keyword"} /\ Peek(p) = "("

\* The right operand is a whole expression: operators group to the right, and
\* an alias at the end belongs to the last operand.
RECURSIVE parseArithmetic(_)
parseArithmetic(p) ==
  IF Cur(p) \notin Arithmetic THEN p
  ELSE LET r == Parse(Advance(p), "column")
       IN  parseArithmetic(Give(r, [type |-> "binary", left |-> p.node, op |-> Cur(p),
                                    right |-> r.node, alias |-> ""]))

parseColumnExpr(p) ==
  IF Cur(p) = "case" THEN parseCase(Advance(p))
  ELSE IF tokenType(Token(p)) \in {"string", "number"}
       THEN Give(Advance(p), lit(Value(Token(p))))
  ELSE LET e == parseArithmetic(IF isFunction(p) THEN parseFunction(p) ELSE parseColumn(p))
           a == parseAlias(e)
       IN  IF ~a.ok THEN Fail(a) ELSE IF a.node = "" THEN e
           ELSE Give(a, [e.node EXCEPT !.alias = a.node])

-----------------------------------------------------------------------------
(* Conditions.                                                               *)

RECURSIVE parseAndRest(_), parseOrRest(_)
parseAndRest(p) ==
  IF Cur(p) # "and" THEN p
  ELSE LET r == Parse(Advance(p), "condition") IN parseAndRest(Give(r, and(<<p.node, r.node>>)))

parseOrRest(p) ==
  IF Cur(p) # "or" THEN p
  ELSE LET r == parseAndRest(Parse(Advance(p), "condition"))
       IN  parseOrRest(Give(r, or(<<p.node, r.node>>)))

\* BUG: AND and OR at the same level, in the order they come.
RECURSIVE parseFlatRest(_)
parseFlatRest(p) ==
  IF Cur(p) \notin {"and", "or"} THEN p
  ELSE LET r == Parse(Advance(p), "condition")
       IN  parseFlatRest(Give(r, [type |-> Cur(p), conditions |-> <<p.node, r.node>>]))
parseFlat(p) == parseFlatRest(Parse(p, "condition"))

parseOr(p) == parseOrRest(parseAndRest(Parse(p, "condition")))

\* The list or the subquery of IN and NOT IN.
parseIn(p, left, type, subtype) ==
  IF Cur(p) = "(" /\ Peek(p) = "select"
  THEN LET s == Parse(Advance(p), "select")
       IN  Give(expect(s, ")"), [type |-> subtype, left |-> left, subquery |-> s.node])
  ELSE LET v == InParens(p, "literal") IN Give(v, inList(type, left, v.node))

Named ==
  [o \in Operators |->
     CASE o = "<>" -> "neq" [] o = "!=" -> "neq" [] o = ">" -> "gt" [] o = "<" -> "lt"
       [] o = ">=" -> "gte" [] o = "<=" -> "lte" [] OTHER -> "eq"]

parseComparison(p, left) ==
  LET op == Named[Cur(p)]
      q == Advance(p)
      s == Parse(Advance(q), "select")
      r == Parse(q, "column")
  IN  IF tokenType(Token(p)) # "operator" THEN Fail(p)
      ELSE IF Cur(q) = "(" /\ Peek(q) = "select"
           THEN Give(expect(s, ")"), [type |-> "scalarSubquery", left |-> left, op |-> op,
                                      subquery |-> s.node])
      ELSE IF r.node.type = "literal" THEN Give(r, compare(op, left, r.node.value))
      ELSE Give(r, expr(left, op, r.node))

\* What may follow the left side of a condition.
parsePredicate(p, left) ==
  LET in == match(p, "in")
  IN  CASE Cur(p) = "is" ->
             LET n == match(Advance(p), "not")
             IN  Give(expect(n, "null"),
                      isNull(IF Peek(p) = "not" THEN "isNotNull" ELSE "isNull", left))
        [] Cur(p) = "like" ->
             LET v == parseLiteral(Advance(p)) IN Give(v, like("like", left, v.node, ""))
        [] Cur(p) = "not" /\ Peek(p) = "in" ->
             parseIn(Advance(Advance(p)), left, "notIn", "notInSubquery")
        [] Cur(p) = "not" /\ Peek(p) # "in" ->
             LET v == parseLiteral(expect(Advance(p), "like"))
             IN  Give(v, like("notLike", left, v.node, ""))
        [] Cur(in) = "(" -> parseIn(in, left, "in", "inSubquery")
        [] Cur(in) = "between" ->
             LET min == parseLiteral(Advance(in))
                 max == parseLiteral(expect(min, "and"))
             IN  Give(max, between(left, min.node, max.node))
        [] Cur(in) \in {"then", "else", "end"} -> Give(in, compare("eq", left, Value("true")))
        [] OTHER -> parseComparison(in, left)

parseCondition(p) ==
  CASE Cur(p) = "not" ->
         LET c == Parse(Advance(p), "condition") IN Give(c, not(c.node))
    [] Cur(p) = "exists" ->
         LET s == Parse(expect(Advance(p), "("), "select")
         IN  Give(expect(s, ")"), [type |-> "exists", subquery |-> s.node])
    [] OTHER -> LET l == Parse(p, "column") IN IF l.ok THEN parsePredicate(l, l.node) ELSE l

-----------------------------------------------------------------------------
(* Statements.                                                               *)

\* The clause that keyword t begins, if it is there.
Optional(p, t) ==
  LET q == Advance(p)
  IN  IF Cur(p) # t THEN Give(p, IF t \in {"group", "order", "returning"} THEN <<>> ELSE None)
      ELSE CASE t \in {"where", "having"} -> Parse(q, "or")
             [] t = "group" -> parseList(expect(q, "by"), "column", <<>>)
             [] t = "order" -> parseList(expect(q, "by"), "order item", <<>>)
             [] t \in {"limit", "offset"} -> Give(Advance(q), Value(Token(q)))
             [] t = "returning" -> parseList(q, "identifier", <<>>)

parseFrom(p) ==
  LET q == expect(p, "from")
      s == Parse(Advance(q), "select")
      sa == parseAlias(match(s, ")"))
      n == parseIdentifier(q)
      a == parseAlias(n)
  IN  IF Cur(q) = "("
      THEN Give(sa, [name |-> IF sa.node = "" THEN "sub" ELSE sa.node,
                     alias |-> sa.node, subquery |-> s.node])
      ELSE Give(a, table(n.node, a.node))

\* FULL and CROSS count as inner.  INNER itself is a join keyword that nothing
\* consumes, so that INNER JOIN is a ParseError.
RECURSIVE parseJoins(_, _)
parseJoins(p, joins) ==
  LET n == match(p, "natural")
      side == Cur(n)
      s == IF side \in {"left", "right", "full", "cross"} THEN Advance(n) ELSE n
      t == parseIdentifier(expect(s, "join"))
      a == parseAlias(t)
      on == IF Cur(a) = "on" /\ Cur(p) # "natural" THEN Parse(Advance(a), "or")
            ELSE Give(a, and(<<>>))
  IN  IF Cur(p) \notin {"inner", "left", "right", "full", "cross", "natural", "join"}
      THEN Give(p, joins)
      ELSE parseJoins(on, Append(joins, [type |-> IF side \in {"left", "right"} THEN side ELSE "inner",
                                         table |-> table(t.node, a.node), on |-> on.node]))

parseSelect(p) ==
  IF Cur(p) # "select" THEN Fail(p)
  ELSE LET d == Advance(p)
           columns == parseColumns(match(d, "distinct"))
           from == parseFrom(columns)
           joins == parseJoins(from, <<>>)
           where == Optional(joins, "where")
           group == Optional(where, "group")
           having == Optional(group, "having")
           order == Optional(having, "order")
           limit == Optional(order, "limit")
           offset == Optional(limit, "offset")
       IN  Give(offset,
             [type |-> "select", ctes |-> <<>>, distinct |-> Cur(d) = "distinct",
              columns |-> columns.node, from |-> from.node, joins |-> joins.node,
              where |-> where.node, groupBy |-> group.node, having |-> having.node,
              orderBy |-> order.node, limit |-> limit.node, offset |-> offset.node])

\* The rows of VALUES.
RECURSIVE parseRows(_, _)
parseRows(p, rows) ==
  LET r == InParens(match(p, ","), "literal")
  IN  IF Cur(r) = "," THEN parseRows(r, Append(rows, r.node)) ELSE Give(r, Append(rows, r.node))

\* ON CONFLICT and ON DUPLICATE KEY: the columns that are set, each from itself.
RECURSIVE parseUpsertSet(_, _, _)
parseUpsertSet(p, how, set) ==
  LET c == parseIdentifier(match(p, ","))
      e == expect(c, "=")
      v == IF how = "conflict" THEN parseIdentifier(expectAll(e, <<"excluded", ".">>))
           ELSE expect(parseIdentifier(expectAll(e, <<"values", "(">>)), ")")
  IN  IF Cur(v) = "," THEN parseUpsertSet(v, how, Append(set, c.node))
      ELSE Give(v, Append(set, c.node))

parseUpsert(p) ==
  LET how == Peek(p)
      q == Advance(Advance(p))
      c == OptionalParens(q, "identifier")
      d == IF Cur(c) = "do" THEN Advance(c) ELSE c
      s == IF how = "conflict" THEN parseUpsertSet(expectAll(d, <<"update", "set">>), how, <<>>)
           ELSE parseUpsertSet(expectAll(q, <<"key", "update">>), how, <<>>)
      constraint == IF how = "conflict" THEN c.node ELSE <<>>
  IN  IF Cur(p) # "on" THEN Give(p, None)
      ELSE IF how = "conflict" /\ Cur(c) # "do" THEN Give(c, None)
      ELSE IF how = "conflict" /\ Cur(d) = "nothing"
      THEN Give(Advance(d), [action |-> "nothing", constraint |-> constraint, set |-> <<>>])
      ELSE IF how = "conflict" /\ Cur(d) # "update" THEN Give(d, None)
      ELSE IF how \in {"conflict", "duplicate"}
      THEN Give(s, [action |-> "update", constraint |-> constraint, set |-> s.node])
      ELSE Give(Advance(p), None)

parseInsert(p) ==
  LET t == parseIdentifier(expectAll(p, <<"insert", "into">>))
      c == OptionalParens(t, "identifier")
      s == Parse(c, "select")
      v == parseRows(expect(c, "values"), <<>>)
      r == Optional(v, "returning")
      u == parseUpsert(r)
      node == [type |-> "insert", table |-> t.node, columns |-> c.node, values |-> <<>>,
               select |-> None, returning |-> <<>>, onConflict |-> None]
  IN  IF Cur(c) = "select" THEN Give(s, [node EXCEPT !.select = s.node])
      ELSE Give(u, [node EXCEPT !.values = v.node, !.returning = r.node, !.onConflict = u.node])

parseUpdate(p) ==
  LET t == parseIdentifier(expect(p, "update"))
      s == parseList(expect(t, "set"), "assignment", <<>>)
      w == Optional(s, "where")
      r == Optional(w, "returning")
  IN  Give(r, [type |-> "update", table |-> t.node, set |-> s.node, updateOps |-> <<>>,
               where |-> w.node, returning |-> r.node])

parseDelete(p) ==
  LET t == parseIdentifier(expectAll(p, <<"delete", "from">>))
      w == Optional(t, "where")
      r == Optional(w, "returning")
  IN  Give(r, [type |-> "delete", table |-> t.node, where |-> w.node, returning |-> r.node])

\* The constraints of a column, in any order, up to a token that is none.
RECURSIVE parseConstraints(_, _)
parseConstraints(p, def) ==
  LET v == parseLiteral(Advance(p))
  IN  CASE Cur(p) = "primary" -> parseConstraints(expect(Advance(p), "key"), [def EXCEPT !.primaryKey = TRUE])
        [] Cur(p) = "not" -> parseConstraints(expect(Advance(p), "null"), [def EXCEPT !.notNull = TRUE])
        [] Cur(p) = "unique" -> parseConstraints(Advance(p), [def EXCEPT !.unique = TRUE])
        [] Cur(p) = "default" -> parseConstraints(v, [def EXCEPT !.defaultValue = v.node])
        [] OTHER -> Give(p, def)

RECURSIVE parseColumnDefs(_, _)
parseColumnDefs(p, defs) ==
  LET n == parseIdentifier(match(p, ","))
      t == parseIdentifier(n)
      d == parseConstraints(t, [name |-> n.node, dataType |-> t.node, primaryKey |-> FALSE,
                                notNull |-> FALSE, unique |-> FALSE, defaultValue |-> None])
  IN  IF Cur(d) = "," THEN parseColumnDefs(d, Append(defs, d.node))
      ELSE Give(d, Append(defs, d.node))

\* IF EXISTS, IF NOT EXISTS: what is there of the words is consumed.
IfWords(p, words) ==
  LET Step(q, w) == IF q.ok /\ Cur(q) = w THEN Advance(q) ELSE [q EXCEPT !.ok = FALSE]
      q == FoldLeft(Step, Give(p, TRUE), words)
  IN  [q EXCEPT !.ok = p.ok, !.node = q.ok]

parseCreateTable(p) ==
  LET i == IfWords(expectAll(p, <<"create", "table">>), <<"if", "not", "exists">>)
      t == parseIdentifier(i)
      c == parseColumnDefs(expect(t, "("), <<>>)
  IN  Give(expect(c, ")"), [type |-> "createTable", table |-> t.node, columns |-> c.node,
                            ifNotExists |-> i.node])

parseCreateIndex(p) ==
  LET u == match(expect(p, "create"), "unique")
      i == IfWords(expect(u, "index"), <<"if", "not", "exists">>)
      n == parseIdentifier(i)
      t == parseIdentifier(expect(n, "on"))
      c == InParens(t, "index column")
  IN  Give(c, [type |-> "createIndex", name |-> n.node, table |-> t.node, columns |-> c.node,
               unique |-> Peek(p) = "unique", ifNotExists |-> i.node])

parseDrop(p, what, type) ==
  LET i == IfWords(expectAll(p, <<"drop", what>>), <<"if", "exists">>)
      n == parseIdentifier(i)
  IN  Give(n, [type |-> type, name |-> n.node, ifExists |-> i.node])

RECURSIVE parseCtes(_, _)
parseCtes(p, ctes) ==
  LET n == parseIdentifier(match(p, ","))
      c == OptionalParens(n, "identifier")
      s == Parse(expectAll(c, <<"as", "(">>), "select")
      e == expect(s, ")")
      read == Append(ctes, [name |-> n.node, query |-> s.node])
  IN  IF Cur(e) = "," THEN parseCtes(e, read) ELSE Give(e, read)

parseWith(p) ==
  LET c == parseCtes(Advance(p), <<>>)
      s == Parse(c, "select")
  IN  IF s.ok THEN Give(s, [s.node EXCEPT !.ctes = c.node]) ELSE s

\* One set operation at most: what follows the second SELECT is not read.
parseQuery(p) ==
  LET l == Parse(p, "select")
      o == Advance(l)
      both == Cur(l) = "union" /\ Cur(o) = "all"
      r == Parse(IF both THEN Advance(o) ELSE o, "select")
  IN  IF Cur(l) \notin {"union", "intersect", "except"} THEN l
      ELSE Give(r, [type |-> "setOp", op |-> IF both THEN "union all" ELSE Cur(l),
                    left |-> l.node, right |-> r.node])

parse(p) ==
  LET t == Cur(p)
  IN  CASE t = "with" -> parseWith(p)
        [] t = "explain" -> Give(Advance(p), [type |-> "raw", sql |-> t])
        [] t = "select" -> parseQuery(p)
        [] t = "insert" -> parseInsert(p)
        [] t = "update" -> parseUpdate(p)
        [] t = "delete" -> parseDelete(p)
        [] t = "create" /\ Peek(p) \in {"index", "unique"} -> parseCreateIndex(p)
        [] t = "create" /\ Peek(p) \notin {"index", "unique"} -> parseCreateTable(p)
        [] t = "drop" /\ Peek(p) = "index" -> parseDrop(p, "index", "dropIndex")
        [] t = "drop" /\ Peek(p) # "index" -> parseDrop(p, "table", "dropTable")
        [] t \in {"begin", "commit", "rollback"} -> Give(Advance(p), [type |-> "raw", sql |-> t])
        [] OTHER -> Fail(p)

Parse(p, rule) ==
  CASE rule = "statement" -> parse(p)
    [] rule = "select" -> parseSelect(p)
    [] rule = "or" -> parseOr(p)
    [] rule = "condition" -> parseCondition(p)
    [] rule = "column" -> parseColumnExpr(p)
    [] rule = "literal" -> parseLiteral(p)
    [] rule = "identifier" -> parseIdentifier(p)
    [] rule = "order item" -> parseOrderItem(p)
    [] rule = "assignment" -> parseAssignment(p)
    [] rule = "index column" -> parseIndexColumn(p)

parseSQL(ts) == Parse(Start(ts), "statement")
=============================================================================
