------------------------------- MODULE ToSQL -------------------------------
(***************************************************************************)
(* src/translator/to-sql.ts: from the AST to the text of a SQL statement and    *)
(* the values to bind.                                                       *)
(*                                                                         *)
(* A translator returns a piece of text and changes the context on the way, in  *)
(* an order that is not always the order of the text.  A piece keeps both: its   *)
(* text, as tokens, where a placeholder is "?" whatever the dialect; what each   *)
(* placeholder of the text stands for, which the code does not keep; and what it *)
(* has done to ctx.params and ctx.paramIdx.  Quoting of names is left out.       *)
(***************************************************************************)
EXTENDS QueryAST

Words(words) == [text |-> words, means |-> <<>>, does |-> <<>>]
Word(word) == Words(<<word>>)
Nothing == Words(<<>>)

Does(op, v) == [text |-> <<>>, means |-> <<>>, does |-> <<[op |-> op, value |-> v]>>]

Cat(pieces) ==
  FoldLeft(LAMBDA a, b : [text |-> a.text \o b.text, means |-> a.means \o b.means,
                          does |-> a.does \o b.does], Nothing, pieces)
Join(pieces, words) ==
  Cat([i \in DOMAIN pieces |-> IF i = 1 THEN pieces[1] ELSE Cat(<<Words(words), pieces[i]>>)])
Parens(piece) == Cat(<<Word("("), piece, Word(")")>>)

\* What a piece does as the code does it, where that is not the text's order.
InOrder(piece, done) == [piece EXCEPT !.does = Cat(done).does]

ph(v) == [text |-> <<"?">>, means |-> <<v>>, does |-> <<[op |-> "ph", value |-> v]>>]
pushVal(v) == IF v.type = "param" THEN Nothing ELSE Does("push", v)

\* The parameters of the context, pushed behind themselves.
Again == Does("again", None)

\* ctx.params, and the number of each placeholder in the order they were made.
Params(done) ==
  FoldLeft(LAMBDA ps, e : CASE e.op = "push" -> Append(ps, e.value)
                            [] e.op = "again" -> ps \o ps
                            [] OTHER -> ps, <<>>, done)
Made(done) ==
  FoldLeft(LAMBDA a, e : CASE e.op = "ph" -> [idx |-> a.idx + 1,
                                              made |-> Append(a.made, [number |-> a.idx + 1, value |-> e.value])]
                           [] e.op = "raise" -> [a EXCEPT !.idx = IF e.value.index > @ THEN e.value.index ELSE @]
                           [] OTHER -> a, [idx |-> 0, made |-> <<>>], done).made

Symbol == [eq |-> "=", neq |-> "<>", gt |-> ">", lt |-> "<", gte |-> ">=", lte |-> "<="]

\* Columns, conditions and statements nest: the translation of any node, in the
\* context of the whole.
RECURSIVE astToSQL(_, _)

-----------------------------------------------------------------------------
(* Column expressions.                                                       *)

As(name) == IF name = "" THEN Nothing ELSE Words(<<"as", name>>)
Qualified(c) == IF c.table = "" THEN Word(c.name) ELSE Words(<<c.table, ".", c.name>>)

columnsSQL(cs, d) == Join(Each(LAMBDA c : astToSQL(c, d), cs), <<",">>)
orderSQL(os, d) ==
  Join(Each(LAMBDA o : Cat(<<astToSQL(o.column, d), Word(o.direction)>>), os), <<",">>)

overSQL(over, d) ==
  LET by == Cat(<<Words(<<"partition", "by">>), columnsSQL(over.partitionBy, d)>>)
      order == Cat(<<Words(<<"order", "by">>), orderSQL(over.orderBy, d)>>)
  IN  IF over = None THEN Nothing
      ELSE Cat(<<Word("over"), Parens(Cat(<<IF over.partitionBy = <<>> THEN Nothing ELSE by,
                                            IF over.orderBy = <<>> THEN Nothing ELSE order>>))>>)

functionSQL(c, d) ==
  Cat(<<Words(<<c.func, "(">>), IF c.distinct THEN Word("distinct") ELSE Nothing,
        columnsSQL(c.args, d), Word(")"), overSQL(c.over, d), As(c.alias)>>)

\* The results of a CASE are pushed after their placeholders are made.
caseSQL(c, d) ==
  LET When(b) ==
        Cat(<<Word("when"), astToSQL(b.when, d), Word("then"), ph(b.then), pushVal(b.then)>>)
  IN  Cat(<<Word("case"), IF c.caseValue = None THEN Nothing ELSE astToSQL(c.caseValue, d)>>
          \o Each(When, c.branches)
          \o <<IF c.else = None THEN Nothing ELSE Cat(<<Word("else"), ph(c.else), pushVal(c.else)>>),
               Word("end"), As(c.alias)>>)

ColumnTypes == {"wildcard", "column", "alias", "literal", "function", "binary", "case"}

\* A literal makes a placeholder and pushes nothing for it.  A plain column
\* loses its alias.
colSQL(c, d) ==
  CASE c.type = "wildcard" -> Word("*")
    [] c.type = "column" -> Qualified(c)
    [] c.type = "alias" -> Cat(<<Qualified(c), As(c.alias)>>)
    [] c.type = "literal" -> ph(c.value)
    [] c.type = "function" -> functionSQL(c, d)
    [] c.type = "binary" -> Parens(Cat(<<astToSQL(c.left, d), Word(c.op), astToSQL(c.right, d)>>))
    [] c.type = "case" -> caseSQL(c, d)

-----------------------------------------------------------------------------
(* Conditions.                                                               *)

compareSQL(c, left) == Cat(<<pushVal(c.right), left, Word(Symbol[c.type]), ph(c.right)>>)

\* BUG: the upper bound is pushed first.
betweenMaxFirst(c, left) ==
  Cat(<<pushVal(c.max), pushVal(c.min), left,
        Word("between"), ph(c.min), Word("and"), ph(c.max)>>)
betweenSQL(c, left) ==
  Cat(<<pushVal(c.min), pushVal(c.max), left,
        Word("between"), ph(c.min), Word("and"), ph(c.max)>>)

inSQL(c, left) ==
  Cat(Each(pushVal, c.values) \o
      <<left, Words(IF c.type = "in" THEN <<"in">> ELSE <<"not", "in">>),
        Parens(Join(Each(ph, c.values), <<",">>))>>)

\* A pattern is taken for a regular expression: the anchors go, ".*" becomes
\* "%" and any other dot "_".
LikePattern ==
  [p \in {"'x'", "'x%'", "'x.y'", "^x.*$", "^x.y$"} |->
     CASE p = "'x.y'" -> "'x_y'" [] p = "^x.*$" -> "x%" [] p = "^x.y$" -> "x_y" [] OTHER -> p]
likeSQL(c, left) ==
  LET pattern == IF c.pattern.type = "value" THEN Value(LikePattern[c.pattern.value]) ELSE c.pattern
      Lower(piece) == IF c.flags = "i" THEN Cat(<<Word("lower"), Parens(piece)>>) ELSE piece
  IN  Cat(<<pushVal(pattern), Lower(left),
            Words(IF c.type = "like" THEN <<"like">> ELSE <<"not", "like">>), Lower(ph(pattern))>>)

modSQL(c, left) ==
  Cat(<<pushVal(c.divisor), pushVal(c.remainder), left,
        Word("%"), ph(c.divisor), Word("="), ph(c.remainder)>>)

allSQL(c, left) ==
  LET Part(v) == Cat(<<pushVal(v), [left EXCEPT !.does = <<>>], Word("like"), ph(v)>>)
  IN  InOrder(Parens(Join(Each(Part, c.values), <<"and">>)), <<left>> \o Each(Part, c.values))

\* MySQL compares with the right side of the inner condition, if it has one;
\* otherwise the text gets a "?%" for which there is no value.
elemMatchSQL(c, left, inner, d) ==
  LET right == c.condition.right
      sought == IF c.condition.type \in Comparisons THEN Cat(<<pushVal(right), ph(right)>>)
                ELSE Word("?%")
      from == IF d = "postgresql" THEN "jsonb_array_elements" ELSE "json_each"
  IN  IF d = "mysql"
      THEN Cat(<<Words(<<"json_search", "(">>), left, Word(","), sought,
                 Words(<<")", "is", "not", "null">>)>>)
      ELSE Cat(<<Words(<<"exists", "(", "select", "1", "from", from, "(">>), left,
                 Words(<<")", "where">>), inner, Word(")")>>)

LengthOf == [sqlite |-> "json_array_length", mysql |-> "json_length", postgresql |-> "jsonb_array_length"]
sizeSQL(c, left, d) ==
  Cat(<<pushVal(c.count), Word(LengthOf[d]), Parens(left), Word("="), ph(c.count)>>)

typeCheckSQL(c, left, d) ==
  IF d = "postgresql" THEN Word("1=1")
  ELSE Cat(<<Word(IF d = "sqlite" THEN "typeof" ELSE "json_type"), Parens(left),
             Words(<<"=", c.bsonType>>)>>)

\* The select shares the context: what it returns as its own parameters are
\* all parameters so far, which are pushed once more.
subquerySQL(left, words, sub) ==
  InOrder(Cat(<<left, Words(words), Parens(sub)>>), <<sub, Again, left>>)

condSQL(c, d) ==
  LET left == astToSQL(c.left, d)
      sub == astToSQL(c.subquery, d)
  IN  CASE c.type \in Comparisons -> compareSQL(c, left)
        [] c.type \in {"like", "notLike"} -> likeSQL(c, left)
        [] c.type = "mod" -> modSQL(c, left)
        [] c.type = "all" -> allSQL(c, left)
        [] c.type = "elemMatch" -> elemMatchSQL(c, left, astToSQL(c.condition, d), d)
        [] c.type = "expr" -> Cat(<<left, Word(Symbol[c.op]), astToSQL(c.right, d)>>)
        [] c.type = "size" -> sizeSQL(c, left, d)
        [] c.type = "typeCheck" -> typeCheckSQL(c, left, d)
        [] c.type = "between" -> betweenSQL(c, left)
        [] c.type \in {"in", "notIn"} -> inSQL(c, left)
        [] c.type = "inSubquery" -> subquerySQL(left, <<"in">>, sub)
        [] c.type = "notInSubquery" -> subquerySQL(left, <<"not", "in">>, sub)
        [] c.type = "exists" -> subquerySQL(Nothing, <<"exists">>, sub)
        [] c.type = "notExists" -> subquerySQL(Nothing, <<"not", "exists">>, sub)
        [] c.type = "scalarSubquery" -> subquerySQL(left, <<Symbol[c.op]>>, sub)
        [] c.type = "isNull" -> Cat(<<left, Words(<<"is", "null">>)>>)
        [] c.type = "isNotNull" -> Cat(<<left, Words(<<"is", "not", "null">>)>>)
        [] c.type \in {"and", "or"} /\ c.conditions = <<>> -> Word(IF c.type = "and" THEN "1=1" ELSE "1=0")
        [] c.type \in {"and", "or"} ->
             Join(Each(LAMBDA e : Parens(astToSQL(e, d)), c.conditions), <<c.type>>)
        [] c.type = "not" -> Cat(<<Word("not"), Parens(astToSQL(c.condition, d))>>)
        [] OTHER -> Word("1=1")

-----------------------------------------------------------------------------
(* Statements.                                                               *)

tableSQL(t, d) ==
  Cat(<<IF t.subquery = None THEN Word(t.name) ELSE Parens(astToSQL(t.subquery, d)), As(t.alias)>>)

joinSQL(j, d) == Cat(<<Words(<<j.type, "join">>), tableSQL(j.table, d), Word("on"), astToSQL(j.on, d)>>)

Where(keyword, c, d) == IF c = None THEN Nothing ELSE Cat(<<Word(keyword), astToSQL(c, d)>>)
Bound(keyword, v) == IF v = None THEN Nothing ELSE Cat(<<Does("push", v), Word(keyword), ph(v)>>)

Ctes(n, d) ==
  IF n.ctes = <<>> THEN Nothing
  ELSE Cat(<<Word("with"),
             Join(Each(LAMBDA c : Cat(<<Words(<<c.name, "as">>), Parens(astToSQL(c.query, d))>>),
                       n.ctes), <<",">>)>>)

translateSelect(n, d) ==
  Cat(<<Ctes(n, d), Word("select"), IF n.distinct THEN Word("distinct") ELSE Nothing,
        columnsSQL(n.columns, d), Word("from"), tableSQL(n.from, d)>>
      \o Each(LAMBDA j : joinSQL(j, d), n.joins) \o
      <<Where("where", n.where, d),
        IF n.groupBy = <<>> THEN Nothing ELSE Cat(<<Words(<<"group", "by">>), columnsSQL(n.groupBy, d)>>),
        Where("having", n.having, d),
        IF n.orderBy = <<>> THEN Nothing ELSE Cat(<<Words(<<"order", "by">>), orderSQL(n.orderBy, d)>>),
        Bound("limit", n.limit), Bound("offset", n.offset)>>)

Names(names) == Join(Each(Word, names), <<",">>)
returningSQL(names) ==
  IF names = <<>> THEN Nothing ELSE Cat(<<Word("returning"), Names(names)>>)

rowSQL(row) == Cat(Each(pushVal, row) \o <<Parens(Join(Each(ph, row), <<",">>))>>)

\* MySQL has no DO NOTHING: its update of no column is what is left of one.
upsertSQL(u, d) ==
  LET Set(Right(_)) == Join(Each(LAMBDA k : Cat(<<Words(<<k, "=">>), Words(Right(k))>>), u.set), <<",">>)
      target == IF u.constraint = <<>> THEN Nothing ELSE Parens(Names(u.constraint))
  IN  CASE u = None -> Nothing
        [] u # None /\ d = "mysql" ->
             Cat(<<Words(<<"on", "duplicate", "key", "update">>), Set(LAMBDA k : <<"values", "(", k, ")">>)>>)
        [] u # None /\ d # "mysql" /\ u.action = "nothing" ->
             Cat(<<Words(<<"on", "conflict">>), target, Words(<<"do", "nothing">>)>>)
        [] OTHER ->
             Cat(<<Words(<<"on", "conflict">>), target, Words(<<"do", "update", "set">>),
                   Set(LAMBDA k : <<"excluded", ".", k>>)>>)

translateInsert(n, d) ==
  LET columns == IF n.columns = <<>> THEN Nothing ELSE Parens(Names(n.columns))
      rows == IF n.select = None THEN Cat(<<Word("values"), Join(Each(rowSQL, n.values), <<",">>)>>)
              ELSE Cat(<<astToSQL(n.select, d), Again>>)
  IN  Cat(<<Words(<<"insert", "into", n.table>>), columns, rows,
            returningSQL(n.returning), upsertSQL(n.onConflict, d)>>)

\* The number of a parameter that stands in the text is made up for, the next
\* placeholder gets it.  No parser assigns a column expression.
setSQL(s) ==
  Cat(<<Does(IF s.value.type = "param" THEN "raise" ELSE "push", s.value),
        Words(<<s.column, "=">>), ph(s.value)>>)

updateOpSQL(o, d) ==
  LET f == o.field
      set == Words(<<f, "=">>)
  IN  CASE o.op = "inc" -> Cat(<<pushVal(o.value), set, Words(<<f, "+">>), ph(o.value)>>)
        [] o.op = "unset" -> Cat(<<set, Word("null")>>)
        [] o.op = "push" /\ d = "postgresql" ->
             Cat(<<pushVal(o.value), set, Words(<<f, "||">>), ph(o.value)>>)
        [] o.op = "push" /\ d # "postgresql" ->
             Cat(<<pushVal(o.value), set, Word(IF d = "mysql" THEN "json_array_append" ELSE "json_set"),
                   Parens(Cat(<<Words(<<f, ",", "'$'", ",">>), ph(o.value)>>))>>)
        [] o.op = "rename" -> Words(<<o.value.value, "=", f>>)
        [] OTHER -> Cat(<<set, ph(o.value), pushVal(o.value)>>)

translateUpdate(n, d) ==
  Cat(<<Words(<<"update", n.table, "set">>),
        Join(Each(LAMBDA s : setSQL(s), n.set) \o Each(LAMBDA o : updateOpSQL(o, d), n.updateOps), <<",">>),
        Where("where", n.where, d), returningSQL(n.returning)>>)

\* RETURNING is not written.
translateDelete(n, d) == Cat(<<Words(<<"delete", "from", n.table>>), Where("where", n.where, d)>>)

If(flag, words) == IF flag THEN Words(words) ELSE Nothing

translateCreateTable(n) ==
  LET Def(c) == Cat(<<Words(<<c.name, c.dataType>>), If(c.primaryKey, <<"primary", "key">>),
                      If(c.notNull, <<"not", "null">>), If(c.unique, <<"unique">>),
                      Bound("default", c.defaultValue)>>)
  IN  Cat(<<Words(<<"create", "table">>), If(n.ifNotExists, <<"if", "not", "exists">>), Word(n.table),
            Parens(Join(Each(Def, n.columns), <<",">>))>>)

translateCreateIndex(n) ==
  LET Part(c) == Cat(<<Word(c.column), If(c.order # "", <<c.order>>)>>)
  IN  Cat(<<Word("create"), If(n.unique, <<"unique">>), Word("index"),
            If(n.ifNotExists, <<"if", "not", "exists">>), Words(<<n.name, "on", n.table>>),
            Parens(Join(Each(Part, n.columns), <<",">>))>>)

translateDrop(n, what) == Cat(<<Words(<<"drop", what>>), If(n.ifExists, <<"if", "exists">>), Word(n.name)>>)

translateSetOp(n, d) ==
  Cat(<<astToSQL(n.left, d), Words(IF n.op = "union all" THEN <<"union", "all">> ELSE <<n.op>>),
        astToSQL(n.right, d), Again>>)

-----------------------------------------------------------------------------
(* Aggregation pipelines: one SELECT gathers what all the stages ask.         *)

Operation == [n \in {"$add", "$subtract", "$multiply", "$divide"} |->
  CASE n = "$add" -> "+" [] n = "$subtract" -> "-" [] n = "$multiply" -> "*" [] n = "$divide" -> "/"]
Function == [n \in {"$concat", "$toUpper", "$substr"} |->
  CASE n = "$concat" -> "concat" [] n = "$toUpper" -> "upper" [] n = "$substr" -> "substr"]

IsComputed(v) ==
  v.type = "doc" /\ \E i \in DOMAIN v.of : v.of[i].key \in DOMAIN Operation \cup DOMAIN Function
computedToSQL(k, v) ==
  LET e == SelectSeq(v.of, LAMBDA x : x.key \in DOMAIN Operation \cup DOMAIN Function)[1]
      Arg(a) == IF a.type = "ref" THEN Word(a.name) ELSE Word(a.value)
      args == IF e.is.type = "list" THEN Each(Arg, e.is.of) ELSE <<Arg(e.is)>>
  IN  Cat(<<IF e.key \in DOMAIN Operation THEN Parens(Join(args, <<Operation[e.key]>>))
            ELSE Cat(<<Word(Function[e.key]), Parens(Join(args, <<",">>))>>), As(k)>>)

\* The entries of _id.  Those of a string "$a" are its characters.
IdEntries(id) ==
  CASE id.type = "doc" -> id.of
    [] id.type = "ref" -> <<entry("0", Value("$")), entry("1", Value(id.name))>>
Text(v) == IF v.type = "ref" THEN <<"$", v.name>> ELSE <<v.value>>
GroupBy(id) == LET es == IdEntries(id) IN [i \in DOMAIN es |-> Words(Text(es[i].is))]

CollectedBy == [sqlite |-> "json_group_array", mysql |-> "group_concat", postgresql |-> "json_agg"]
\* $first and $last read the order that stands when the stage is met.
accumulatorSQL(a, id, order, d) ==
  LET over == <<IF GroupBy(id) = <<>> THEN Nothing
                ELSE Cat(<<Words(<<"partition", "by">>), Join(GroupBy(id), <<",">>)>>),
                IF order = <<>> THEN Nothing ELSE Cat(<<Words(<<"order", "by">>), Join(order, <<",">>)>>)>>
      call == CASE a.func \in {"addToSet", "push"} ->
                     Words(<<CollectedBy[d], "(">> \o (IF a.func = "push" THEN <<>> ELSE <<"distinct">>)
                           \o <<a.field, ")">>)
                [] a.func \in {"first", "last"} ->
                     Cat(<<Words(<<IF a.func = "first" THEN "first_value" ELSE "last_value",
                                   "(", a.field, ")", "over">>), Parens(Cat(over))>>)
                [] OTHER -> Words(<<a.func, "(", a.field, ")">>)
  IN  Cat(<<call, As(a.key)>>)

lookupSQL(s, n) ==
  IF s.complex THEN Words(<<"left", "join", s.from, "as", s.as, "on", "1=1">>)
  ELSE Words(<<"left", "join", s.from, "on", n.table, ".", s.localField, "=",
               s.from, ".", s.foreignField>>)

\* A stage adds to what is gathered, g.  A field of $addFields that is no
\* expression pushes its value and writes only its name.
Gather(g, s, n, d) ==
  LET Column(f) == IF IsComputed(f.is) THEN computedToSQL(f.key, f.is) ELSE Word(f.key)
      Pushed(f) == IF IsComputed(f.is) THEN Nothing ELSE pushVal(f.is)
      cond == astToSQL(s.condition, d)
      ids == IdEntries(s.id)
  IN  CASE s.stage = "match" -> [g EXCEPT !.where = Append(@, cond), !.made = Cat(<<@, cond>>)]
        [] s.stage = "group" ->
             [g EXCEPT !.grouped = TRUE,
                !.select = [i \in DOMAIN ids |-> Cat(<<Words(Text(ids[i].is)), As(ids[i].key)>>)]
                           \o Each(LAMBDA a : accumulatorSQL(a, s.id, g.order, d), s.accumulators),
                !.group = IF ids = <<>> THEN @ ELSE GroupBy(s.id)]
        [] s.stage = "sort" -> [g EXCEPT !.order = Each(LAMBDA o : orderSQL(<<o>>, d), s.fields)]
        [] s.stage = "limit" -> [g EXCEPT !.limit = s.count]
        [] s.stage = "skip" -> [g EXCEPT !.skip = s.count]
        [] s.stage = "sample" -> [g EXCEPT !.order = <<Words(<<"random", "(", ")">>)>>, !.limit = s.count]
        [] s.stage = "project" /\ ~g.grouped ->
             [g EXCEPT !.select = Each(Column, SelectSeq(s.fields, LAMBDA f : f.is \notin {Value("0"), Value("false")}))]
        [] s.stage = "lookup" -> [g EXCEPT !.joins = Append(@, lookupSQL(s, n))]
        [] s.stage = "addFields" ->
             [g EXCEPT !.made = Cat(<<@>> \o Each(Pushed, s.fields)),
                !.select = IF g.grouped THEN @ ELSE @ \o Each(Column, s.fields)]
        [] OTHER -> g

clauseSQL(words, pieces, sep) ==
  IF pieces = <<>> THEN Nothing ELSE Cat(<<Words(words), Join(pieces, sep)>>)

gatheredSQL(g, n) ==
  LET page == Cat(<<Bound("limit", g.limit), Bound("offset", g.skip)>>)
  IN  InOrder(Cat(<<Word("select"), IF g.select = <<>> THEN Word("*") ELSE Join(g.select, <<",">>),
                Words(<<"from", n.table>>), Cat(g.joins), clauseSQL(<<"where">>, g.where, <<"and">>),
                clauseSQL(<<"group", "by">>, g.group, <<",">>),
                clauseSQL(<<"order", "by">>, g.order, <<",">>), page>>), <<g.made, page>>)

translateAggregate(n, d) ==
  gatheredSQL(FoldLeft(LAMBDA a, s : Gather(a, s, n, d),
                [select |-> <<>>, where |-> <<>>, joins |-> <<>>, group |-> <<>>, order |-> <<>>,
                 limit |-> None, skip |-> None, grouped |-> FALSE, made |-> Nothing], n.pipeline), n)

astToSQL(node, d) ==
  CASE node.type = "select" -> translateSelect(node, d)
    [] node.type = "insert" -> translateInsert(node, d)
    [] node.type = "update" -> translateUpdate(node, d)
    [] node.type = "delete" -> translateDelete(node, d)
    [] node.type = "aggregate" -> translateAggregate(node, d)
    [] node.type = "createTable" -> translateCreateTable(node)
    [] node.type = "dropTable" -> translateDrop(node, "table")
    [] node.type = "createIndex" -> translateCreateIndex(node)
    [] node.type = "dropIndex" -> translateDrop(node, "index")
    [] node.type = "setOp" -> translateSetOp(node, d)
    [] node.type = "raw" -> Word(node.sql)
    [] node.type \in ColumnTypes -> colSQL(node, d)
    [] OTHER -> condSQL(node, d)

=============================================================================
