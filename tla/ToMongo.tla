------------------------------ MODULE ToMongo ------------------------------
(***************************************************************************)
(* src/translator/to-mongodb.ts: from the AST and the values of its parameters  *)
(* to a command: a collection, a method and objects of QueryAST.              *)
(*                                                                         *)
(* What throws is Thrown, where its object would be; a command that holds it     *)
(* anywhere is not made (astToMongo).                                         *)
(***************************************************************************)
EXTENDS QueryAST

Dollar ==
  [t \in Comparisons |-> CASE t = "eq" -> "$eq" [] t = "neq" -> "$ne" [] t = "gt" -> "$gt"
                           [] t = "lt" -> "$lt" [] t = "gte" -> "$gte" [] t = "lte" -> "$lte"]

Wrap(key, json) == doc(<<entry(key, json)>>)
One == Value("1")
Null == Value("null")
NoRows == list(<<>>)

resolveValue(v, params) ==
  IF v.type # "param" THEN v
  ELSE IF v.index + 1 \in DOMAIN params THEN params[v.index + 1] ELSE Thrown

\* The special characters of a regular expression are escaped, then "%" and
\* "_" become ".*" and ".", between anchors.
LikeRegex ==
  [p \in {"'x'", "'x%'", "'x.y'", "^x.*$", "^x.y$", "1", "2", "3"} |->
     CASE p = "'x'" -> "^x$" [] p = "'x%'" -> "^x.*$" [] p = "'x.y'" -> "^x\\.y$"
       [] p = "^x.*$" -> "^\\^x\\.\\*\\$$" [] p = "^x.y$" -> "^\\^x\\.y\\$$"
       [] p = "1" -> "^1$" [] p = "2" -> "^2$" [] p = "3" -> "^3$"]
likeToRegex(v) == IF v = Thrown THEN Thrown ELSE Value(LikeRegex[v.value])

\* A binary expression becomes the name that its text makes, here one for all.
colName(c) ==
  CASE c.type = "binary" -> "(binary)"
    [] c.type # "binary" /\ c.alias # "" -> c.alias
    [] c.type \in {"column", "alias"} /\ c.alias = "" -> c.name
    [] OTHER -> "_id"

\* A key that is set twice keeps its place and its last value.
Set(entries, e) ==
  IF \E i \in DOMAIN entries : entries[i].key = e.key
  THEN Each(LAMBDA x : IF x.key = e.key THEN e ELSE x, entries) ELSE Append(entries, e)
Doc(entries) == doc(FoldLeft(Set, <<>>, entries))

orderByToMQL(items) ==
  Doc(Each(LAMBDA o : entry(colName(o.column), Value(IF o.direction = "desc" THEN "-1" ELSE "1")), items))

-----------------------------------------------------------------------------
(* Conditions.                                                               *)

RECURSIVE condToMQL(_, _)

\* A column is "$" and its name; what else is taken as the value of a literal.
operand(c) == IF c.type = "column" THEN ref(c.name)
              ELSE IF c.type = "literal" THEN c.value ELSE None

\* A filter of one field with an object takes $not inside, any other $nor outside.
notToMQL(inner) ==
  IF inner = Thrown THEN Thrown
  ELSE IF Len(inner.of) = 1 /\ inner.of[1].is.type = "doc"
  THEN Wrap(inner.of[1].key, Wrap("$not", inner.of[1].is))
  ELSE Wrap("$nor", list(<<inner>>))

ParamValues(vs, params) == list(Each(LAMBDA v : resolveValue(v, params), vs))

patternToMQL(c, params) ==
  Doc(<<entry("$regex", likeToRegex(resolveValue(c.pattern, params)))>>
      \o IF c.flags = "" THEN <<>> ELSE <<entry("$options", Value(c.flags))>>)

condToMQL(c, params) ==
  LET Field(json) == Wrap(colName(c.left), json)
      V(v) == resolveValue(v, params)
      Parts == list(Each(LAMBDA e : condToMQL(e, params), c.conditions))
  IN  CASE c.type = "eq" -> Field(V(c.right))
        [] c.type \in Comparisons \ {"eq"} -> Field(Wrap(Dollar[c.type], V(c.right)))
        [] c.type = "like" -> Field(patternToMQL(c, params))
        [] c.type = "notLike" -> Field(Wrap("$not", patternToMQL(c, params)))
        [] c.type = "mod" -> Field(Wrap("$mod", ParamValues(<<c.divisor, c.remainder>>, params)))
        [] c.type = "size" -> Field(Wrap("$size", V(c.count)))
        [] c.type = "typeCheck" -> Field(Wrap("$type", Value(c.bsonType)))
        [] c.type = "elemMatch" -> Field(Wrap("$elemMatch", condToMQL(c.condition, params)))
        [] c.type = "all" -> Field(Wrap("$all", ParamValues(c.values, params)))
        [] c.type = "expr" ->
             Wrap("$expr", Wrap(Dollar[c.op], list(<<operand(c.left), operand(c.right)>>)))
        [] c.type = "between" ->
             Field(doc(<<entry("$gte", V(c.min)), entry("$lte", V(c.max))>>))
        [] c.type = "in" -> Field(Wrap("$in", ParamValues(c.values, params)))
        [] c.type = "notIn" -> Field(Wrap("$nin", ParamValues(c.values, params)))
        [] c.type = "isNull" -> Field(Null)
        [] c.type = "isNotNull" -> Field(Wrap("$ne", Null))
        [] c.type \in {"and", "or"} /\ c.conditions = <<>> -> doc(<<>>)
        [] c.type = "and" /\ c.conditions # <<>> -> Wrap("$and", Parts)
        [] c.type = "or" /\ c.conditions # <<>> -> Wrap("$or", Parts)
        [] c.type = "not" -> notToMQL(condToMQL(c.condition, params))
        [] c.type = "scalarSubquery" -> Thrown
        [] OTHER -> doc(<<>>)

-----------------------------------------------------------------------------
(* Subqueries in WHERE become $lookup stages and conditions on what they find. *)

Subqueries == {"inSubquery", "notInSubquery", "exists", "notExists"}

RECURSIVE hasSubqueryCondition(_), findColumnRefs(_), extractSubqueries(_, _, _, _)
hasSubqueryCondition(c) ==
  \/ c.type \in Subqueries
  \/ c.type \in {"and", "or"} /\ \E i \in DOMAIN c.conditions : hasSubqueryCondition(c.conditions[i])
  \/ c.type = "not" /\ hasSubqueryCondition(c.condition)

\* The columns with a table on the left of a comparison.  No parser makes a
\* comparison with a column on its right: that is an expr, and not looked at.
findColumnRefs(c) ==
  CASE c.type \in Comparisons ->
         IF c.left.type = "column" /\ c.left.table # "" THEN <<c.left>> ELSE <<>>
    [] c.type \in {"and", "or"} -> FlattenSeq(Each(findColumnRefs, c.conditions))
    [] c.type = "not" -> findColumnRefs(c.condition)
    [] OTHER -> <<>>

\* The outer column the subquery refers to; its name is taken for both sides.
findCorrelation(where, outer) ==
  LET found == IF where = None THEN <<>>
               ELSE SelectSeq(findColumnRefs(where), LAMBDA r : r.table = outer)
  IN  IF found = <<>> THEN "" ELSE found[1].name

\* The $lookup of one subquery.
lookupFor(c, params, name, outer) ==
  LET sub == c.subquery
      cor == findCorrelation(sub.where, outer)
      match == IF cor # ""
               THEN <<Wrap("$match", Wrap("$expr", Wrap("$eq", list(<<ref(cor), Value("$$cor")>>))))>>
               ELSE IF sub.where = None THEN <<>> ELSE <<Wrap("$match", condToMQL(sub.where, params))>>
      last == CASE c.type \in {"exists", "notExists"} -> <<Wrap("$limit", One)>>
                [] c.type = "inSubquery" /\ cor = "" /\ c.left.type \in {"column", "alias"} ->
                     <<Wrap("$project", doc(<<entry(c.left.name, One), entry("_id", Value("0"))>>))>>
                [] OTHER -> <<>>
  IN  Wrap("$lookup", doc(<<entry("from", Value(sub.from.name))>>
        \o (IF cor = "" THEN <<>> ELSE <<entry("let", Wrap("cor", ref(cor)))>>)
        \o <<entry("pipeline", list(match \o last)), entry("as", Value(name))>>))

\* [cond, lookups]: the names of the lookups count them.
Sub == <<"_sub_0", "_sub_1", "_sub_2">>
extractSubqueries(c, params, lookups, outer) ==
  LET name == Sub[Len(lookups) + 1]
      Part(done, e) ==
        LET x == extractSubqueries(e, params, done.lookups, outer)
        IN  [cond |-> Append(done.cond, x.cond), lookups |-> x.lookups]
      parts == FoldLeft(Part, [cond |-> <<>>, lookups |-> lookups], c.conditions)
      inner == extractSubqueries(c.condition, params, lookups, outer)
  IN  CASE c.type \in Subqueries ->
             [cond |-> compare(IF c.type \in {"notInSubquery", "notExists"} THEN "eq" ELSE "neq",
                               col(name, ""), NoRows),
              lookups |-> Append(lookups, lookupFor(c, params, name, outer))]
        [] c.type \in {"and", "or"} ->
             [cond |-> [type |-> c.type, conditions |-> parts.cond], lookups |-> parts.lookups]
        [] c.type = "not" -> [inner EXCEPT !.cond = not(inner.cond)]
        [] OTHER -> [cond |-> c, lookups |-> lookups]

-----------------------------------------------------------------------------
(* SELECT.                                                                   *)

Command(collection, method, args) ==
  [collection |-> collection, method |-> method, args |-> args]
Stage(key, present, json) == IF present THEN <<Wrap(key, json)>> ELSE <<>>

Aggregates == {"count", "sum", "avg", "min", "max"}
IsAggregate(c) == c.type = "function" /\ c.func \in Aggregates
IsWindow(c) == c.type = "function" /\ c.over # None
Some(P(_), s) == \E i \in DOMAIN s : P(s[i])

\* The rows of a subquery in FROM: only WHERE is left of the outer query, and
\* the page of the subquery is cut before it is moved.
selectFromSubquery(n, params) ==
  LET s == n.from.subquery
      named == SelectSeq(s.columns, LAMBDA c : c.type \in {"column", "alias"})
      bare == Some(LAMBDA c : c.type = "wildcard", s.columns)
  IN  Command(s.from.name, "aggregate", <<list(
        Stage("$match", s.where # None, condToMQL(s.where, params))
        \o Stage("$project", ~bare /\ named # <<>>, Doc(Each(LAMBDA c : entry(c.name, One), named)))
        \o Stage("$sort", s.orderBy # <<>>, orderByToMQL(s.orderBy))
        \o Stage("$limit", s.limit # None, s.limit)
        \o Stage("$skip", s.offset # None, s.offset)
        \o Stage("$match", n.where # None, condToMQL(n.where, params)))>>)

\* A join on anything but one equation is left out.
joinStage(j) ==
  LET right == IF j.on.type = "eq" THEN j.on.right ELSE Value(colName(j.on.right))
  IN  IF j.on.type \notin {"eq", "expr"} THEN <<>>
      ELSE <<Wrap("$lookup", doc(<<
               entry("from", Value(j.table.name)), entry("localField", Value(colName(j.on.left))),
               entry("foreignField", right), entry("as", Value(j.table.name))>>
             \o IF j.type = "left" THEN <<>> ELSE <<entry("_joinType", Value(j.type))>>))>>

groupId(n) ==
  LET IdDoc(cs) == Doc(Each(LAMBDA c : entry(colName(c), ref(colName(c))), cs))
      distinct == SelectSeq(n.columns, LAMBDA c : c.type \notin {"function", "wildcard"})
  IN  CASE n.groupBy # <<>> -> <<entry("_id", IdDoc(n.groupBy))>>
        [] n.groupBy = <<>> /\ n.distinct /\ Len(distinct) = 1 -> <<entry("_id", ref(colName(distinct[1])))>>
        [] n.groupBy = <<>> /\ n.distinct /\ Len(distinct) > 1 -> <<entry("_id", IdDoc(distinct))>>
        [] n.groupBy = <<>> /\ n.distinct /\ distinct = <<>> -> <<entry("_id", Null)>>
        [] OTHER -> <<>>

DollarOf == [f \in Aggregates |->
  CASE f = "count" -> "$count" [] f = "sum" -> "$sum" [] f = "avg" -> "$avg" [] f = "min" -> "$min" [] f = "max" -> "$max"]
Shown(c) == IF c.alias = "" THEN c.func ELSE c.alias
groupStage(n) ==
  LET Accumulator(c) ==
        entry(Shown(c), Wrap(DollarOf[c.func],
              IF c.func = "count" THEN One
              ELSE IF c.args = <<>> THEN Value("$null") ELSE ref(colName(c.args[1]))))
  IN  Doc(groupId(n) \o Each(Accumulator, SelectSeq(n.columns, IsAggregate)))

\* The results are values; the condition of a simple CASE compares the name of
\* what follows WHEN with the result.
caseToMQL(c, params) ==
  LET Branch(b) ==
        LET then == resolveValue(b.then, params)
        IN  doc(<<entry("case", IF c.caseValue = None THEN condToMQL(b.when, params)
                                ELSE Wrap("$eq", list(<<Value(colName(b.when)), then>>))),
                  entry("then", then)>>)
      default == IF c.else = None THEN <<>> ELSE <<entry("default", resolveValue(c.else, params))>>
  IN  Wrap("$switch", doc(<<entry("branches", list(Each(Branch, c.branches)))>> \o default))

projection(n, grouped, params) ==
  LET Field(c) ==
        CASE c.type = "case" -> entry(IF c.alias = "" THEN "case" ELSE c.alias, caseToMQL(c, params))
          [] c.type = "function" /\ grouped -> entry(Shown(c), One)
          [] c.type = "function" /\ ~grouped /\ c.over # None -> entry("", Thrown)
          [] OTHER -> entry(colName(c), One)
      fields == Each(Field, SelectSeq(n.columns, LAMBDA c : c.type # "wildcard"))
  IN  Doc(IF grouped THEN <<entry("_id", Value("0"))>> \o fields ELSE fields)

\* BUG: the page of the main query, cut before it is moved.
pageCutFirst(n) ==
  Stage("$limit", n.limit # None, n.limit) \o Stage("$skip", n.offset # None, n.offset)
page(n) ==
  Stage("$skip", n.offset # None, n.offset) \o Stage("$limit", n.limit # None, n.limit)

selectByPipeline(n, params) ==
  LET grouped == n.groupBy # <<>> \/ n.distinct \/ Some(IsAggregate, n.columns)
      x == IF n.where = None THEN [cond |-> None, lookups |-> <<>>]
           ELSE extractSubqueries(n.where, params, <<>>, n.from.name)
      shown == IF grouped THEN Some(LAMBDA c : c.type # "wildcard", n.columns)
               ELSE Some(LAMBDA c : c.type = "case" \/ IsWindow(c), n.columns)
  IN  Command(n.from.name, "aggregate", <<list(
        FlattenSeq(Each(joinStage, n.joins)) \o x.lookups
        \o Stage("$match", n.where # None, condToMQL(x.cond, params))
        \o Stage("$group", grouped, groupStage(n))
        \o Stage("$match", n.having # None, condToMQL(n.having, params))
        \o Stage("$sort", n.orderBy # <<>>, orderByToMQL(n.orderBy))
        \o Stage("$project", shown, projection(n, grouped, params))
        \o page(n))>>)

\* A projection shows a column under its alias, which is no field.
selectByFind(n, params) ==
  LET name(c) == IF c.type \in {"column", "alias"} /\ c.alias = "" THEN c.name ELSE c.alias
      fields == FoldLeft(Set, <<>>,
        Each(LAMBDA c : entry(name(c), One),
             SelectSeq(n.columns, LAMBDA c : c.type # "wildcard" /\ name(c) # "")))
      id == IF fields = <<>> \/ Some(LAMBDA e : e.key = "_id", fields) THEN <<>> ELSE <<entry("_id", Value("0"))>>
      Option(key, present, json) == IF present THEN <<entry(key, json)>> ELSE <<>>
      options == Option("projection", fields # <<>>, doc(fields \o id))
                 \o Option("sort", n.orderBy # <<>>, orderByToMQL(n.orderBy))
                 \o Option("limit", n.limit # None, n.limit) \o Option("skip", n.offset # None, n.offset)
  IN  Command(n.from.name, "find",
        <<IF n.where = None THEN doc(<<>>) ELSE condToMQL(n.where, params)>>
        \o IF options = <<>> THEN <<>> ELSE <<doc(options)>>)

needsPipeline(n) ==
  \/ n.joins # <<>> \/ n.groupBy # <<>> \/ n.distinct \/ n.having # None
  \/ Some(LAMBDA c : c.type = "case" \/ IsAggregate(c) \/ IsWindow(c), n.columns)
  \/ n.where # None /\ hasSubqueryCondition(n.where)

\* A query from a common table expression is that expression's query alone.
RECURSIVE translateSelect(_, _)
translateSelect(n, params) ==
  LET cte == SelectSeq(n.ctes, LAMBDA c : c.name = n.from.name)
  IN  CASE cte # <<>> -> translateSelect(cte[Len(cte)].query, params)
        [] cte = <<>> /\ n.from.subquery # None -> selectFromSubquery(n, params)
        [] cte = <<>> /\ n.from.subquery = None /\ needsPipeline(n) -> selectByPipeline(n, params)
        [] OTHER -> selectByFind(n, params)

-----------------------------------------------------------------------------
(* The other statements.                                                     *)

Index == <<"0", "1", "2", "3">>

\* INSERT ... SELECT runs the select, on the table to insert into.
translateInsert(n, params) ==
  LET Row(row) ==
        LET names == IF n.columns = <<>> THEN SubSeq(Index, 1, Len(row)) ELSE n.columns
        IN  Doc([i \in DOMAIN names |-> entry(names[i], resolveValue(row[i], params))])
  IN  CASE n.select # None -> Command(n.table, "aggregate", <<translateSelect(n.select, params).args[1]>>)
        [] n.select = None /\ Len(n.values) = 1 -> Command(n.table, "insertOne", <<Row(n.values[1])>>)
        [] OTHER -> Command(n.table, "insertMany", <<list(Each(Row, n.values))>>)

filterOf(where, params) == IF where = None THEN doc(<<>>) ELSE condToMQL(where, params)

OpKey == [o \in {"inc", "unset", "push", "pull", "pop", "min", "max", "rename"} |->
  CASE o = "inc" -> "$inc" [] o = "unset" -> "$unset" [] o = "push" -> "$push" [] o = "pull" -> "$pull"
    [] o = "pop" -> "$pop" [] o = "min" -> "$min" [] o = "max" -> "$max" [] o = "rename" -> "$rename"]

\* $set is there even when nothing is set.
translateUpdate(n, params) ==
  LET set == Doc(Each(LAMBDA s : entry(s.column, resolveValue(s.value, params)), n.set))
      Add(entries, o) ==
        LET key == OpKey[o.op]
            before == SelectSeq(entries, LAMBDA e : e.key = key)
            fields == IF before = <<>> THEN <<>> ELSE before[1].is.of
        IN  Set(entries, entry(key, doc(Set(fields, entry(o.field, resolveValue(o.value, params))))))
  IN  Command(n.table, "updateMany",
              <<filterOf(n.where, params), doc(FoldLeft(Add, <<entry("$set", set)>>, n.updateOps))>>)

translateDelete(n, params) == Command(n.table, "deleteMany", <<filterOf(n.where, params)>>)

-----------------------------------------------------------------------------
(* Aggregation pipelines go through stage by stage.                          *)

DollarFunc == [f \in {"sum", "avg", "min", "max", "count", "push", "addToSet", "first", "last"} |->
  CASE f = "sum" -> "$sum" [] f = "avg" -> "$avg" [] f = "min" -> "$min" [] f = "max" -> "$max"
    [] f = "count" -> "$count" [] f = "push" -> "$push" [] f = "addToSet" -> "$addToSet"
    [] f = "first" -> "$first" [] f = "last" -> "$last"]

lookupStage(s, params) ==
  LET Inner(t) == CASE t.stage = "match" -> Wrap("$match", condToMQL(t.condition, params))
                    [] t.stage = "project" -> Wrap("$project", doc(t.fields))
                    [] t.stage = "limit" -> Wrap("$limit", t.count)
                    [] t.stage = "sort" -> Wrap("$sort", orderByToMQL(t.fields))
                    [] OTHER -> Wrap("$limit", Value("0"))
      from == <<entry("from", Value(s.from))>>
      as == <<entry("as", Value(s.as))>>
  IN  IF s.complex
      THEN doc(from \o as \o <<entry("pipeline", list(Each(Inner, s.pipeline)))>>
               \o IF s.let = None THEN <<>> ELSE <<entry("let", s.let)>>)
      ELSE doc(from \o <<entry("localField", Value(s.localField)),
                         entry("foreignField", Value(s.foreignField))>> \o as)

unwindStage(s) ==
  IF ~s.given THEN ref(s.path)
  ELSE doc(<<entry("path", ref(s.path)),
             entry("preserveNullAndEmptyArrays", Value(IF s.preserve THEN "true" ELSE "false"))>>
           \o IF s.index = None THEN <<>> ELSE <<entry("includeArrayIndex", s.index)>>)

stageToMQL(s, params) ==
  CASE s.stage = "match" -> Wrap("$match", condToMQL(s.condition, params))
    [] s.stage = "group" ->
         Wrap("$group", Doc(<<entry("_id", s.id)>>
           \o Each(LAMBDA a : entry(a.key, Wrap(DollarFunc[a.func], ref(a.field))), s.accumulators)))
    [] s.stage = "sort" -> Wrap("$sort", orderByToMQL(s.fields))
    [] s.stage = "limit" -> Wrap("$limit", s.count)
    [] s.stage = "skip" -> Wrap("$skip", s.count)
    [] s.stage = "project" -> Wrap("$project", doc(s.fields))
    [] s.stage = "addFields" -> Wrap("$addFields", doc(s.fields))
    [] s.stage = "sample" -> Wrap("$sample", Wrap("size", s.count))
    [] s.stage = "lookup" -> Wrap("$lookup", lookupStage(s, params))
    [] s.stage = "unwind" -> Wrap("$unwind", unwindStage(s))

translateAggregate(n, params) ==
  Command(n.table, "aggregate", <<list(Each(LAMBDA s : stageToMQL(s, params), n.pipeline))>>)

RECURSIVE Throws(_)
Throws(json) ==
  CASE json.type = "thrown" -> TRUE
    [] json.type = "list" -> \E i \in DOMAIN json.of : Throws(json.of[i])
    [] json.type = "doc" -> \E i \in DOMAIN json.of : Throws(json.of[i].is)
    [] OTHER -> FALSE

commandOf(node, params) ==
  CASE node.type = "select" -> translateSelect(node, params)
    [] node.type = "insert" -> translateInsert(node, params)
    [] node.type = "update" -> translateUpdate(node, params)
    [] node.type = "delete" -> translateDelete(node, params)
    [] node.type = "aggregate" -> translateAggregate(node, params)
    [] OTHER -> Command("", "", <<Thrown>>)

Whole(command) == IF Some(Throws, command.args) THEN Thrown ELSE command

astToMongo(node, params) == Whole(commandOf(node, params))
=============================================================================
