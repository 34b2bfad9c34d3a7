--------------------------- MODULE MCTranslation ---------------------------
(***************************************************************************)
(* The queries that TLC sends through the translators.  Left out of "about" is   *)
(* what README.md lists as wrong or as without meaning in the other language.   *)
(***************************************************************************)
EXTENDS Translation

Sql(tokens, values, about) == [tokens |-> tokens, values |-> values, about |-> about]
Call(method, args, about) == [method |-> method, args |-> args, about |-> about]
N(n) == Value(n)
One == Value("1")
Two == Value("2")
Params1 == <<One>>
Params2 == <<One, Two>>
Params3 == <<One, Two, Value("3")>>

-----------------------------------------------------------------------------
(* WHERE, of up to three conditions.                                         *)

SelectWhere == <<"select", "*", "from", "t", "where">>

Atoms ==
  {<<"a", "=", "1">>, <<"b", ">", "1">>, <<"a", "in", "(", "1", ",", "2", ")">>,
   <<"b", "between", "1", "and", "2">>, <<"a", "is", "null">>, <<"a", "<>", "2">>, <<"a", "=", "b">>,
   <<"b", "is", "not", "null">>, <<"a", "not", "in", "(", "1", ")">>, <<"a", "<=", "1">>,
   <<"b", "!=", "1">>, <<"b", "<", "2">>, <<"a", ">=", "2">>}
Few ==
  {<<"a", "=", "1">>, <<"b", ">", "1">>, <<"a", "in", "(", "1", ",", "2", ")">>,
   <<"b", "between", "1", "and", "2">>, <<"a", "is", "null">>}
WithNot(atoms) == atoms \cup {<<"not">> \o a : a \in atoms}

Wheres ==
  WithNot(Atoms) \cup {<<"not", "not", "a", "=", "1">>}
  \cup {x \o <<op>> \o y : x \in WithNot(Few), y \in WithNot(Few), op \in {"and", "or"}}
  \cup {x \o <<op1>> \o y \o <<op2>> \o z :
          x \in Few, y \in Few, z \in Few, op1 \in {"and", "or"}, op2 \in {"and", "or"}}

WhereQueries ==
  {Sql(SelectWhere \o w, <<>>, {"rows", "values", "clauses"}) : w \in Wheres}
  \cup {Sql(start \o <<"where">> \o w, <<>>, {"rows", "values"}) :
          start \in {<<"delete", "from", "t">>, <<"update", "t", "set", "b", "=", "1">>,
                     <<"select", "distinct", "a", "from", "t">>}, w \in Atoms}
  \* The caller's values, in the order of the text or by their numbers.
  \cup {Sql(SelectWhere \o w, Params2, {"rows", "values"}) :
          w \in {<<"a", "between", "?", "and", "?">>, <<"a", "in", "(", "?", ",", "?", ")">>,
                 <<"a", "in", "(", "?", ")", "or", "b", "in", "(", "?", ")">>}}
  \cup {Sql(SelectWhere \o w, Params2, {"values"}) :
          w \in {<<"a", "between", "$1", "and", "$2">>, <<"a", "in", "(", "$1", ",", "$2", ")">>,
                \* Out of order, of both kinds, or beside values of the text: for these
                \* BoundInOrder promises nothing.
                <<"a", "between", "$2", "and", "$1">>, <<"a", "between", "$1", "and", "?">>,
                <<"a", "in", "(", "?", ",", "1", ")">>, <<"a", "in", "(", "?", ")", "limit", "2">>}}

-----------------------------------------------------------------------------
(* SELECT, in its clauses.                                                   *)

ClauseQueries ==
  {Sql(<<"select">> \o distinct \o columns \o <<"from", "t">> \o joins \o where \o group \o order \o page,
       <<>>, {"clauses", "values"}) :
     distinct \in {<<>>, <<"distinct">>},
     columns \in {<<"*">>, <<"a", ",", "b", "as", "c">>, <<"a", ",", "count", "(", "b", ")", "as", "n">>},
     joins \in {<<>>, <<"left", "join", "u", "on", "t", ".", "a", "=", "u", ".", "a">>},
     where \in {<<>>, <<"where", "a", "=", "1">>},
     group \in {<<>>, <<"group", "by", "a">>, <<"group", "by", "a", "having", "count", "(", "b", ")", ">", "1">>},
     order \in {<<>>, <<"order", "by", "a", "desc">>},
     page \in {<<>>, <<"limit", "2">>, <<"offset", "1">>, <<"limit", "2", "offset", "1">>}}

-----------------------------------------------------------------------------
(* The other statements of the grammar.                                      *)

Sub == <<"(", "select", "b", "from", "u", "where", "b", "=", "1", ")">>

Bindable ==
  {<<"insert", "into", "t", "(", "id", ",", "a", ")", "values", "(", "1", ",", "2", ")">>,
   <<"insert", "into", "t", "(", "a", ",", "b", ")", "values", "(", "1", ",", "2", ")", ",", "(", "3", ",", "'x'", ")", "returning", "id">>,
   <<"insert", "into", "t", "values", "(", "1", ",", "'x'", ")", "on", "conflict", "do", "nothing">>,
   <<"insert", "into", "t", "values", "(", "'x'", ")">>,
   <<"insert", "into", "t", "(", "id", ",", "a", ")", "values", "(", "1", ",", "2", ")", "on", "conflict", "(", "id", ")",
     "do", "update", "set", "a", "=", "excluded", ".", "a", ",", "b", "=", "excluded", ".", "b">>,
   <<"insert", "into", "t", "(", "a", ")", "values", "(", "1", ")", "on", "duplicate", "key", "update", "a", "=", "values", "(", "a", ")">>,
   <<"insert", "into", "t", "(", "a", ")", "values", "(", "1", ")", "on", "id">>,
   <<"insert", "into", "t", "(", "a", ")", "values", "(", "1", ")", "on", "conflict", "id">>,
   <<"insert", "into", "t", "(", "a", ")", "values", "(", "1", ")", "on", "conflict", "do", "set">>,
   <<"insert", "into", "t", "select", "a", "from", "u">>,
   <<"update", "t", "set", "a", "=", "1", ",", "b", "=", "'x'", "where", "a", "between", "1", "and", "2", "returning", "id">>,
   <<"update", "t", "set", "a", "=", "1", "where", "a", "in", "(", "1", ",", "2", ")", "and", "b", "=", "3">>,
   <<"delete", "from", "t", "where", "a", "between", "1", "and", "2", "returning", "a">>,
   <<"delete", "from", "t">>,
   SelectWhere \o <<"a", "in", "(", "'case'", ",", "'select'", ")">>,
   <<"insert", "into", "t", "values", "(", "'case'", ")">>,
   <<"create", "table", "if", "not", "exists", "t", "(", "id", "integer", "primary", "key", ",", "a", "text", "not", "null",
     "unique", "default", "'x'", ",", "b", "integer", "default", "1", ")">>,
   <<"create", "unique", "index", "i", "on", "t", "(", "a", "desc", ",", "b", ")">>,
   <<"create", "index", "if", "not", "exists", "i", "on", "t", "(", "a", ")">>,
   <<"drop", "table", "if", "exists", "t">>, <<"drop", "index", "i">>, <<"explain">>, <<"begin">>,
   <<"select", "a", "as", "b", ",", "a", "+", "b", "as", "c", ",", "t", ".", "a", "x", "from", "t", "z", "where", "a", "like", "'x'">>,
   <<"select", "row_number", "(", ")", "over", "(", "partition", "by", "a", "order", "by", "b", "desc", ")", "as", "n",
     "from", "t", "where", "a", "=", "1", "limit", "2">>,
   <<"select", "sum", "(", "distinct", "a", ")", "from", "t", "where", "b", "not", "like", "'x'">>,
   <<"select", "count", "(", "*", ")", "over", "(", ")", "from", "t">>,
   <<"select", "case", "when", "a", "=", "1", "then", "2", "else", "3", "end", "as", "c", "from", "t", "where", "b", "=", "2">>,
   <<"with", "c", "as", "(", "select", "a", "from", "u", "where", "b", "=", "1", ")", "select", "*", "from", "c", "where", "a", "=", "2">>,
   <<"select", "x", "from", "(", "select", "a", "as", "x", "from", "u", "where", "a", "=", "1", "order", "by", "a", "limit", "2",
     "offset", "1", ")", "as", "s", "where", "x", "=", "3">>,
   <<"select", "*", "from", "t", "join", "u", "on", "a", "=", "2", "where", "b", "=", "1">>,
   <<"select", "*", "from", "t", "right", "join", "u", "v", "on", "t", ".", "a", "=", "v", ".", "b", "full", "join", "w", "on", "a", "<", "b",
     "cross", "join", "x", "natural", "join", "y", "where", "a", "=", "1">>}

\* Statements whose values the translators are known to misplace, or that are
\* not of the grammar.
Unbindable ==
  {SelectWhere \o <<"a", "in">> \o Sub, SelectWhere \o <<"b", "=", "1", "or", "a", "not", "in">> \o Sub,
   SelectWhere \o <<"exists">> \o Sub \o <<"and", "a", "=", "1">>, SelectWhere \o <<"not", "exists">> \o Sub,
   SelectWhere \o <<"exists", "(", "select", "*", "from", "u", "where", "t", ".", "a", "=", "1", ")">>,
   SelectWhere \o <<"a", ">">> \o Sub,
   SelectWhere \o <<"1", "=", "1">>,
   SelectWhere \o <<"case", "a", "when", "b", "then", "2", "end", "=", "1">>,
   <<"select", "a", "from", "t", "union", "all", "select", "b", "from", "u", "where", "b", "=", "1">>,
   <<"select", "a", "from", "t", "intersect", "select", "b", "from", "u">>,
   <<"insert", "into", "t", "select", "a", "from", "u", "where", "a", "=", "1">>,
   <<"with", "c", "(", "a", ")", "as", "(", "select", "a", "from", "u", ")", ",", "d", "as", "(", "select", "b", "from", "u", ")",
     "select", "*", "from", "t">>,
   <<"select", "case", "a", "when", "b", "then", "2", "end", "from", "t">>,
   <<"select", "case", "when", "a", "=", "1", "and", "b", "=", "2", "then", "b", "end", "from", "t">>,
   <<"select", "1", ",", "'x'", "from", "t">>,
   <<"select", "*", "from", "t", "inner", "join", "u", "on", "a", "=", "1">>,
   SelectWhere \o <<"(", "a", "=", "1", ")">>, SelectWhere \o <<"a", "=", "?">>, SelectWhere \o <<"a">>,
   SelectWhere \o <<"a", "=", "1", "+", "2">>, SelectWhere \o <<"a", "in", "between", "1", "and", "2">>,
   \* Strings that the parser takes for keywords.
   SelectWhere \o <<"a", "=", "'case'">>, SelectWhere \o <<"a", "in", "(", "'select'", ")">>,
   <<"select", "'case'", "from", "t">>,
   <<"vacuum">>, <<"select">>, <<"commit">>}

StatementQueries ==
  {Sql(ts, <<>>, {"values"}) : ts \in Bindable} \cup {Sql(ts, <<>>, {}) : ts \in Unbindable}
  \cup {Sql(<<"insert", "into", "t", "(", "id", ",", "a", ")", "values", "(", "?", ",", "?", ")">>, Params2, {"values"}),
        Sql(<<"update", "t", "set", "a", "=", "?", ",", "b", "=", "?", "where", "a", "in", "(", "?", ")">>, Params3, {"values"}),
        Sql(SelectWhere \o <<"a", "like", "?", "or", "a", "not", "like", "?">>, Params2, {"values"}),
        \* The caller has given fewer values than the text has parameters.
        Sql(SelectWhere \o <<"a", "between", "?", "and", "?">>, Params1, {"values"})}

-----------------------------------------------------------------------------
(* Statements that name rows by their ids.                                   *)

IdQueries ==
  {Sql(start \o <<"where", "id">> \o which, <<>>, {"ids", "values"}) :
     start \in {<<"select", "*", "from", "t">>, <<"delete", "from", "t">>, <<"update", "t", "set", "a", "=", "1">>},
     which \in {<<"=", "1">>, <<"=", "2">>, <<"in", "(", "2", ")">>, <<"in", "(", "1", ",", "2", ")">>,
                <<"in", "(", "3", ",", "1", ")">>}}
  \cup {Sql(<<"select", "*", "from", "t", "order", "by", "a", "desc", "limit", "2">>, <<>>, {"clauses"})}

SQLQueries == WhereQueries \cup ClauseQueries \cup StatementQueries \cup IdQueries

-----------------------------------------------------------------------------
(* Calls of MongoDB methods.                                                 *)

Obj(key, json) == doc(<<entry(key, json)>>)
Obj2(key1, json1, key2, json2) == doc(<<entry(key1, json1), entry(key2, json2)>>)
Op(field, op, json) == entry(field, Obj(op, json))

Entries ==
  {entry("a", One), Op("b", "$gt", One), entry("a", Obj2("$gte", One, "$lte", Two)),
   Op("b", "$in", list(<<One, Two>>)), Op("a", "$exists", One), Op("b", "$exists", Value("0")),
   Op("a", "$ne", Two), Op("b", "$nin", list(<<One>>)), Op("a", "$mod", list(<<Two, One>>)),
   Op("b", "$lt", Two), Op("a", "$eq", Two)}
Simple == {doc(<<e>>) : e \in Entries}
Pairs == {doc(<<e, f>>) : e \in Entries, f \in {g \in Entries : g.key = "b"}}
FewFilters ==
  {Obj("a", One), Obj("b", Obj("$gt", One)), Obj("a", Obj2("$gte", One, "$lte", Two)),
   Obj("b", Obj("$in", list(<<One, Two>>))), Obj("$expr", Obj("$gt", list(<<ref("a"), ref("b")>>)))}
Combined ==
  {Obj(op, list(<<f, g>>)) : op \in {"$and", "$or", "$nor"}, f \in FewFilters, g \in FewFilters}
Filters ==
  Simple \cup Pairs \cup Combined
  \cup {doc(c.of \o f.of) : c \in Combined, f \in {Obj("a", One), Obj("b", Obj("$ne", One))}}
  \cup {Obj(op, list(<<Obj("a", One), c>>)) : op \in {"$and", "$or", "$nor"}, c \in Combined}

\* Conditions without a counterpart, and what the parser mistakes.
OddFilters ==
  {Obj("a", Obj("$elemMatch", Obj("b", One))), Obj("a", Obj("$elemMatch", Obj("b", Obj("$exists", One)))),
   Obj("a", Obj("$all", list(<<One, Two>>))), Obj("a", Obj("$size", Two)), Obj("a", Obj("$type", Value("string"))),
   Obj("a", Obj("$not", Obj("$gt", One))), Obj("a", doc(<<>>)), Obj("a", list(<<One, Two>>)),
   Obj("a", Obj("$mod", One)), Obj("a", Obj("$jsonSchema", One)), Obj("$or", list(<<Obj("a", Obj("$jsonSchema", One))>>)),
   Obj("$nor", list(<<Obj("a", Obj("$jsonSchema", One))>>)), Obj("a", Obj("$elemMatch", Obj("b", Obj("$jsonSchema", One)))),
   Obj("a", Obj2("$regex", Value("^x.*$"), "$options", Value("i"))), Obj("a", Obj("$options", Value("i"))),
   Obj("a", Obj("$or", list(<<Obj("b", One), Obj("a", One)>>))), Obj("a", Obj("$expr", Obj("$eq", list(<<ref("a"), ref("b")>>)))),
   Obj("$expr", Obj("$cmp", list(<<ref("a"), One>>)))}

\* What the translators take of these with all values in their places.
OddBound ==
  {Obj("a", Obj("$size", Two)), Obj("a", Obj("$type", Value("string"))), Obj("a", Obj("$regex", Value("^x.y$"))),
   Obj("a", Obj2("$regex", Value("^x.*$"), "$options", Value("i"))), Obj("a", Obj("$all", list(<<One, Two>>))),
   Obj("a", Obj("$elemMatch", Obj("b", One)))}

FindOptions ==
  {doc(p \o s \o l \o k) :
     p \in {<<>>, <<entry("projection", Obj2("a", One, "_id", Value("0")))>>,
            <<entry("projection", Obj2("_id", One, "a", One))>>, <<entry("projection", Obj("a", Value("0")))>>},
     s \in {<<>>, <<entry("sort", Obj2("a", Value("-1"), "b", One))>>},
     l \in {<<>>, <<entry("limit", Two)>>}, k \in {<<>>, <<entry("skip", One)>>}}

FindCalls ==
  {Call("find", <<f>>, {"rows", "values", "clauses"}) : f \in Filters}
  \cup {Call(m, <<f>>, {"rows", "values"}) : m \in {"deleteMany", "findOneAndDelete"}, f \in Simple}
  \cup {Call("updateMany", <<f, Obj("$set", Obj("a", One))>>, {"rows", "values"}) : f \in Simple}
  \cup {Call("aggregate", <<list(<<Obj("$match", f)>>)>>, {"rows", "values"}) : f \in Simple \cup Combined}
  \cup {Call("find", <<f>>, {}) : f \in OddFilters} \cup {Call("find", <<f>>, {"values"}) : f \in OddBound}
  \cup {Call("find", <<Obj("b", One), o>>, {"rows", "values", "clauses"}) : o \in FindOptions}
  \cup {Call(m, <<f>>, {"ids", "values"}) : m \in {"find", "deleteOne"},
          f \in {Obj("id", One), Obj("id", Obj("$in", list(<<One, Two>>))), Obj("id", Obj("$eq", Two))}}

Stages ==
  {Obj("$match", Obj("a", Obj2("$gte", One, "$lte", Two))), Obj("$sort", Obj("a", Value("-1"))), Obj("$limit", Two),
   Obj("$skip", One), Obj("$set", Obj("c", Obj("$add", list(<<ref("a"), One>>)))),
   Obj("$project", Obj2("a", One, "c", Obj("$toUpper", ref("b")))), Obj("$sample", Obj("size", Two)),
   Obj("$lookup", doc(<<entry("from", Value("u")), entry("localField", Value("a")), entry("foreignField", Value("b")),
                        entry("as", Value("c"))>>)),
   Obj("$group", doc(<<entry("_id", Obj("k", ref("a"))), entry("n", Obj("$sum", ref("b"))),
                       entry("f", Obj("$first", ref("b"))), entry("l", Obj("$push", ref("b")))>>)),
   Obj("$unwind", ref("b"))}
OddStages ==
  {Obj("$unwind", doc(<<entry("path", ref("b")), entry("preserveNullAndEmptyArrays", Value("true")),
                        entry("includeArrayIndex", Value("i"))>>)),
   Obj("$group", doc(<<entry("_id", ref("a")), entry("n", Obj("$count", doc(<<>>))), entry("m", Obj("$addToSet", ref("b"))),
                       entry("x", Obj("$stdDev", ref("b"))), entry("l", Obj("$last", ref("b")))>>)),
   Obj("$group", doc(<<entry("_id", Value("null")), entry("n", Obj("$avg", ref("b"))), entry("f", Obj("$first", ref("b")))>>)),
   Obj("$sample", doc(<<>>)), Obj("$out", Value("u")), doc(<<>>), Obj("$addFields", Obj("c", One)),
   Obj("$project", Obj2("a", Value("0"), "c", Obj("$concat", list(<<ref("a"), ref("b")>>)))),
   Obj("$match", Obj("a", Obj("$jsonSchema", One))),
   Obj("$lookup", doc(<<entry("from", Value("u")), entry("let", Obj("v", ref("a"))), entry("as", Value("c")),
                        entry("pipeline", list(<<Obj("$match", Obj("b", One)), Obj("$project", Obj("b", One)),
                          Obj("$sort", Obj("b", One)), Obj("$limit", One), Obj("$out", Value("u"))>>))>>)),
   Obj("$lookup", doc(<<entry("from", Value("u")), entry("as", Value("c")),
                        entry("pipeline", list(<<Obj("$match", Obj("a", Obj("$jsonSchema", One)))>>))>>))}

Pipelines == {<<x>> : x \in Stages} \cup {<<x, y>> : x \in Stages, y \in Stages}
  \cup {<<Obj("$sort", Obj("a", One)), x, y>> : x \in Stages, y \in Stages}
PipelineCalls ==
  {Call("aggregate", <<list(p)>>, {"values", "clauses"}) : p \in Pipelines}
  \cup {Call("aggregate", <<list(<<x, y>>)>>, {}) : x \in OddStages, y \in OddStages}

WriteCalls ==
  {Call("insertOne", <<Obj2("id", One, "a", Value("'x'"))>>, {"values"}),
   Call("insertOne", <<Obj2("a", One, "b", Two)>>, {"values"}),
   Call("insertOne", <<doc(<<entry("a", One), entry("b", Two), entry("c", One)>>)>>, {"values"}),
   Call("insertMany", <<list(<<Obj2("a", One, "b", Two), Obj("b", One)>>)>>, {"values"}),
   Call("insertMany", <<list(<<>>)>>, {"values"}),
   Call("replaceOne", <<Obj("id", One), Obj2("a", One, "b", Two)>>, {"values"}),
   Call("findOne", <<Obj("id", One)>>, {"rows", "values"}), Call("find", <<>>, {"rows", "values"}),
   Call("findOneAndUpdate", <<Obj("id", One), Obj("$set", Obj("a", One))>>, {"rows", "values"}),
   Call("deleteOne", <<Obj("a", Obj("$jsonSchema", One))>>, {}), Call("updateOne", <<Obj("a", Obj("$jsonSchema", One)), doc(<<>>)>>, {}),
   Call("replaceOne", <<Obj("a", Obj("$jsonSchema", One)), doc(<<>>)>>, {}),
   Call("findOne", <<Obj("a", Obj("$jsonSchema", One))>>, {}), Call("distinct", <<>>, {})}
  \cup {Call("updateOne", <<Obj("id", One), doc(<<entry(o, Obj2("a", One, "b", Two)), entry("$set", Obj("a", Two))>>)>>, {"values"}) :
          o \in {"$inc", "$unset", "$push", "$pull", "$pop", "$min", "$max", "$rename", "$mul"}}
  \cup {Call("updateOne", <<Obj("id", One), doc(<<entry("$inc", Obj("a", One)), entry("$push", Obj("b", Two)), entry("a", One)>>)>>, {"values"})}

MQLCalls == FindCalls \cup PipelineCalls \cup WriteCalls

-----------------------------------------------------------------------------
(* Trees of the query builder.                                               *)

A == col("a", "")
B == col("b", "")
Leaves ==
  {compare("eq", A, One), compare("lte", B, One), between(B, One, Two), inList("in", A, <<One, Two>>),
   inList("notIn", B, <<One>>), isNull("isNull", A), isNull("isNotNull", B), compare("neq", A, Two)}
Inner == Leaves \cup {not(c) : c \in Leaves} \cup {or(<<c, compare("eq", B, Two)>>) : c \in Leaves}
         \cup {and(<<c, compare("gt", B, One)>>) : c \in Leaves}
Conditions ==
  Inner \cup {not(c) : c \in Inner} \cup {and(<<compare("gt", B, One), c>>) : c \in Inner}
  \cup {or(<<c, compare("gt", A, One), compare("lt", B, Two)>>) : c \in Inner}
BuiltTrees == {[condition |-> c, about |-> {"rows", "values"}] : c \in Conditions}
=============================================================================
