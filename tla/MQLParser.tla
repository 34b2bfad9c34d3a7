----------------------------- MODULE MQLParser -----------------------------
(***************************************************************************)
(* src/parser/mql-parser.ts: from a method of a MongoDB collection and its      *)
(* arguments to the AST.  Arguments are objects of QueryAST: the entries of an   *)
(* object are in the order of Object.entries().                               *)
(***************************************************************************)
EXTENDS QueryAST

Keys(json) == {json.of[i].key : i \in DOMAIN json.of}
At(json, key) ==
  IF json # None /\ key \in Keys(json)
  THEN SelectSeq(json.of, LAMBDA e : e.key = key)[1].is ELSE None
Truthy(v) == v \notin {None, Value("0"), Value("false")}

Named ==
  [o \in {"$eq", "$ne", "$gt", "$lt", "$gte", "$lte"} |->
     CASE o = "$eq" -> "eq" [] o = "$ne" -> "neq" [] o = "$gt" -> "gt"
       [] o = "$lt" -> "lt" [] o = "$gte" -> "gte" [] o = "$lte" -> "lte"]
Members == {"$in", "$nin"}
Logical == {"$and", "$or", "$nor"}
\* $jsonSchema stands for the operators that the parser does not know.
Others == {"$exists", "$not", "$mod", "$elemMatch", "$all", "$expr", "$size", "$type", "$options", "$jsonSchema"}
IsOperator(key) == key \in DOMAIN Named \cup Members \cup Logical \cup Others \cup {"$regex"}

\* A condition is thrown away with the whole query when a part of it throws.
Whole(type, conditions) ==
  IF \E i \in DOMAIN conditions : conditions[i] = Thrown THEN Thrown
  ELSE [type |-> type, conditions |-> conditions]
Negated(c) == IF c = Thrown THEN Thrown ELSE not(c)

-----------------------------------------------------------------------------
(* Filters.                                                                  *)

RECURSIVE mqlToCondition(_), mqlOperator(_, _)

logical(key, filters) ==
  LET Part(f) == IF key = "$nor" THEN Negated(mqlToCondition(f)) ELSE mqlToCondition(f)
  IN  Whole(IF key = "$or" THEN "or" ELSE "and", Each(Part, filters))

\* An operator that has no name of its own compares as $eq.
exprOf(json) ==
  LET e == json.of[1]
      Side(v) == IF v.type = "ref" THEN col(v.name, "") ELSE lit(v)
  IN  expr(Side(e.is.of[1]), IF e.key \in DOMAIN Named THEN Named[e.key] ELSE "eq", Side(e.is.of[2]))

entryToCondition(e) ==
  IF e.key \in Logical /\ e.is.type = "list" THEN logical(e.key, e.is.of)
  ELSE IF e.key = "$expr" /\ e.is.type = "doc" THEN exprOf(e.is)
  ELSE CASE e.is.type = "doc" -> mqlOperator(col(e.key, ""), e.is)
         [] e.is.type = "list" -> inList("in", col(e.key, ""), e.is.of)
         [] OTHER -> compare("eq", col(e.key, ""), e.is)

\* One condition stands for itself, several for their conjunction.
Conjunction(conditions) ==
  IF Len(conditions) = 1 THEN conditions[1] ELSE Whole("and", conditions)

mqlToCondition(filter) == Conjunction(Each(entryToCondition, filter.of))

\* What the value of $not holds is read as a filter, in which its operator is
\* the name of a column.
operatorCondition(column, op, v) ==
  CASE op \in DOMAIN Named -> compare(Named[op], column, v)
    [] op \in Members -> inList(IF op = "$in" THEN "in" ELSE "notIn", column, v.of)
    [] op = "$exists" -> isNull(IF Truthy(v) THEN "isNotNull" ELSE "isNull", column)
    [] op \in Logical -> logical(op, v.of)
    [] op = "$not" -> Negated(mqlToCondition(v))
    [] op = "$mod" -> IF v.type = "list" /\ Len(v.of) = 2 THEN mod(column, v.of[1], v.of[2])
                      ELSE compare("eq", column, Value("null"))
    [] op = "$elemMatch" -> LET c == mqlToCondition(v)
                            IN  IF c = Thrown THEN Thrown ELSE elemMatch(column, c)
    [] op = "$all" -> all(column, v.of)
    [] op = "$expr" -> exprOf(v)
    [] op = "$size" -> size(column, v)
    [] op = "$type" -> typeCheck(column, v.value)
    [] OTHER -> Thrown

\* $regex leaves nothing of the other operators; $options without it, and a
\* key that is no operator, say nothing.
mqlOperator(column, ops) ==
  LET regex == At(ops, "$regex")
      options == At(ops, "$options")
      told == SelectSeq(ops.of, LAMBDA e : IsOperator(e.key) /\ e.key # "$options")
  IN  IF ops.of = <<>> THEN compare("eq", column, Value("null"))
      ELSE IF regex # None
      THEN like("like", column, regex, IF options = None THEN "" ELSE options.value)
      ELSE Conjunction(Each(LAMBDA e : operatorCondition(column, e.key, e.is), told))

-----------------------------------------------------------------------------
(* Pipelines.                                                                *)

parseSortObj(json) ==
  Each(LAMBDA e : orderBy(col(e.key, ""), IF e.is = Value("-1") THEN "desc" ELSE "asc"), json.of)

Accumulators == {"$sum", "$avg", "$min", "$max", "$count", "$push", "$addToSet", "$first", "$last"}
Func == [a \in Accumulators |->
  CASE a = "$sum" -> "sum" [] a = "$avg" -> "avg" [] a = "$min" -> "min" [] a = "$max" -> "max"
    [] a = "$count" -> "count" [] a = "$push" -> "push" [] a = "$addToSet" -> "addToSet"
    [] a = "$first" -> "first" [] a = "$last" -> "last"]

\* An argument that is not the name of a field becomes the field ROOT.
parseGroupStage(json) ==
  LET id == At(json, "_id")
      Accumulator(e) ==
        LET a == e.is.of[1]
        IN  [key |-> e.key, func |-> IF a.key \in Accumulators THEN Func[a.key] ELSE "count",
             field |-> IF a.is.type = "ref" THEN a.is.name ELSE "ROOT"]
  IN  [stage |-> "group", id |-> IF id \in {None, Value("null")} THEN doc(<<>>) ELSE id,
       accumulators |-> Each(Accumulator, SelectSeq(json.of, LAMBDA e : e.key # "_id"))]

Unknown == [stage |-> "limit", count |-> Value("0")]

\* The stages that a pipeline and the pipeline of a $lookup have in common.
\* A stage of an unknown name, or of none, is taken for a limit of nothing.
simpleStage(json) ==
  LET key == IF json.of = <<>> THEN "" ELSE json.of[1].key
      v == json.of[1].is
  IN  CASE key = "$match" -> [stage |-> "match", condition |-> mqlToCondition(v)]
        [] key = "$project" -> [stage |-> "project", fields |-> v.of]
        [] key = "$limit" -> [stage |-> "limit", count |-> v]
        [] key = "$sort" -> [stage |-> "sort", fields |-> parseSortObj(v)]
        [] OTHER -> Unknown

parseLookupStage(json) ==
  LET pipeline == At(json, "pipeline")
      Name(key) == IF At(json, key) = None THEN "" ELSE At(json, key).value
  IN  [stage |-> "lookup", from |-> Name("from"), as |-> Name("as"), complex |-> pipeline # None,
       let |-> At(json, "let"), localField |-> Name("localField"), foreignField |-> Name("foreignField"),
       pipeline |-> IF pipeline = None THEN <<>> ELSE Each(simpleStage, pipeline.of)]

parseUnwindStage(json) ==
  LET path == IF json.type = "ref" THEN json ELSE At(json, "path")
  IN  [stage |-> "unwind", path |-> path.name,
       given |-> json.type # "ref",
       preserve |-> json.type # "ref" /\ At(json, "preserveNullAndEmptyArrays") = Value("true"),
       index |-> IF json.type = "ref" THEN None ELSE At(json, "includeArrayIndex")]

parseStage(json) ==
  LET key == IF json.of = <<>> THEN "" ELSE json.of[1].key
      v == json.of[1].is
  IN  CASE key = "$group" -> parseGroupStage(v)
        [] key = "$skip" -> [stage |-> "skip", count |-> v]
        [] key = "$lookup" -> parseLookupStage(v)
        [] key = "$unwind" -> parseUnwindStage(v)
        [] key = "$sample" ->
             [stage |-> "sample", count |-> IF At(v, "size") = None THEN Value("1") ELSE At(v, "size")]
        [] key \in {"$addFields", "$set"} -> [stage |-> "addFields", fields |-> v.of]
        [] OTHER -> simpleStage(json)

parseAggregate(collection, stages) ==
  LET pipeline == Each(parseStage, stages)
      Throws(s) == \/ s.stage = "match" /\ s.condition = Thrown
                   \/ s.stage = "lookup" /\ \E i \in DOMAIN s.pipeline :
                        s.pipeline[i].stage = "match" /\ s.pipeline[i].condition = Thrown
  IN  IF \E i \in DOMAIN pipeline : Throws(pipeline[i]) THEN Thrown
      ELSE [type |-> "aggregate", table |-> collection, pipeline |-> pipeline]

-----------------------------------------------------------------------------
(* Methods.                                                                  *)

\* The columns of a projection: the fields that are 1, but _id only if the
\* projection says so itself.
projected(projection) ==
  LET shown == SelectSeq(projection.of, LAMBDA e : e.is = Value("1"))
      named == IF At(projection, "_id") = Value("1") THEN shown
               ELSE SelectSeq(shown, LAMBDA e : e.key # "_id")
  IN  IF shown = <<>> THEN <<wildcard>> ELSE Each(LAMBDA e : col(e.key, ""), named)

parseFind(collection, filter, options) ==
  LET where == IF filter = None \/ filter.of = <<>> THEN None ELSE mqlToCondition(filter)
      projection == At(options, "projection")
      sort == At(options, "sort")
  IN  IF where = Thrown THEN Thrown
      ELSE [type |-> "select", ctes |-> <<>>, distinct |-> FALSE, from |-> table(collection, ""),
            columns |-> IF projection = None THEN <<wildcard>> ELSE projected(projection),
            joins |-> <<>>, where |-> where, groupBy |-> <<>>, having |-> None,
            orderBy |-> IF sort = None THEN <<>> ELSE parseSortObj(sort),
            limit |-> At(options, "limit"), offset |-> At(options, "skip")]

inserted(collection, columns, values) ==
  [type |-> "insert", table |-> collection, columns |-> columns, values |-> values,
   select |-> None, returning |-> <<>>, onConflict |-> None]

\* The columns of all documents are those of the first.
parseInsertMany(collection, docs) ==
  LET columns == IF docs = <<>> THEN <<>> ELSE Each(LAMBDA e : e.key, docs[1].of)
      Row(d) == Each(LAMBDA c : IF At(d, c) = None THEN Value("null") ELSE At(d, c), columns)
  IN  inserted(collection, columns, Each(Row, docs))

UpdateOps == [o \in {"$inc", "$unset", "$push", "$pull", "$pop", "$min", "$max", "$rename"} |->
  CASE o = "$inc" -> "inc" [] o = "$unset" -> "unset" [] o = "$push" -> "push" [] o = "$pull" -> "pull"
    [] o = "$pop" -> "pop" [] o = "$min" -> "min" [] o = "$max" -> "max" [] o = "$rename" -> "rename"]

Assignments(json) == Each(LAMBDA e : [column |-> e.key, value |-> e.is], json.of)

parseUpdate(collection, filter, update) ==
  LET where == mqlToCondition(filter)
      Ops(e) == Each(LAMBDA f : [op |-> UpdateOps[e.key], field |-> f.key, value |-> f.is], e.is.of)
      Set(e) == IF e.key = "$set" THEN Assignments(e.is) ELSE <<[column |-> e.key, value |-> e.is]>>
  IN  IF where = Thrown THEN Thrown
      ELSE [type |-> "update", table |-> collection, where |-> where, returning |-> <<>>,
            set |-> FlattenSeq(Each(Set, SelectSeq(update.of, LAMBDA e : e.key \notin DOMAIN UpdateOps))),
            updateOps |-> FlattenSeq(Each(Ops, SelectSeq(update.of, LAMBDA e : e.key \in DOMAIN UpdateOps)))]

parseDelete(collection, filter) ==
  LET where == mqlToCondition(filter)
  IN  IF where = Thrown THEN Thrown
      ELSE [type |-> "delete", table |-> collection, where |-> where, returning |-> <<>>]

replaced(collection, filter, document) ==
  LET where == mqlToCondition(filter)
  IN  IF where = Thrown THEN Thrown
      ELSE [type |-> "update", table |-> collection, where |-> where, returning |-> <<>>,
            set |-> Assignments(document), updateOps |-> <<>>]

LimitOne(node) == IF node = Thrown THEN Thrown ELSE [node EXCEPT !.limit = Value("1")]

\* An argument that is not given is None.
parseMQL(collection, method, args) ==
  LET a == IF args = <<>> THEN None ELSE args[1]
      b == IF Len(args) < 2 THEN None ELSE args[2]
  IN  CASE method = "find" -> parseFind(collection, a, b)
        [] method = "findOne" -> LimitOne(parseFind(collection, a, b))
        [] method = "findOneAndUpdate" -> LimitOne(parseFind(collection, a, None))
        [] method = "findOneAndDelete" -> parseFind(collection, a, None)
        [] method = "aggregate" -> parseAggregate(collection, a.of)
        [] method = "insertOne" ->
             inserted(collection, Each(LAMBDA e : e.key, a.of), <<Each(LAMBDA e : e.is, a.of)>>)
        [] method = "insertMany" -> parseInsertMany(collection, a.of)
        [] method \in {"updateOne", "updateMany"} -> parseUpdate(collection, a, b)
        [] method \in {"deleteOne", "deleteMany"} -> parseDelete(collection, a)
        [] method = "replaceOne" -> replaced(collection, a, b)
        [] OTHER -> Thrown
=============================================================================
