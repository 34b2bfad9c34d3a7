---------------------------- MODULE Translation ----------------------------
(***************************************************************************)
(* A query on its way from one language to another: it is written in SQL, as a   *)
(* call of a MongoDB method or as a tree of the query builder; a parser makes    *)
(* the AST of it; a translator makes the statement of another database.  What    *)
(* the statement asks of that database must be what the query asks.            *)
(***************************************************************************)
EXTENDS Databases, ToSQL

SQL == INSTANCE SQLParser
MQL == INSTANCE MQLParser
Mongo == INSTANCE ToMongo
Redis == INSTANCE ToRedis

CONSTANTS
  Statements,  \* SQL: [tokens, values, about]
  Calls,       \* MongoDB: [method, args, about]
  Trees        \* conditions of the query builder: [condition, about]

\* "about" is what of a query the properties look at: the rows that it selects,
\* the values that are bound, the order of its clauses, the ids that it names.

VARIABLES
  source,  \* the query
  node,    \* its AST: None before it is parsed, Thrown after a ParseError
  unread,  \* the tokens that the parser has left
  out      \* the statement: None before the translation, or what it has made

vars == <<source, node, unread, out>>

Dialects == {"sqlite", "mysql", "postgresql"}

Init ==
  /\ \/ \E s \in Statements : source = s @@ [lang |-> "sql"]
     \/ \E c \in Calls : source = c @@ [lang |-> "mql"]
     \/ \E t \in Trees : source = t @@ [lang |-> "tree"]
  /\ node = None
  /\ unread = <<>>
  /\ out = None

Reads(p) ==
  /\ node' = IF p.ok THEN p.node ELSE Thrown
  /\ unread' = p.ts

ParseSQL ==
  /\ source.lang = "sql" /\ node = None
  /\ Reads(SQL!parseSQL(source.tokens))
  /\ UNCHANGED <<source, out>>

ParseMQL ==
  /\ source.lang = "mql" /\ node = None
  /\ node' = MQL!parseMQL("t", source.method, source.args)
  /\ UNCHANGED <<source, unread, out>>

\* A condition of the builder stands in the WHERE of a SELECT of everything.
Build ==
  /\ source.lang = "tree" /\ node = None
  /\ node' = [MQL!parseFind("t", None, None) EXCEPT !.where = source.condition]
  /\ UNCHANGED <<source, unread, out>>

Parsed == node \notin {None, Thrown} /\ out = None

Values == IF source.lang = "sql" THEN source.values ELSE <<>>

\* The placeholders of the text are filled from the parameters the translator
\* returns; the values of parameters that stood in the query are the caller's.
Statement(piece) ==
  [text |-> piece.text, means |-> piece.means,
   params |-> Params(piece.does), made |-> Made(piece.does)]

Gives(made, to) == out' = IF made = Thrown THEN Thrown ELSE made @@ [to |-> to]

TranslateToSQL(d) ==
  /\ Parsed
  /\ Gives(Statement(astToSQL(node, d)), d)
  /\ UNCHANGED <<source, node, unread>>

TranslateToMongo ==
  /\ Parsed
  /\ Gives(Mongo!astToMongo(node, Values), "mongodb")
  /\ UNCHANGED <<source, node, unread>>

TranslateToRedis ==
  /\ Parsed
  /\ Gives(Redis!astToRedis(node), "redis")
  /\ UNCHANGED <<source, node, unread>>

Next ==
  \/ ParseSQL \/ ParseMQL \/ Build
  \/ \E d \in Dialects : TranslateToSQL(d)
  \/ TranslateToMongo \/ TranslateToRedis

Spec == Init /\ [][Next]_vars
-----------------------------------------------------------------------------
HasOut == out \notin {None, Thrown}
About(what) == HasOut /\ what \in source.about

(* Rows.                                                                     *)

Rows == {r \in [Columns -> {"null", "1", "2"}] : r["id"] = "1"}

\* A condition that no null makes unknown where a filter of MongoDB is true, or
\* the other way round: SQL's third truth value shows behind a negation only,
\* and MongoDB compares nulls like any value in an expression.
RECURSIVE NullSafe(_)
NullSafe(c) ==
  CASE c.type \in {"neq", "notIn", "not", "expr"} -> FALSE
    [] c.type \in {"and", "or"} -> \A i \in DOMAIN c.conditions : NullSafe(c.conditions[i])
    [] OTHER -> TRUE

Condition ==
  IF node.type = "aggregate" THEN node.pipeline[1].condition
  ELSE IF node.where = None THEN and(<<>>) ELSE node.where

FilterOf(method, args) ==
  IF args = <<>> THEN doc(<<>>) ELSE IF method # "aggregate" THEN args[1]
  ELSE LET stages == SelectSeq(args[1].of, LAMBDA s : s.of[1].key = "$match")
       IN  IF stages = <<>> THEN doc(<<>>) ELSE stages[1].of[1].is

TextSelects(text, values, row) == Truth(Behind(Filled(text, values), "where"), row) = True

Asked(row) ==
  CASE source.lang = "sql" -> TextSelects(source.tokens, source.values, row)
    [] source.lang = "mql" -> Matches(FilterOf(source.method, source.args), row)
    [] source.lang = "tree" -> Says(source.condition, row) = True

Selected(row) ==
  CASE out.to = "mongodb" -> Matches(FilterOf(out.method, out.args), row)
    [] out.to \in Dialects ->
         TextSelects(out.text, IF out.params = <<>> THEN Values ELSE out.params, row)

\* The statement selects the rows that the query selects, and nothing of the
\* query is left unread: AND and OR, NOT, BETWEEN and IN mean in the other
\* language, and with the parentheses that the translator puts, what they meant
\* in the first one.  Between SQL and MongoDB, rows with nulls count where the two
\* agree on nulls.
SameRows ==
  /\ "rows" \in source.about => node # Thrown /\ unread = <<>>
  /\ About("rows") /\ out.to \in {"sqlite", "mongodb"} =>
       \A row \in Rows :
         \/ /\ (source.lang = "mql") # (out.to = "mongodb")
            /\ ~NullSafe(Condition)
            /\ \E c \in Columns : row[c] = "null"
         \/ Asked(row) = Selected(row)

(* Values.                                                                   *)

Parameters ==
  IF source.lang = "sql" THEN SelectSeq(source.tokens, LAMBDA t : SQL!tokenType(t) = "param") ELSE <<>>

\* The parameters come in the order of the text, by place or by number, and the
\* text has no values of its own.  ph() numbers anew in the order of the text, and
\* pushVal() returns the values of the text but not those of the caller: without
\* this the placeholders do not agree with any list of values.
ByCallerAlone ==
  /\ \/ \A i \in DOMAIN Parameters : Parameters[i] = "?"
     \/ \A i \in DOMAIN Parameters :
          Parameters[i] \in DOMAIN SQL!Numbered /\ SQL!Numbered[Parameters[i]] = i
  /\ \A i \in DOMAIN source.tokens : SQL!tokenType(source.tokens[i]) \notin {"number", "string"}

\* Every placeholder gets the value that stands for it in the query, although
\* text and values are made in different orders by twenty functions: with "?" the
\* order of the values is that of the text, with "$n" the number leads to the
\* value.  If the query has parameters this holds for the caller's values, provided
\* that they are the only ones and are numbered in the order of the text.
BoundInOrder ==
  About("values") /\ out.to \in Dialects =>
    IF Parameters # <<>>
    THEN ByCallerAlone =>
         /\ out.params = <<>>
         /\ out.means = [i \in DOMAIN Parameters |-> Param(i - 1)]
         /\ \A i \in DOMAIN out.made : out.made[i].value = Param(out.made[i].number - 1)
    ELSE /\ out.params = out.means
         /\ \A i \in DOMAIN out.made :
              /\ out.made[i].number \in DOMAIN out.params
              /\ out.params[out.made[i].number] = out.made[i].value

(* Clauses.                                                                  *)

ClauseWords(ts) ==
  LET at == {i \in DOMAIN ts : ts[i] \in Clauses /\ Depth(ts, i) = 0}
  IN  Each(LAMBDA i : ts[i], InTextOrder(at, ts))

Has(ts, word) == word \in Range(ClauseWords(ts))
Aggregate(ts) == \E i \in 2..Len(ts) : ts[i] = "(" /\ ts[i - 1] \in {"count", "sum"}

StageOf == [w \in {"join", "where", "group", "having", "order", "offset", "limit"} |->
  CASE w = "join" -> "$lookup" [] w \in {"where", "having"} -> "$match" [] w = "group" -> "$group"
    [] w = "order" -> "$sort" [] w = "offset" -> "$skip" [] w = "limit" -> "$limit"]

\* The stages of a SELECT in the order in which SQL takes its clauses.
StagesAsked(ts) ==
  LET grouped == Has(ts, "group") \/ Has(ts, "distinct") \/ Aggregate(Behind(ts, "select"))
      there == SelectSeq(<<"join", "where", "group", "having", "order", "offset", "limit">>,
                         LAMBDA w : IF w = "group" THEN grouped ELSE Has(ts, w))
  IN  Each(LAMBDA w : StageOf[w], there)

StageKeys(args) ==
  Each(LAMBDA s : IF s.of[1].key = "$set" THEN "$addFields" ELSE s.of[1].key, args[1].of)
WithoutProject(keys) == SelectSeq(keys, LAMBDA k : k # "$project")

\* $project takes away the fields that the stages before it read.
ProjectsLast(keys) ==
  \A i \in DOMAIN keys : \A j \in i + 1 .. Len(keys) :
    keys[i] = "$project" => keys[j] \in {"$skip", "$limit"}

\* A find takes sort, skip and limit in this order, whatever their own.
Options(args) == IF Len(args) < 2 THEN {} ELSE {args[2].of[i].key : i \in DOMAIN args[2].of} \ {"projection"}
OptionsAsked(ts) ==
  {CASE w = "order" -> "sort" [] w = "limit" -> "limit" [] w = "offset" -> "skip" :
     w \in {"order", "limit", "offset"} \cap Range(ClauseWords(ts))}
WordsAsked(options) ==
  SelectSeq(<<"sort", "limit", "skip">>, LAMBDA o : o \in options)

\* No clause is lost on the way, and the clauses are taken in the order that
\* gives them their meaning: rows are joined before they are selected, grouped
\* before HAVING, sorted before the page is cut, and the page is moved before it is
\* cut; columns are taken away when no clause needs them any more.  (A pipeline in
\* SQL is one SELECT, which has one place for each clause.)
ClausesInOrder ==
  About("clauses") /\ out.to # "redis" =>
    CASE source.lang = "sql" /\ out.to \in Dialects -> ClauseWords(out.text) = ClauseWords(source.tokens)
      [] source.lang = "sql" /\ out.to = "mongodb" ->
           IF out.method = "aggregate"
           THEN /\ WithoutProject(StageKeys(out.args)) = StagesAsked(source.tokens)
                /\ ProjectsLast(StageKeys(out.args))
           ELSE Options(out.args) = OptionsAsked(source.tokens)
      [] source.lang = "mql" /\ out.to \in Dialects /\ source.method # "aggregate" ->
           SelectSeq(ClauseWords(out.text), LAMBDA w : w \in {"order", "limit", "offset"}) =
             Each(LAMBDA o : CASE o = "sort" -> "order" [] o = "skip" -> "offset" [] OTHER -> o,
                  WordsAsked(Options(source.args)))
      [] source.lang = "mql" /\ out.to = "mongodb" ->
           IF out.method = "aggregate" THEN StageKeys(out.args) = StageKeys(source.args)
           ELSE Options(out.args) = Options(source.args)
      [] OTHER -> TRUE

(* Ids.                                                                      *)

Ids == {"1", "2", "3"}
Named(id) ==
  LET row == [a |-> "null", b |-> "null", id |-> id]
  IN  Asked(row)

\* A Redis command that reads, writes or deletes rows by their keys has the key
\* of every row that the query names by its id, and no other.
OnlyNamedRows ==
  About("ids") /\ out.to = "redis" /\ out.command # "PING" =>
    Range(out.keys) = {<<"t", Value(id)>> : id \in {i \in Ids : Named(i)}}
=============================================================================
