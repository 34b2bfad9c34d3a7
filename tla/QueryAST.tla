------------------------------ MODULE QueryAST ------------------------------
(***************************************************************************)
(* The universal AST (src/ast/ast.ts) that both parsers and the query builder  *)
(* make and the three translators read, and the constructors of                *)
(* src/query/conditions.ts.  A value is what stands in the text of the query;   *)
(* a parameter refers to the values that the caller gives beside it.           *)
(***************************************************************************)
EXTENDS Naturals, Sequences, SequencesExt

\* undefined.  A list that is undefined is <<>>.
None == [type |-> "none"]

\* What a function that throws has instead of a result.
Thrown == [type |-> "thrown"]

Value(v) == [type |-> "value", value |-> v]
Param(i) == [type |-> "param", index |-> i]

col(name, table) == [type |-> "column", name |-> name, table |-> table, alias |-> ""]
alias(column, a) == [type |-> "alias", name |-> column.name, table |-> column.table, alias |-> a]
wildcard == [type |-> "wildcard", alias |-> ""]
lit(v) == [type |-> "literal", value |-> v, alias |-> ""]

func(name, args) ==
  [type |-> "function", func |-> name, distinct |-> FALSE, args |-> args,
   over |-> None, alias |-> ""]

\* The objects of MongoDB: a value, "$name", an array, or the entries of an
\* object in their order.
ref(name) == [type |-> "ref", name |-> name]
list(items) == [type |-> "list", of |-> items]
doc(entries) == [type |-> "doc", of |-> entries]
entry(key, json) == [key |-> key, is |-> json]

table(name, as) == [name |-> name, alias |-> as, subquery |-> None]

Comparisons == {"eq", "neq", "gt", "lt", "gte", "lte"}

compare(type, left, right) == [type |-> type, left |-> left, right |-> right]
like(type, left, pattern, flags) ==
  [type |-> type, left |-> left, pattern |-> pattern, flags |-> flags]
inList(type, left, values) == [type |-> type, left |-> left, values |-> values]
between(left, min, max) == [type |-> "between", left |-> left, min |-> min, max |-> max]
isNull(type, left) == [type |-> type, left |-> left]
and(conditions) == [type |-> "and", conditions |-> conditions]
or(conditions) == [type |-> "or", conditions |-> conditions]
not(condition) == [type |-> "not", condition |-> condition]
expr(left, op, right) == [type |-> "expr", left |-> left, op |-> op, right |-> right]

mod(left, divisor, remainder) ==
  [type |-> "mod", left |-> left, divisor |-> divisor, remainder |-> remainder]
all(left, values) == [type |-> "all", left |-> left, values |-> values]
size(left, count) == [type |-> "size", left |-> left, count |-> count]
typeCheck(left, bsonType) == [type |-> "typeCheck", left |-> left, bsonType |-> bsonType]
elemMatch(left, condition) == [type |-> "elemMatch", left |-> left, condition |-> condition]

orderBy(column, direction) == [column |-> column, direction |-> direction]
-----------------------------------------------------------------------------
(* Sequences.                                                                *)

Each(Op(_), s) == [i \in DOMAIN s |-> Op(s[i])]
=============================================================================
