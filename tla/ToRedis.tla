------------------------------ MODULE ToRedis ------------------------------
(***************************************************************************)
(* src/translator/to-redis.ts: from the AST to one Redis command.  The key       *)
(* "table:id" is the pair <<table, id>>, with "*" for the pattern of all keys.  *)
(***************************************************************************)
EXTENDS QueryAST

RedisCommand(command, keys, args) ==
  [command |-> command, keys |-> keys, args |-> args]
Ping == RedisCommand("PING", <<>>, <<>>)

\* String() of a parameter is that of any object: its value is not looked up.
String(v) == IF v.type = "param" THEN Value("[object Object]") ELSE v
NumberValues == {Value(n) : n \in {"0", "1", "2", "3"}}

Key(table_, id) == <<table_, String(id)>>
Keys(table_, values) == Each(LAMBDA v : Key(table_, v), values)

NamesId(c, types) == c.type \in types /\ c.left.type \in {"column", "alias"} /\ c.left.name = "id"

\* An index is read in pages when there is an order and a limit; anything else
\* reads all keys of the table.
translateSelect(n) ==
  LET t == n.from.name
      order == n.orderBy[1]
  IN  CASE NamesId(n.where, {"eq"}) -> RedisCommand("HGETALL", <<Key(t, n.where.right)>>, <<>>)
        [] NamesId(n.where, {"in"}) ->
             RedisCommand(IF Len(n.where.values) = 1 THEN "HGETALL" ELSE "PIPELINE",
                          Keys(t, n.where.values), <<>>)
        [] ~NamesId(n.where, {"eq", "in"}) /\ n.orderBy # <<>> /\ n.limit \notin {None, Value("0")} ->
             RedisCommand(IF order.direction = "desc" THEN "ZREVRANGE" ELSE "ZRANGE",
                          <<Key(t, IF order.column.type \in {"column", "alias"}
                                   THEN Value(order.column.name) ELSE Value("score"))>>,
                          <<IF n.offset = None THEN Value("0") ELSE n.offset, n.limit>>)
        [] OTHER -> RedisCommand("SCAN", <<Key(t, Value("*"))>>, <<>>)

\* Only the first row is written: as a hash under its id, as a string when there
\* are two columns, as a member of a sorted set when the second value is a number.
translateInsert(n) ==
  LET row == n.values[1]
      cols == n.columns
      at == SelectInSeq(cols, LAMBDA c : c = "id")
      rest == SelectSeq([i \in DOMAIN cols |-> <<Value(cols[i]), row[i]>>], LAMBDA f : f[1] # Value("id"))
      first == [i \in 1..(IF Len(cols) < Len(row) THEN Len(cols) ELSE Len(row)) |-> <<Value(cols[i]), row[i]>>]
  IN  IF n.values = <<>> THEN Ping
      ELSE IF Len(cols) >= 2 /\ at # 0 THEN RedisCommand("HSET", <<Key(n.table, row[at])>>, FlattenSeq(rest))
      ELSE IF Len(cols) = 2 /\ Len(row) = 2 THEN RedisCommand("SET", <<Key(n.table, row[1])>>, <<row[2]>>)
      ELSE IF Len(row) >= 2 /\ row[2] \in NumberValues
           THEN RedisCommand("ZADD", <<Key(n.table, Value("score"))>>, <<row[2], row[1]>>)
      ELSE IF cols = <<>> /\ Len(row) >= 2 THEN RedisCommand("SET", <<Key(n.table, row[1])>>, <<row[2]>>)
      ELSE RedisCommand("HSET", <<Key(n.table, Value("0"))>>, FlattenSeq(first))

\* BUG: several ids are one deletion of the first.
deleteFirst(n) ==
  CASE n.where.type = "eq" -> RedisCommand("DEL", <<Key(n.table, n.where.right)>>, <<>>)
    [] n.where.type = "in" -> RedisCommand("DEL", <<Key(n.table, n.where.values[1])>>, <<>>)
    [] OTHER -> RedisCommand("DEL", <<Key(n.table, Value("*"))>>, <<>>)

\* The value that any column is compared with is taken for the id.
translateUpdate(n) ==
  IF n.where.type # "eq" THEN Ping
  ELSE RedisCommand("HSET", <<Key(n.table, n.where.right)>>,
                    FlattenSeq(Each(LAMBDA s : <<Value(s.column), s.value>>, n.set)))

translateDelete(n) ==
  CASE n.where.type = "eq" -> RedisCommand("DEL", <<Key(n.table, n.where.right)>>, <<>>)
    [] n.where.type = "in" -> RedisCommand("DEL", Keys(n.table, n.where.values), <<>>)
    [] OTHER -> RedisCommand("DEL", <<Key(n.table, Value("*"))>>, <<>>)

astToRedis(node) ==
  CASE node.type = "select" -> translateSelect(node)
    [] node.type = "insert" -> translateInsert(node)
    [] node.type = "update" -> translateUpdate(node)
    [] node.type = "delete" -> translateDelete(node)
    [] OTHER -> Thrown
=============================================================================
