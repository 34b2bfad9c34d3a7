-------------------------- MODULE RedisConnection --------------------------
(***************************************************************************)
(* driver/redis: the session of RedisConnection (connection.ts) over the       *)
(* values of resp.ts, and what redis.ts makes of a reply.  A value is a line   *)
(* ("+", "-", ":" or an empty array "*0"), a bulk string ("$" line and body)   *)
(* or an array of two bulk strings.                                          *)
(***************************************************************************)
EXTENDS DriverConnection

\* "pages": the keys of a SCAN whose cursor says that there are more.
Kinds == {"rows", "pages", "done", "value", "fails"}
Auths == {"none", "auth", "select", "auth, select", "denied"}

-----------------------------------------------------------------------------
(* The server.                                                               *)

Array == <<"*", "$", "body", "$", "body">>

Reply(kind) ==
  CASE kind \in {"rows", "pages"} -> Array
    [] kind = "value" -> <<"$", "body">>
    [] kind = "fails" -> <<"-">>
    [] kind = "exec" -> <<"*0">>
    [] OTHER -> <<"+">>

\* A pipeline asks the same twice.
Expected(kind, bound) ==
  CASE kind = "rows" -> [status |-> "result", rows |-> IF bound THEN 2 ELSE 1]
    [] kind = "pages" -> [status |-> "result", rows |-> 3]
    [] kind = "value" -> [status |-> "result", rows |-> 1]
    [] kind = "fails" -> [status |-> "error", rows |-> 0]
    [] OTHER -> [status |-> "result", rows |-> 0]

Torn(p) == p.i > 1 \/ p.half = 2

-----------------------------------------------------------------------------
(* RESPReader.                                                               *)

\* The parts of the value that begins with a line of type t.
Parts(t) == CASE t = "*" -> 5 [] t = "$" -> 2 [] OTHER -> 1

\* readValue() on what has arrived.  A bulk string is cut out of the buffer
\* whether or not its bytes are there; a line that is not, or a value that
\* should follow, is null, with the offset moved past its type byte.
readValue(b) ==
  LET ms == Messages(b)
      parts == Parts(b[1].t)
  IN  CASE Len(ms) >= parts -> [type |-> b[1].t, ms |-> SubSeq(ms, 1, parts), n |-> 2 * parts]
        [] Len(ms) = parts - 1 /\ parts > 1 -> [type |-> "short", ms |-> ms, n |-> Len(b)]
        [] OTHER -> [type |-> "null", ms |-> ms, n |-> Len(b)]

\* #respToQueryResult() and #executePipeline(): the rows of a reply.  An error
\* reply is a reply without rows.
Rows(v) == IF v.type \in {"*", "$"} THEN 1 ELSE 0

-----------------------------------------------------------------------------
(* #sendCommand() and #readResponse(): one reply for each command.  A part of a  *)
(* reply is an error, or passes for a whole one whose last string is short;     *)
(* either way the rest of the reply is left for the calls that follow.          *)

\* What the method does with a reply: connect() throws an error reply and goes
\* on to SELECT, a pipeline goes on to its second command, exec() throws.
Takes(c, v, rest) ==
  LET seen == c.got \o v.ms
      next == [c EXCEPT !.step = "last", !.got = seen]
  IN  IF v.type = "-" /\ (c.q = 0 \/ c.kind \in {"exec", "discard"})
      THEN Ends(Outcome("error", 0, seen), rest)
      ELSE IF c.step = "first"
           THEN Waits(next, rest, Answers(c.q, Reply(c.kind)))
      ELSE Ends(Outcome("result", Rows(v) + Count(c.got, "*"), seen), rest)

Reads(c, b) ==
  IF b = <<>> THEN Waits(c, b, <<>>)
  ELSE IF ~InStep(b) THEN Astray(c)
  ELSE LET v == readValue(b)
       IN  CASE v.type = "null" -> [Ends(Fails("error"), <<>>) EXCEPT !.lost = TRUE]
             [] v.type = "short" /\ c.step = "first" -> Astray(c)
             [] v.type = "short" -> [Ends(Fails("short"), <<>>) EXCEPT !.lost = TRUE]
             [] OTHER -> Takes(c, v, Drop(b, v.n))

\* A call of the driver, which writes and reads.
Requests(kind, bound, step, answer) ==
  LET c == NextCall(kind, bound, step)
  IN  Asks(c, answer, Reads(c, buffer))

connect ==
  \/ \E auth \in Auths \ {"none"} :
       Connects(IF auth = "denied" THEN "fails" ELSE "done",
                IF auth = "auth, select" THEN "first" ELSE "last",
                Answers(0, Reply(IF auth = "denied" THEN "fails" ELSE "done")))
  \/ /\ state = "new"
     /\ state' = "ready" /\ socket' = "up"
     /\ UNCHANGED <<net, buffer, call, asked, told, txn, whole, lost>>

\* sendCommand(): between MULTI and EXEC the command is put into #txQueue.
sendCommand ==
  /\ txn = 0
  /\ \E kind \in Kinds : Requests(kind, FALSE, "last", Reply(kind))
  /\ UNCHANGED txn

queued ==
  /\ txn > 0 /\ state = "ready" /\ call = NoCall
  /\ Len(asked) < MaxCalls
  /\ \E kind \in Kinds : asked' = Append(asked, [kind |-> kind, bound |-> FALSE])
  /\ told' = Append(told, Fails("queued"))
  /\ txn' = txn + 1
  /\ UNCHANGED <<state, socket, net, buffer, call, whole, lost>>

executePipeline ==
  /\ txn = 0
  /\ \E kind \in {"rows", "fails"} : Requests(kind, TRUE, "first", Reply(kind))
  /\ UNCHANGED txn

\* multi() opens the transaction whatever the reply; exec() and discard() close
\* it and empty #txQueue before they write.  EXEC goes out alone, and without a
\* look at #closed: on a failed socket it waits for the close callback.
multi == txn = 0 /\ Requests("multi", FALSE, "last", Reply("done")) /\ UNCHANGED txn

exec ==
  /\ txn > 0 /\ txn' = 0
  /\ IF socket # "failed" THEN Requests("exec", FALSE, "last", Reply("exec"))
     ELSE /\ call = NoCall /\ Len(asked) < MaxCalls
          /\ asked' = Append(asked, [kind |-> "exec", bound |-> FALSE])
          /\ call' = Call(Len(asked'), "exec", FALSE, "last")
          /\ UNCHANGED <<state, socket, net, buffer, told, whole, lost>>

discard == txn > 0 /\ Requests("discard", FALSE, "last", Reply("done")) /\ txn' = 0

onData ==
  /\ \E n \in 1..Len(net) :
       Receives(n, Reads(call, Arrived(n)), n < Len(net) /\ Torn(net[n + 1]))
  /\ txn' = IF call.kind = "multi" /\ call' = NoCall /\ ~lost' THEN 1 ELSE txn

onError == socket = "up" /\ Rejects("failed")
onClose == socket \in {"up", "failed"} /\ Rejects("gone")
close == socket \in {"up", "failed"} /\ Rejects("gone")

Next ==
  connect \/ sendCommand \/ queued \/ executePipeline \/ multi \/ exec \/ discard
    \/ onData \/ onError \/ onClose \/ close
=============================================================================
