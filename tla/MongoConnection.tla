-------------------------- MODULE MongoConnection --------------------------
(***************************************************************************)
(* driver/mongodb: the session of MongoConnection (connection.ts) over the     *)
(* OP_MSG messages of wire-protocol.ts, SCRAM (auth-scram.ts), and what         *)
(* mongodb.ts makes of a reply.  A reply is a header, whose length says how     *)
(* much follows, and a body; each is two pieces, and a read is for that many.   *)
(***************************************************************************)
EXTENDS DriverConnection

\* "pages": a cursor with more than its first batch; "rejects": a write whose
\* reply is ok and lists writeErrors.
Kinds == {"rows", "pages", "done", "fails", "rejects", "invalid"}
Auths == {"none", "scram", "denied", "impostor"}

-----------------------------------------------------------------------------
(* The server.  The invalid reply is a header with a length below 16.          *)

Reply(kind) ==
  CASE kind = "invalid" -> <<"bad header">>
    [] kind \in {"rows", "pages", "done", "fails"} -> <<"header", kind>>
    [] OTHER -> <<"header", "done">>

Expected(kind, bound) ==
  CASE kind = "rows" -> [status |-> "result", rows |-> 1]
    [] kind = "pages" -> [status |-> "result", rows |-> 2]
    [] kind \in {"fails", "rejects", "invalid"} -> [status |-> "error", rows |-> 0]
    [] OTHER -> [status |-> "result", rows |-> 0]

\* #readBytes() waits for as much as it needs, wherever the stream is cut.
Torn(p) == FALSE

-----------------------------------------------------------------------------
(* execute(): the header, then the body, then ok.                             *)

\* #toQueryResult(): the first batch of the cursor; nobody asks for the next.
Rows(m) == IF m.t \in {"rows", "pages"} THEN 1 ELSE 0

\* performScramSha256() makes two calls and checks the server's signature in
\* the last; any other caller is given the reply.
Replies(c, m, rest) ==
  LET seen == Append(c.got, m)
  IN  IF m.t = "fails" THEN Ends(Outcome("error", 0, seen), rest)
      ELSE IF c.step = "saslStart"
      THEN Waits([c EXCEPT !.step = "saslContinue", !.got = <<>>], rest,
                 Answers(0, Reply(IF c.kind = "denied" THEN "fails" ELSE "done")))
      ELSE IF c.step = "saslContinue" /\ c.kind = "impostor" THEN Ends(Fails("error"), rest)
      ELSE Ends(Outcome("result", Rows(m), seen), rest)

readBody(c, b) ==
  IF Len(b) < 2 THEN Waits(c, b, <<>>)
  ELSE Replies(c, b[2], Drop(b, 2))

execute(c, b) ==
  IF c.got # <<>> THEN readBody(c, b)
  ELSE IF Len(b) < 2 THEN Waits(c, b, <<>>)
  ELSE IF b[2].t = "bad header" THEN Ends(Fails("error"), Drop(b, 2))
  ELSE readBody([c EXCEPT !.got = <<b[2]>>], Drop(b, 2))

Reads(c, b) == IF InStep(b) THEN execute(c, b) ELSE Astray(c)

\* A call of the driver, which writes and reads.
Requests(kind, bound, step, answer) ==
  LET c == NextCall(kind, bound, step)
  IN  Asks(c, answer, Reads(c, buffer))

connect ==
  \/ \E auth \in Auths \ {"none"} :
       Connects(auth, "saslStart", Answers(0, Reply("done")))
  \/ /\ state = "new"
     /\ state' = "ready" /\ socket' = "up"
     /\ UNCHANGED <<net, buffer, call, asked, told, txn, whole, lost>>

executeCommand ==
  \E kind \in Kinds : Requests(kind, FALSE, "execute", Reply(kind)) /\ UNCHANGED txn

\* startTransaction() sends nothing: it only counts in the object's session.
\* No command carries that number but the two that end the transaction.
startTransaction ==
  /\ state = "ready" /\ call = NoCall /\ txn < MaxCalls
  /\ txn' = txn + 1
  /\ UNCHANGED <<state, socket, net, buffer, call, asked, told, whole, lost>>

\* commitTransaction() and abortTransaction(): the server knows of none.
endTransaction ==
  /\ txn > 0
  /\ \E kind \in {"commitTransaction", "abortTransaction"} :
       Requests(kind, FALSE, "execute", Reply("fails"))
  /\ UNCHANGED txn

onData ==
  /\ \E n \in 1..Len(net) :
       Receives(n, Reads(call, Arrived(n)), n < Len(net) /\ Torn(net[n + 1]))
  /\ UNCHANGED txn
onError == socket = "up" /\ Rejects("failed")
onClose == socket \in {"up", "failed"} /\ Rejects("gone")
close == socket \in {"up", "failed"} /\ Rejects("gone")

Next ==
  connect \/ executeCommand \/ startTransaction \/ endTransaction \/ onData
    \/ onError \/ onClose \/ close
=============================================================================
