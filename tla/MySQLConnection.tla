-------------------------- MODULE MySQLConnection --------------------------
(***************************************************************************)
(* driver/mysql: the session of MySQLConnection (connection.ts) over the       *)
(* packets of wire.ts.  The client asks for CLIENT_DEPRECATE_EOF, so that no    *)
(* packet stands between the columns and the rows.                           *)
(***************************************************************************)
EXTENDS DriverConnection

\* "blank": a text row whose first value is empty and that is shorter than nine
\* bytes; "wrong": a statement that cannot be prepared, where "fails" can;
\* "breaks": the server fails after the first row.
Kinds == {"rows", "blank", "done", "wrong", "fails", "breaks"}
Auths == {"native", "denied", "blocked"}

-----------------------------------------------------------------------------
(* The server.                                                               *)

Greeting(auth) == IF auth = "blocked" THEN <<"ERR">> ELSE <<"handshake">>
Verdict(auth) == IF auth = "denied" THEN <<"ERR">> ELSE <<"OK">>

Prepared(kind) ==
  CASE kind = "wrong" -> <<"ERR">>
    [] kind \in {"done", "fails"} -> <<"prepareOK0", "param">>
    [] OTHER -> <<"prepareOK1", "param", "prepared column">>

\* The answer to COM_QUERY, and to COM_STMT_EXECUTE.
Answer(kind) ==
  CASE kind \in {"wrong", "fails"} -> <<"ERR">>
    [] kind = "done" -> <<"OK">>
    [] kind = "rows" -> <<"count", "column", "row", "row", "EOF">>
    [] kind = "blank" -> <<"count", "column", "blank", "row", "EOF">>
    [] OTHER -> <<"count", "column", "row", "ERR">>

Expected(kind, bound) ==
  CASE kind \in {"rows", "blank"} -> [status |-> "result", rows |-> 2]
    [] kind = "done" -> [status |-> "result", rows |-> 0]
    [] OTHER -> [status |-> "error", rows |-> 0]

\* prepare() waits for all its packets; the result of a statement is parsed as
\* soon as its first packet is there.
Torn(p) == p.i > 1 /\ p.t \notin {"param", "prepared column"}

-----------------------------------------------------------------------------
(* Parsing.                                                                  *)

\* parseResultSet(): the rows after the column, up to what it takes for their
\* end; what follows is not looked at.  A binary row begins with 0x00, which is
\* the end if nothing follows it.
parseResultSet(ps, binary) ==
  LET start == IF Len(ps) > 2 /\ ps[3].t = "EOF" THEN 3 ELSE 2
      Terminates(i) ==
        \/ ps[i].t \in {"ERR", "EOF", "blank"}
        \/ ps[i].t = "row" /\ binary /\ i = Len(ps)
      ends == {i \in start + 1 .. Len(ps) : Terminates(i)}
      rows == {i \in start + 1 .. Len(ps) : \A e \in ends : i < e}
      read == {i \in 1 .. Len(ps) : \A e \in ends : i <= e}
  IN  Outcome("result", Cardinality(rows), [i \in read |-> ps[i]])

\* parseResponse(): by the first packet.
parseResponse(ps, binary) ==
  CASE ps[1].t = "ERR" -> Outcome("error", 0, <<ps[1]>>)
    [] ps[1].t \in {"OK", "EOF"} -> Outcome("result", 0, <<ps[1]>>)
    [] ps[1].t = "count" /\ Len(ps) > 1 -> parseResultSet(ps, binary)
    [] OTHER -> Fails("error")

\* parsePrepareOK(): how many packets belong to the answer, itself included.
parsePrepareOK(first) == IF first.t = "prepareOK1" THEN 3 ELSE 2

\* Packets that parseResponse() can be handed and does not know as a first one.
Misplaced(p) == p.t \notin {"ERR", "OK", "EOF", "count"}

-----------------------------------------------------------------------------
(* connect(), query(), prepare() and executePrepared(): each reads with        *)
(* #readBuffer, which waits for one complete packet, returns all there are and *)
(* keeps the rest.                                                           *)

readAuth(c, b) ==
  LET ps == Messages(b)
  IN  IF ps = <<>> THEN Waits([c EXCEPT !.step = "auth"], b, <<>>)
      ELSE Ends(parseResponse(ps, FALSE), <<>>)

readHandshake(c, b) ==
  LET ps == Messages(b)
  IN  IF ps = <<>> THEN Waits(c, b, <<>>)
      ELSE IF ps[1].t = "ERR" THEN Ends(Fails("error"), Rest(b))
      ELSE [readAuth(c, Rest(b)) EXCEPT !.more = Answers(0, Verdict(c.kind))]

readResponse(c, b) ==
  LET ps == Messages(b)
  IN  IF ps = <<>> THEN Waits(c, b, <<>>)
      ELSE IF Misplaced(ps[1]) THEN Astray(c)
      ELSE Ends(parseResponse(ps, c.bound), Rest(b))

\* prepare(), and executePrepared() once all its packets are in: the rest of
\* the buffer is then read for the statement's answer.
readPrepared(c, b) ==
  LET ps == c.got \o Messages(b)
      execute == [c EXCEPT !.step = "execute", !.got = <<>>]
  IN  IF ps = <<>> THEN Waits(c, b, <<>>)
      ELSE IF ps[1].t \in {"ERR", "OK", "EOF"} THEN Ends(Fails("error"), Rest(b))
      ELSE IF ps[1].t \notin {"prepareOK0", "prepareOK1"} THEN Astray(c)
      ELSE IF Len(ps) < parsePrepareOK(ps[1]) THEN Waits([c EXCEPT !.got = ps], Rest(b), <<>>)
      ELSE [readResponse(execute, Rest(b)) EXCEPT !.more = Answers(c.q, Answer(c.kind))]

Reads(c, b) ==
  IF ~InStep(b) THEN Astray(c)
  ELSE CASE c.step = "handshake" -> readHandshake(c, b)
         [] c.step = "auth" -> readAuth(c, b)
         [] c.step = "prepare" -> readPrepared(c, b)
         [] OTHER -> readResponse(c, b)

\* A call of the driver, which writes and reads.
Requests(kind, bound, step, answer) ==
  LET c == NextCall(kind, bound, step)
  IN  Asks(c, answer, Reads(c, buffer))

connect ==
  \E auth \in Auths : Connects(auth, "handshake", Answers(0, Greeting(auth)))

query ==
  \E kind \in Kinds :
    Requests(kind, FALSE, "query", Answer(kind)) /\ UNCHANGED txn

executePrepared ==
  \E kind \in Kinds \ {"blank"} :
    Requests(kind, TRUE, "prepare", Prepared(kind)) /\ UNCHANGED txn

onData ==
  /\ \E n \in 1..Len(net) :
       Receives(n, Reads(call, Arrived(n)), n < Len(net) /\ Torn(net[n + 1]))
  /\ UNCHANGED txn
onError == socket = "up" /\ Rejects("failed")
onClose == socket \in {"up", "failed"} /\ Rejects("gone")
close == socket \in {"up", "failed"} /\ Rejects("gone")

Next ==
  connect \/ query \/ executePrepared \/ onData \/ onError \/ onClose \/ close
=============================================================================
