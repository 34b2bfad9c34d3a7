---------------------------- MODULE PGConnection ----------------------------
(***************************************************************************)
(* driver/pg: the session of PGConnection (connection.ts, auth.ts) over the    *)
(* messages of wire.ts.                                                      *)
(***************************************************************************)
EXTENDS DriverConnection

Kinds == {"rows", "done", "fails", "breaks"}
Auths == {"trust", "password", "denied", "no password", "sasl"}

-----------------------------------------------------------------------------
(* The server.                                                               *)

Ready == <<"AuthenticationOk", "ParameterStatus", "ReadyForQuery">>

\* A server that wants a password in clear text asks and is answered like one that
\* wants its MD5.  SASL stands for every request that performAuth() does not know.
Greeting(auth) ==
  CASE auth = "trust" -> Ready
    [] auth = "sasl" -> <<"AuthenticationSASL">>
    [] OTHER -> <<"AuthenticationMD5Password">>
Verdict(auth) == IF auth = "denied" THEN <<"ErrorResponse">> ELSE Ready

\* The answer to Query, and to Parse, Describe, Bind, Execute and Sync.
Described == <<"ParseComplete", "ParameterDescription">>
Answer(kind, bound) ==
  (CASE kind = "fails" -> <<"ErrorResponse">>
     [] kind = "done" /\ bound -> Described \o <<"NoData", "BindComplete", "CommandComplete">>
     [] kind = "done" /\ ~bound -> <<"NoticeResponse", "CommandComplete">>
     [] OTHER -> (IF bound THEN Described \o <<"RowDescription", "BindComplete">>
                  ELSE <<"RowDescription">>)
                 \o <<"DataRow">>
                 \o (IF kind = "rows" THEN <<"DataRow", "CommandComplete">>
                     ELSE <<"ErrorResponse">>))
  \o <<"ReadyForQuery">>

\* What the caller should be told.
Expected(kind, bound) ==
  CASE kind = "rows" -> [status |-> "result", rows |-> 2]
    [] kind = "done" -> [status |-> "result", rows |-> 0]
    [] OTHER -> [status |-> "error", rows |-> 0]

\* A chunk that stops before the second half of a message, or between
\* AuthenticationOk and the end of the startup, is one the reader cannot handle.
Torn(p) ==
  \/ p.half = 2
  \/ p.q = 0 /\ p.t \in {"ParameterStatus", "ReadyForQuery"}

-----------------------------------------------------------------------------
(* performAuth(): the leftover of a chunk is kept in reader, and not cleared   *)
(* when a later chunk uses it up.  What follows AuthenticationOk in its chunk  *)
(* is dropped; what follows in a later chunk stays for the first query.  A     *)
(* message of another type is passed over, and connect() waits for more.      *)

performAuth(c, b) ==
  LET all == c.got \o b
      ms == Messages(all)
      asks == First(ms, {"AuthenticationMD5Password"})
      ends == First(ms, {"AuthenticationOk", "ReadyForQuery", "ErrorResponse"})
      kept == IF Rest(all) = <<>> THEN c.got ELSE Rest(all)
  IN  IF ~InStep(all) THEN Astray(c)
      ELSE IF asks > 0 /\ c.kind = "no password" THEN Ends(Fails("error"), <<>>)
      ELSE IF ends > 0
           THEN Ends(IF ms[ends].t = "ErrorResponse" THEN Fails("error")
                     ELSE Outcome("result", 0, ms), <<>>)
      ELSE Waits([c EXCEPT !.got = kept], <<>>,
                 IF asks > 0 THEN Answers(0, Verdict(c.kind)) ELSE <<>>)

-----------------------------------------------------------------------------
(* query() and queryParams(): the same loop over #readBuffer.  The unread      *)
(* tail of a chunk is put back, the next #readBuffer returns it at once, and   *)
(* the attempts run out before the socket is looked at again.                 *)

\* BUG variants: the loop ends with the command instead of ReadyForQuery; or it
\* does not stop at ReadyForQuery, and collects what follows.
readUpToCommand(c, b) ==
  LET ms == Messages(b)
      end == First(ms, {"CommandComplete", "ErrorResponse"})
      seen == c.got \o (IF end > 0 THEN SubSeq(ms, 1, end) ELSE ms)
  IN  IF end > 0
      THEN Ends(IF Count(seen, "ErrorResponse") > 0 THEN Outcome("error", 0, seen)
                ELSE Outcome("result", Count(seen, "DataRow"), seen), Drop(b, 2 * end))
      ELSE Waits([c EXCEPT !.got = seen], Rest(b), <<>>)

readPastReady(c, b) ==
  LET ms == Messages(b)
      seen == c.got \o ms
  IN  IF First(ms, {"ReadyForQuery"}) > 0
      THEN Ends(Outcome("result", Count(seen, "DataRow"), seen), <<>>)
      ELSE Waits([c EXCEPT !.got = seen], Rest(b), <<>>)

readMessages(c, b) ==
  LET ms == Messages(b)
      end == First(ms, {"ReadyForQuery"})
      seen == c.got \o (IF end > 0 THEN SubSeq(ms, 1, end) ELSE ms)
  IN  IF ~InStep(b) THEN Astray(c)
      ELSE IF end > 0
           THEN Ends(IF Count(seen, "ErrorResponse") > 0 THEN Outcome("error", 0, seen)
                     ELSE Outcome("result", Count(seen, "DataRow"), seen), <<>>)
      ELSE IF Rest(b) # <<>> THEN Ends(Fails("timeout"), Rest(b))
      ELSE Waits([c EXCEPT !.got = seen], <<>>, <<>>)

Reads(c, b) == IF c.step = "auth" THEN performAuth(c, b) ELSE readMessages(c, b)

\* A call of the driver, which writes and reads.
Requests(kind, bound, step, answer) ==
  LET c == NextCall(kind, bound, step)
  IN  Asks(c, answer, Reads(c, buffer))

connect == \E auth \in Auths : Connects(auth, "auth", Answers(0, Greeting(auth)))

query ==
  \E kind \in Kinds :
    Requests(kind, FALSE, "query", Answer(kind, FALSE)) /\ UNCHANGED txn

queryParams ==
  \E kind \in Kinds :
    Requests(kind, TRUE, "query", Answer(kind, TRUE)) /\ UNCHANGED txn

onData ==
  /\ \E n \in 1..Len(net) :
       Receives(n, Reads(call, Arrived(n)), n < Len(net) /\ Torn(net[n + 1]))
  /\ UNCHANGED txn
onError == socket = "up" /\ Rejects("failed")
onClose == socket \in {"up", "failed"} /\ Rejects("gone")
close == socket \in {"up", "failed"} /\ Rejects("gone")

Next == connect \/ query \/ queryParams \/ onData \/ onError \/ onClose \/ close
=============================================================================
