--------------------------- MODULE DriverSessions ---------------------------
(***************************************************************************)
(* One connection of one of the four drivers, from connect() on: it is handed   *)
(* from caller to caller by its pool, one at a time (ConnectionPool), while the *)
(* network cuts the server's answers into chunks and the socket may fail.      *)
(***************************************************************************)
EXTENDS DriverConnection

VARIABLE protocol   \* which driver it is, chosen once

PG == INSTANCE PGConnection
MySQL == INSTANCE MySQLConnection
Redis == INSTANCE RedisConnection
Mongo == INSTANCE MongoConnection

Protocols == {"pg", "mysql", "redis", "mongodb"}

SessionsInit == Init /\ protocol \in Protocols

\* Redis may open its transaction on a reply that is none.
LostReads == Misreads /\ txn' \in IF call.kind = "multi" THEN {txn, 1} ELSE {txn}

SessionsNext ==
  /\ \/ protocol = "pg" /\ PG!Next
     \/ protocol = "mysql" /\ MySQL!Next
     \/ protocol = "redis" /\ Redis!Next
     \/ protocol = "mongodb" /\ Mongo!Next
     \/ LostReads
  /\ UNCHANGED protocol

Receive ==
  /\ \/ protocol = "pg" /\ PG!onData
     \/ protocol = "mysql" /\ MySQL!onData
     \/ protocol = "redis" /\ Redis!onData
     \/ protocol = "mongodb" /\ Mongo!onData
  /\ UNCHANGED protocol

Dies == socket = "failed" /\ Rejects("gone") /\ UNCHANGED protocol

\* The network delivers what was sent, and a socket that failed is closed.  What a
\* reader that is lost makes of the bytes may be nothing.
Fairness ==
  /\ WF_<<vars, protocol>>(Receive)
  /\ WF_<<vars, protocol>>(Dies)

Spec == SessionsInit /\ [][SessionsNext]_<<vars, protocol>> /\ Fairness

-----------------------------------------------------------------------------

Statuses == {"result", "error", "closed", "timeout", "short", "garbled", "queued"}

(* A suspended call has a number that nobody has been told about, and what is   *)
(* told about a call names only calls that were made.                         *)
TypeOK ==
  /\ state \in {"new", "connecting", "ready", "refused"}
  /\ socket \in {"none", "up", "failed", "gone"}
  /\ call.q = (IF state = "ready" /\ call # NoCall THEN Len(asked) ELSE 0)
  /\ Len(told) = Len(asked) - (IF call.q > 0 THEN 1 ELSE 0)
  /\ \A i \in DOMAIN told :
       /\ told[i].status \in Statuses
       /\ told[i].rows \in Nat
       /\ told[i].of \subseteq 0..i

\* What each driver reports wrongly even when it reads the answer well.
Misread ==
  [pg |-> {},
   mysql |-> {"blank", "breaks"},
   redis |-> {"fails", "pages", "exec"},
   mongodb |-> {"pages", "rejects", "commitTransaction", "abortTransaction"}]

Expected(a) ==
  CASE protocol = "pg" -> PG!Expected(a.kind, a.bound)
    [] protocol = "mysql" -> MySQL!Expected(a.kind, a.bound)
    [] protocol = "redis" -> Redis!Expected(a.kind, a.bound)
    [] OTHER -> Mongo!Expected(a.kind, a.bound)

(* As long as the network has not cut an answer where the reader of this        *)
(* protocol cannot bear it (Torn; for MongoDB there is no such place), every     *)
(* caller is told of the server's answer to its own call and of no other, or    *)
(* that the connection is closed, or that Redis has queued the command.  The    *)
(* status and the rows are the server's, but for the kinds in Misread.          *)
OwnAnswers ==
  whole => \A i \in DOMAIN told :
    \/ told[i].status \in {"closed", "queued"}
    \/ /\ told[i].of \subseteq {i}
       /\ asked[i].kind \notin Misread[protocol] =>
            [status |-> told[i].status, rows |-> told[i].rows] = Expected(asked[i])

(* However the stream is cut, and however many answers late it is read, no       *)
(* result is put together from the answers to two calls while the bytes are      *)
(* still read as the messages they are.  Once they are not, nothing is said:     *)
(* with Redis the rest of a reply may become half of the next pipeline's result  *)
(* (redis.ts:88-109, resp.ts:84-91).                                          *)
Apart(o) == o.status # "garbled" => Cardinality(o.of) <= 1
OneAnswerEach == \A i \in DOMAIN told : Apart(told[i])

(* Every call ends, with its answer or because the socket is lost, until the     *)
(* reader itself is lost.  connect() does not when the PostgreSQL server asks    *)
(* for an authentication performAuth() does not know (auth.ts:37).              *)
CallsEnd == call # NoCall /\ call.kind # "sasl" ~> call = NoCall \/ lost
=============================================================================
