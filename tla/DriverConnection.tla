-------------------------- MODULE DriverConnection --------------------------
(***************************************************************************)
(* What the four connection classes of the drivers (src/driver/pg, mysql,    *)
(* redis and mongodb, each in its connection.ts) have in common: a socket,    *)
(* the bytes that arrived and were not read (#buffer), at most one pending    *)
(* promise, and a call that is suspended on it.                              *)
(*                                                                         *)
(* The server is outside the program.  It answers every request in order, and *)
(* what it sends is a stream of pieces: a message of the protocol is two of   *)
(* them, so that the network may cut the stream between messages and inside   *)
(* each one.  A chunk is whatever the socket's data callback is given.  The   *)
(* callback resolves the promise and the call runs on, up to its next await   *)
(* for data, before any other callback: that is one step here.               *)
(***************************************************************************)
EXTENDS Naturals, Sequences, SequencesExt, FiniteSets

CONSTANT MaxCalls   \* bound: how many calls are made on a connection

VARIABLES
  state,    \* connect(): "new", "connecting", then "ready" or "refused"
  socket,   \* "none", "up", "failed" (#closed, socket kept) or "gone" (null)
  net,      \* pieces the server has sent and no callback has seen
  buffer,   \* #buffer
  call,     \* the call suspended on the pending promise
  asked,    \* what the calls asked for
  told,     \* how each call that ended has ended
  txn,      \* the object's own transaction state (Redis, MongoDB), 0 if none
  whole,    \* history: no chunk has ended where this protocol's reader is lost
  lost      \* the reader no longer is where the server believes it is

vars == <<state, socket, net, buffer, call, asked, told, txn, whole, lost>>

\* A call: its number (0 is connect), what it asks, the step of its method, and
\* what its local variables have collected.
Call(q, kind, bound, step) ==
  [q |-> q, kind |-> kind, bound |-> bound, step |-> step, got |-> <<>>]
NoCall == Call(0, "none", FALSE, "none")

Init ==
  /\ state = "new"  /\ socket = "none"
  /\ net = <<>>     /\ buffer = <<>>   /\ call = NoCall
  /\ asked = <<>>   /\ told = <<>>     /\ txn = 0
  /\ whole = TRUE   /\ lost = FALSE

-----------------------------------------------------------------------------
(* The stream.                                                               *)

\* The messages of types ts that answer call q; i is the place in the answer.
Answers(q, ts) ==
  [k \in 1..2 * Len(ts) |->
     LET i == (k + 1) \div 2
     IN  [q |-> q, t |-> ts[i], i |-> i, half |-> IF k % 2 = 1 THEN 1 ELSE 2]]

\* The stream begins with a message and goes on where it stopped.
InStep(b) == \A i \in 1..Len(b) : b[i].half = IF i % 2 = 1 THEN 1 ELSE 2

Messages(b) == [i \in 1..(Len(b) \div 2) |-> b[2 * i]]
Rest(b) == IF Len(b) % 2 = 1 THEN <<Last(b)>> ELSE <<>>
Drop(b, n) == SubSeq(b, n + 1, Len(b))

\* The position of the first message whose type is in T, 0 when there is none.
First(ms, T) == SelectInSeq(ms, LAMBDA m : m.t \in T)

Count(ms, t) == Cardinality({i \in DOMAIN ms : ms[i].t = t})

-----------------------------------------------------------------------------
(* How a call ends, and what a turn of its method comes to.                   *)

Outcome(status, rows, ms) ==
  [status |-> status, rows |-> rows, of |-> {ms[i].q : i \in DOMAIN ms}]
Fails(status) == Outcome(status, 0, <<>>)

\* A turn: the call waits again or has ended, what is in #buffer afterwards,
\* and the answer to what it has written on the way.
Waits(c, rest, more) ==
  [call |-> c, rest |-> rest, more |-> more, ends |-> <<>>, lost |-> FALSE]
Ends(outcome, rest) ==
  [call |-> NoCall, rest |-> rest, more |-> <<>>, ends |-> <<outcome>>, lost |-> FALSE]

\* Bytes read as something they are not.  What becomes of them depends on their
\* values: the bytes are not followed any further, the session is (Misreads).
Astray(c) == [Waits(c, <<>>, <<>>) EXCEPT !.lost = TRUE]

\* What a call is told by then may be made of any answers.
Garbled(q) == [status |-> "garbled", rows |-> 0, of |-> 0..q]

\* The step that turn t of call c makes, when sent is still on its way.
Turns(c, t, sent) ==
  /\ call' = t.call
  /\ buffer' = t.rest
  /\ net' = sent \o t.more
  /\ lost' = (lost \/ t.lost)
  /\ state' = IF c.q > 0 \/ t.ends = <<>> THEN state
              ELSE IF t.ends[1].status = "result" THEN "ready" ELSE "refused"
  /\ told' = IF c.q > 0 THEN told \o t.ends ELSE told

-----------------------------------------------------------------------------
(* What the operations of the four classes share.                             *)

Connects(kind, step, greeting) ==
  /\ state = "new"
  /\ state' = "connecting"
  /\ socket' = "up"
  /\ net' = greeting
  /\ call' = Call(0, kind, FALSE, step)
  /\ UNCHANGED <<buffer, asked, told, txn, whole, lost>>

\* The next call, and what is in the buffer after the next n pieces.
NextCall(kind, bound, step) == Call(Len(asked) + 1, kind, bound, step)
Arrived(n) == buffer \o SubSeq(net, 1, n)

\* The holder of the connection makes call c: it writes, the server answers,
\* and the method takes its turn with what is in the buffer already.
Asks(c, answer, turn) ==
  /\ state = "ready" /\ call = NoCall
  /\ Len(asked) < MaxCalls
  /\ asked' = Append(asked, [kind |-> c.kind, bound |-> c.bound])
  /\ CASE socket # "up" ->
            /\ told' = Append(told, Fails("closed"))
            /\ UNCHANGED <<state, net, buffer, call, lost>>
       [] socket = "up" /\ ~lost -> Turns(c, turn, net \o Answers(c.q, answer))
       [] OTHER -> call' = c /\ UNCHANGED <<state, net, buffer, told, lost>>
  /\ UNCHANGED <<socket, whole>>

\* The data callback, with the next n pieces; torn says that the reader cannot
\* bear the cut after them.  A call that waits takes its turn.
Receives(n, turn, torn) ==
  LET sent == Drop(net, n)
  IN  /\ socket = "up" /\ ~lost
      /\ whole' = (whole /\ ~torn)
      /\ IF call = NoCall
         THEN buffer' = Arrived(n) /\ net' = sent
              /\ UNCHANGED <<state, call, told, lost>>
         ELSE Turns(call, turn, sent)
      /\ UNCHANGED <<socket, asked>>

\* A call of a reader that is lost ends, at once or at some later chunk, with whatever
\* it makes of the bytes; it may as well wait for ever.
Misreads ==
  /\ socket = "up" /\ lost /\ call # NoCall
  /\ call' = NoCall
  /\ state' \in IF state = "connecting" THEN {"ready", "refused"} ELSE {state}
  /\ told' = IF call.q > 0 THEN Append(told, Garbled(call.q)) ELSE told
  /\ UNCHANGED <<socket, net, buffer, asked, whole, lost>>

\* BUG variants: the pending promise is not rejected; or is, and is kept.
RejectsNobody(how) ==
  /\ socket' = how
  /\ UNCHANGED <<state, net, buffer, call, asked, told, txn, whole, lost>>

RejectsAndKeeps(how) ==
  /\ socket' = how
  /\ told' = IF call.q > 0 THEN Append(told, Fails("closed")) ELSE told
  /\ UNCHANGED <<state, net, buffer, call, asked, txn, whole, lost>>

\* error, close and close() reject the pending promise, and the call with it.
Rejects(how) ==
  /\ socket' = how
  /\ call' = NoCall
  /\ state' = IF state = "connecting" THEN "refused" ELSE state
  /\ told' = IF call.q > 0 THEN Append(told, Fails("closed")) ELSE told
  /\ UNCHANGED <<net, buffer, asked, txn, whole, lost>>
=============================================================================
