--------------------------- MODULE ConnectionPool ---------------------------
(***************************************************************************)
(* The connection pool of the TCP drivers (driver/pg/pool.ts; the pools of    *)
(* mysql, redis and mongodb are the same code), used by callers that acquire  *)
(* a connection, run a statement on it and release it, while peers close      *)
(* sockets and the owner of the driver calls closeAll().                      *)
(*                                                                         *)
(* acquire() runs its loop body in one synchronous segment, up to the await    *)
(* of connect() or of the 10 ms sleep; release() is synchronous; closeAll()    *)
(* has one await.  A connection object is a member of Conns, used again when   *)
(* nobody refers to it and its socket is closed.                              *)
(***************************************************************************)
EXTENDS Integers, Sequences, FiniteSets, Functions

CONSTANTS
  Callers,        \* the calls of acquire(), one at a time each
  Conns,          \* the connection objects
  MaxSize,        \* #maxSize
  None            \* no connection

ASSUME PoolAssumption ==
  /\ IsFiniteSet(Callers)
  /\ MaxSize \in Nat \ {0}
  /\ None \notin Conns

VARIABLES
  connections,    \* #connections: the idle connections, the last on top
  active,         \* #active
  socket,         \* "refused" is a socket that is up and whose handshake failed
  call,           \* where each caller is
  conn,           \* the connection each caller opens or uses
  late,           \* the callers whose deadline has passed
  closer,         \* closeAll(): "idle", "closing" at its await, or "closed"
  overlapped      \* history: two callers have been opening at the same time

vars == <<connections, active, socket, call, conn, late, closer, overlapped>>

Init ==
  /\ connections = <<>>
  /\ active = 0
  /\ socket = [k \in Conns |-> "closed"]
  /\ call = [c \in Callers |-> "idle"]
  /\ conn = [c \in Callers |-> None]
  /\ late = {}
  /\ closer = "idle"
  /\ overlapped = FALSE

totalConnections == Len(connections) + active

Connected(k) == socket[k] = "open"

In(state) == {c \in Callers : call[c] = state}

\* A new object: no caller has it, and the list has been emptied.
Unused(k) == socket[k] = "closed" /\ \A c \in Callers : conn[c] # k

-----------------------------------------------------------------------------
(* acquire(): one turn of the outer loop.  The inner loop throws away the     *)
(* connections on top whose socket is closed.                                *)

NoneIsConnected == \A i \in DOMAIN connections : ~Connected(connections[i])

\* BUG: the connection that is handed over stays in the list.
TakeWithoutPop(c) ==
  /\ \E i \in DOMAIN connections :
       /\ Connected(connections[i])
       /\ \A j \in DOMAIN connections : j > i => ~Connected(connections[j])
       /\ connections' = SubSeq(connections, 1, i)
       /\ conn' = [conn EXCEPT ![c] = connections[i]]
  /\ active' = active + 1
  /\ call' = [call EXCEPT ![c] = "using"]
  /\ UNCHANGED <<socket, overlapped>>

\* BUG: the connection on top is handed over without a look at its socket.
TakeTop(c) ==
  /\ connections # <<>>
  /\ connections' = SubSeq(connections, 1, Len(connections) - 1)
  /\ conn' = [conn EXCEPT ![c] = connections[Len(connections)]]
  /\ active' = active + 1
  /\ call' = [call EXCEPT ![c] = "using"]
  /\ UNCHANGED <<socket, overlapped>>

Take(c) ==
  /\ \E i \in DOMAIN connections :
       /\ Connected(connections[i])
       /\ \A j \in DOMAIN connections : j > i => ~Connected(connections[j])
       /\ connections' = SubSeq(connections, 1, i - 1)
       /\ conn' = [conn EXCEPT ![c] = connections[i]]
  /\ active' = active + 1
  /\ call' = [call EXCEPT ![c] = "using"]
  /\ UNCHANGED <<socket, overlapped>>

\* BUG: one connection more than the maximum.
OpenOneMore(c) ==
  /\ NoneIsConnected
  /\ connections' = <<>>
  /\ active <= MaxSize
  /\ \E k \in Conns : Unused(k) /\ conn' = [conn EXCEPT ![c] = k]
  /\ call' = [call EXCEPT ![c] = "opening"]
  /\ overlapped' = (overlapped \/ In("opening") # {})
  /\ UNCHANGED <<active, socket>>

\* Up to the await of connect(): the connection is not counted yet.
Open(c) ==
  /\ NoneIsConnected
  /\ connections' = <<>>
  /\ active < MaxSize
  /\ \E k \in Conns : Unused(k) /\ conn' = [conn EXCEPT ![c] = k]
  /\ call' = [call EXCEPT ![c] = "opening"]
  /\ overlapped' = (overlapped \/ In("opening") # {})
  /\ UNCHANGED <<active, socket>>

\* Up to the await of the sleep.
Wait(c) ==
  /\ NoneIsConnected
  /\ connections' = <<>>
  /\ active >= MaxSize
  /\ call' = [call EXCEPT ![c] = "waiting"]
  /\ UNCHANGED <<active, socket, conn, overlapped>>

Turn(c) == (Take(c) \/ Open(c) \/ Wait(c)) /\ UNCHANGED closer

Acquire(c) ==
  /\ call[c] = "idle"
  /\ Turn(c)
  /\ UNCHANGED late

\* The sleep is over before the deadline.
TryAgain(c) ==
  /\ call[c] = "waiting" /\ c \notin late
  /\ Turn(c)
  /\ UNCHANGED late

\* BUG: a timer that is not cancelled when the caller goes on.
DeadlineFiresLate(c) ==
  /\ call[c] # "idle" /\ c \notin late
  /\ late' = late \cup {c}
  /\ UNCHANGED <<connections, active, socket, call, conn, closer, overlapped>>

DeadlinePasses(c) ==
  /\ call[c] = "waiting" /\ c \notin late
  /\ late' = late \cup {c}
  /\ UNCHANGED <<connections, active, socket, call, conn, closer, overlapped>>

\* BUG: the loop does not look at the deadline.
NeverGivesUp(c) ==
  /\ call[c] = "waiting" /\ c \in late
  /\ late' = late \ {c}
  /\ UNCHANGED <<connections, active, socket, call, conn, closer, overlapped>>

\* acquire() throws: the pool is exhausted.
GivesUp(c) ==
  /\ call[c] = "waiting" /\ c \in late
  /\ late' = late \ {c}
  /\ call' = [call EXCEPT ![c] = "idle"]
  /\ UNCHANGED <<connections, active, socket, conn, closer, overlapped>>

\* connect() is resolved.
Opened(c) ==
  /\ call[c] = "opening"
  /\ socket' = [socket EXCEPT ![conn[c]] = "open"]
  /\ active' = active + 1
  /\ call' = [call EXCEPT ![c] = "using"]
  /\ UNCHANGED <<connections, conn, late, closer, overlapped>>

\* connect() throws, before the socket is up or in the handshake, after which
\* nobody closes the socket.
OpenFails(c) ==
  /\ call[c] = "opening"
  /\ \E left \in {"closed", "refused"} : socket' = [socket EXCEPT ![conn[c]] = left]
  /\ call' = [call EXCEPT ![c] = "idle"]
  /\ conn' = [conn EXCEPT ![c] = None]
  /\ UNCHANGED <<connections, active, late, closer, overlapped>>

-----------------------------------------------------------------------------
(* release() and closeAll() *)

\* BUG: a connection that was lost in use is not counted down.
ReleaseOnlyConnected(c) ==
  /\ call[c] = "using"
  /\ active' = IF Connected(conn[c]) THEN active - 1 ELSE active
  /\ connections' = IF Connected(conn[c])
                      THEN Append(connections, conn[c]) ELSE connections
  /\ call' = [call EXCEPT ![c] = "idle"]
  /\ conn' = [conn EXCEPT ![c] = None]
  /\ UNCHANGED <<socket, late, closer, overlapped>>

\* BUG: the connection is kept only while the pool is below its maximum, and
\* nobody closes it otherwise.
ReleaseBelowMax(c) ==
  /\ call[c] = "using"
  /\ active' = active - 1
  /\ connections' = IF Connected(conn[c]) /\ totalConnections < MaxSize
                      THEN Append(connections, conn[c]) ELSE connections
  /\ call' = [call EXCEPT ![c] = "idle"]
  /\ conn' = [conn EXCEPT ![c] = None]
  /\ UNCHANGED <<socket, late, closer, overlapped>>

Release(c) ==
  /\ call[c] = "using"
  /\ active' = active - 1
  /\ connections' = IF Connected(conn[c])
                      THEN Append(connections, conn[c]) ELSE connections
  /\ call' = [call EXCEPT ![c] = "idle"]
  /\ conn' = [conn EXCEPT ![c] = None]
  /\ UNCHANGED <<socket, late, closer, overlapped>>

\* closeAll() up to its await: close() of a connection is synchronous.
CloseAll ==
  /\ closer = "idle"
  /\ closer' = "closing"
  /\ socket' = [k \in Conns |->
                  IF k \in Range(connections) THEN "closed" ELSE socket[k]]
  /\ UNCHANGED <<connections, active, call, conn, late, overlapped>>

CloseAllEnds ==
  /\ closer = "closing"
  /\ closer' = "closed"
  /\ connections' = <<>>
  /\ active' = 0
  /\ UNCHANGED <<socket, call, conn, late, overlapped>>

\* The socket's error or close callback.  The await of closeAll() lasts a few
\* microtasks, between which no callback comes.
PeerCloses(k) ==
  /\ socket[k] \in {"open", "refused"}
  /\ closer # "closing"
  /\ socket' = [socket EXCEPT ![k] = "closed"]
  /\ UNCHANGED <<connections, active, call, conn, late, closer, overlapped>>

-----------------------------------------------------------------------------
Next ==
  \/ \E c \in Callers :
       \/ Acquire(c) \/ TryAgain(c) \/ DeadlinePasses(c) \/ GivesUp(c)
       \/ Opened(c) \/ OpenFails(c) \/ Release(c)
  \/ \E k \in Conns : PeerCloses(k)
  \/ CloseAll
  \/ CloseAllEnds

\* Time passes, so a caller that sleeps wakes, at last after its deadline.
\* Nothing bounds connect() or the use of a connection: they may never end.
Fairness ==
  \A c \in Callers : WF_vars(DeadlinePasses(c)) /\ WF_vars(GivesUp(c))

Safety == Init /\ [][Next]_vars
Spec == Safety /\ Fairness

-----------------------------------------------------------------------------
(* Properties *)

TypeOK ==
  /\ connections \in Seq(Conns)
  /\ active \in Int
  /\ socket \in [Conns -> {"closed", "open", "refused"}]
  /\ call \in [Callers -> {"idle", "waiting", "opening", "using"}]
  /\ conn \in [Callers -> Conns \cup {None}]
  /\ late \subseteq In("waiting")
  /\ closer \in {"idle", "closing", "closed"}
  /\ overlapped \in BOOLEAN

\* Nobody shares a connection: two callers never have the same one, and one that
\* a caller has is not in the list, where a third could find it, nor is any
\* connection in the list twice (the wire protocols have no request numbers:
\* two users of a socket would read each other's answers).
OneOwner ==
  /\ \A c, d \in Callers : conn[c] = conn[d] /\ conn[c] # None => c = d
  /\ \A c \in Callers : conn[c] \notin Range(connections)
  /\ \A i, j \in DOMAIN connections : connections[i] = connections[j] => i = j
  /\ \A c \in Callers : conn[c] # None <=> call[c] \in {"opening", "using"}

\* Whatever is acquired, lost, refused or released, #active counts the
\* connections in use, until closeAll() sets it to zero: no slot of the pool is
\* lost for good or given twice.
ActiveIsHonest == closer # "closed" => active = Cardinality(In("using"))

\* While no two callers have been opening at the same time, the pool and the
\* connection being opened stay within maxPoolSize.
SequentialOpensRespectMax ==
  ~overlapped /\ closer # "closed" =>
    totalConnections + Cardinality(In("opening")) <= MaxSize

\* The pool or a caller refers to k.
Reachable(k) == k \in Range(connections) \/ \E c \in Callers : conn[c] = k

\* Before closeAll() the sockets that are up and that nobody can reach any more are
\* exactly those whose handshake was refused: connect() throws and leaves them
\* (pg/connection.ts:67), and such a connection is never handed out.  However else
\* calls end, every other socket that is up is in the list or in use.
OnlyRefusedAreForgotten ==
  closer = "idle" =>
    \A k \in Conns : socket[k] # "closed" => (socket[k] = "refused" <=> ~Reachable(k))

\* What acquire() returns was connected at that moment, however long it had been
\* in the list (CHANGELOG.md:225).
HandedOverConnected ==
  [][\A c \in Callers :
       call[c] # "using" /\ call'[c] = "using" => socket'[conn'[c]] = "open"]_vars

\* A caller that finds the pool exhausted does not wait for ever.
WaitingEnds == \A c \in Callers : call[c] = "waiting" ~> call[c] # "waiting"

\* CHANGELOG.md:187 "max pool size": the connections in the list, in use and
\* being opened are never more than the maximum.
MaxIsRespected ==
  closer = "idle" => totalConnections + Cardinality(In("opening")) <= MaxSize
=============================================================================
