------------------------ MODULE DriverSessions_proofs ------------------------
(***************************************************************************)
(* Proofs about one connection of each driver, for any number of calls.  What *)
(* is shared comes first: the stream of pieces, and what a turn of a method    *)
(* may leave behind.  Then each protocol says what its stream looks like while *)
(* a call is suspended, and that every turn keeps it so.                      *)
(***************************************************************************)
EXTENDS DriverSessions, SequenceTheorems, FiniteSetTheorems,
        WellFoundedInduction, TLAPS

-----------------------------------------------------------------------------
(* The stream                                                               *)

\* The types of the messages of the four protocols.
Types ==
  {"AuthenticationOk", "ParameterStatus", "ReadyForQuery", "AuthenticationMD5Password",
   "AuthenticationSASL", "ErrorResponse", "ParseComplete", "ParameterDescription", "NoData", "BindComplete",
   "CommandComplete", "NoticeResponse", "RowDescription", "DataRow",
   "handshake", "OK", "ERR", "prepareOK0", "prepareOK1", "param", "prepared column",
   "count", "column", "row", "blank", "EOF",
   "+", "-", "$", "body", "*", "*0",
   "header", "bad header", "rows", "pages", "done", "fails"}

\* The pieces that answer the first n calls, and connect().
Pieces(n) == [q : 0..n, t : Types, i : Nat, half : {1, 2}]

LEMMA LeastExists ==
  ASSUME NEW S \in SUBSET Nat, S # {}
  PROVE  \E x \in S : \A y \in S : x <= y
<1> DEFINE R == {ss \in Nat \X Nat : ss[1] < ss[2]}
<1>1. IsWellFoundedOn(R, Nat)
  BY NatLessThanWellFounded DEF OpToRel
<1>2. \A x, y \in Nat : <<y, x>> \in R <=> y < x
  OBVIOUS
<1> HIDE DEF R
<1>3. S \subseteq Nat
  OBVIOUS
<1>4. \E x \in S : \A y \in S : ~(<<y, x>> \in R)
  BY <1>1, <1>3, WFMin
<1>5. PICK x \in S : \A y \in S : ~(<<y, x>> \in R)
  BY <1>4
<1>6. \A y \in S : ~(y < x)
  BY <1>2, <1>5
<1>7. QED
  BY <1>6

LEMMA MessagesHold ==
  ASSUME NEW S, NEW b \in Seq(S)
  PROVE  /\ Messages(b) \in Seq(S)
         /\ Len(Messages(b)) = Len(b) \div 2
         /\ Len(b) \div 2 \in Nat
         /\ \A i \in 1..(Len(b) \div 2) :
              2 * i \in 1..Len(b) /\ Messages(b)[i] = b[2 * i]
<1>1. Len(b) \in Nat /\ \A i \in 1..Len(b) : b[i] \in S
  OBVIOUS
<1>2. Len(b) \div 2 \in Nat /\ \A i \in 1..(Len(b) \div 2) : 2 * i \in 1..Len(b)
  BY <1>1
<1>3. \A i \in 1..(Len(b) \div 2) : b[2 * i] \in S
  BY <1>1, <1>2
<1>4. Messages(b) \in Seq(S)
  BY <1>2, <1>3, IsASeq DEF Messages
<1>5. Len(Messages(b)) = Len(b) \div 2
  BY <1>2, <1>4 DEF Messages
<1>6. QED
  BY <1>2, <1>4, <1>5 DEF Messages

LEMMA DropHolds ==
  ASSUME NEW S, NEW b \in Seq(S), NEW n \in 0..Len(b)
  PROVE  /\ Drop(b, n) \in Seq(S)
         /\ Len(Drop(b, n)) = Len(b) - n
         /\ \A i \in 1..(Len(b) - n) : Drop(b, n)[i] = b[i + n]
<1>1. Len(b) \in Nat /\ \A i \in (n + 1)..Len(b) : b[i] \in S
  OBVIOUS
<1>2. QED
  BY <1>1, SubSeqProperties DEF Drop

LEMMA DropAll ==
  ASSUME NEW S, NEW b \in Seq(S)
  PROVE  Drop(b, Len(b)) = <<>> /\ Drop(b, 0) = b
<1>1. QED
  BY SubSeqEmpty, SubSeqFull DEF Drop

\* What is not a whole message is the end of the stream: nothing, or one piece.
LEMMA RestHolds ==
  ASSUME NEW S, NEW b \in Seq(S)
  PROVE  /\ Rest(b) \in Seq(S)
         /\ Len(Rest(b)) = Len(b) % 2
         /\ Rest(b) = Drop(b, 2 * (Len(b) \div 2))
         /\ 2 * (Len(b) \div 2) \in 0..Len(b)
<1>1. Len(b) \in Nat /\ \A i \in 1..Len(b) : b[i] \in S
  OBVIOUS
<1>2. 2 * (Len(b) \div 2) \in 0..Len(b) /\ Len(b) % 2 \in {0, 1}
      /\ Len(b) - 2 * (Len(b) \div 2) = Len(b) % 2
  BY <1>1
<1> DEFINE d == Drop(b, 2 * (Len(b) \div 2))
<1>3. /\ d \in Seq(S) /\ Len(d) = Len(b) % 2
      /\ \A i \in 1..(Len(b) % 2) : d[i] = b[i + 2 * (Len(b) \div 2)]
  BY <1>2, DropHolds
<1> HIDE DEF d
<1>4. CASE Len(b) % 2 = 1
  <2>1. Rest(b) = <<b[Len(b)]>> /\ b[Len(b)] \in S
    BY <1>1, <1>2, <1>4 DEF Rest, Last
  <2>2. d[1] = b[Len(b)]
    BY <1>2, <1>3, <1>4
  <2>3. <<b[Len(b)]>> \in Seq(S) /\ Len(<<b[Len(b)]>>) = 1 /\ <<b[Len(b)]>>[1] = b[Len(b)]
    BY <2>1
  <2>4. d = <<b[Len(b)]>>
    BY <1>3, <1>4, <2>2, <2>3, SeqEqual
  <2>5. QED
    BY <1>2, <1>4, <2>1, <2>3, <2>4 DEF d
<1>5. CASE Len(b) % 2 = 0
  <2>1. Rest(b) = <<>>
    BY <1>5 DEF Rest
  <2>2. d = <<>>
    BY <1>3, <1>5, EmptySeq
  <2>3. QED
    BY <1>2, <1>5, <2>1, <2>2, EmptySeq DEF d
<1>6. QED
  BY <1>2, <1>4, <1>5

\* A chunk is a prefix of what was sent.
ChunkJoins(bs, ns, n) == (bs \o SubSeq(ns, 1, n)) \o Drop(ns, n) = bs \o ns

LEMMA ChunkHolds ==
  ASSUME NEW S, NEW bs \in Seq(S), NEW ns \in Seq(S), NEW n \in 0..Len(ns)
  PROVE  /\ bs \o SubSeq(ns, 1, n) \in Seq(S)
         /\ Drop(ns, n) \in Seq(S)
         /\ ChunkJoins(bs, ns, n)
<1> DEFINE a == SubSeq(ns, 1, n)
           d == Drop(ns, n)
<1>0. Len(ns) \in Nat /\ \A i \in 1..n : ns[i] \in S
  OBVIOUS
<1>1. a \in Seq(S) /\ Len(a) = n
  BY <1>0, SubSeqProperties
<1>2. d \in Seq(S)
  BY DropHolds
<1>3. a \o d = ns
  <2>1. SubSeq(ns, 1, n) \o SubSeq(ns, n + 1, Len(ns)) = SubSeq(ns, 1, Len(ns))
    <3>1. 1 \in 1..(Len(ns) + 1) /\ n \in (1 - 1)..Len(ns) /\ Len(ns) \in n..Len(ns)
      BY <1>0
    <3>2. QED
      BY <3>1, ConcatAdjacentSubSeq
  <2>2. QED
    BY <2>1, SubSeqFull DEF Drop
<1> HIDE DEF a, d
<1>7. bs \in Seq(S) /\ a \in Seq(S) /\ d \in Seq(S)
  BY <1>1, <1>2
<1>4. (bs \o a) \o d = bs \o (a \o d)
  BY <1>7
<1>5. bs \o a \in Seq(S)
  BY <1>1, ConcatProperties
<1>6. QED
  BY <1>2, <1>3, <1>4, <1>5 DEF a, d, ChunkJoins

\* The elements of two streams in a row.
LEMMA JoinHolds ==
  ASSUME NEW S, NEW a \in Seq(S), NEW b \in Seq(S)
  PROVE  /\ a \o b \in Seq(S)
         /\ Len(a \o b) = Len(a) + Len(b)
         /\ Len(a) \in Nat /\ Len(b) \in Nat
         /\ \A i \in 1..Len(a) : (a \o b)[i] = a[i]
         /\ \A i \in (Len(a) + 1)..(Len(a) + Len(b)) : (a \o b)[i] = b[i - Len(a)]
         /\ \A i \in 1..Len(b) : (a \o b)[i + Len(a)] = b[i]
<1>1. Len(a) \in Nat /\ Len(b) \in Nat
  OBVIOUS
<1>2. QED
  BY <1>1, ConcatProperties

\* A stream or a list with one element more.
LEMMA OneMoreHolds ==
  ASSUME NEW S, NEW a \in Seq(S), NEW e \in S
  PROVE  /\ a \o <<e>> \in Seq(S)
         /\ Len(a \o <<e>>) = Len(a) + 1
         /\ \A i \in 1..Len(a) : (a \o <<e>>)[i] = a[i]
         /\ (a \o <<e>>)[Len(a) + 1] = e
BY AppendIsConcat, AppendProperties

\* A read leaves the end of what was in the buffer in front of what was sent.
LEMMA DropJoins ==
  ASSUME NEW S, NEW b \in Seq(S), NEW sent \in Seq(S), NEW n \in 0..Len(b)
  PROVE  Drop(b, n) \o sent = Drop(b \o sent, n) /\ n \in 0..Len(b \o sent)
<1> DEFINE w == b \o sent
           d == Drop(b, n)
           l == d \o sent
           r == Drop(w, n)
<1>1. /\ d \in Seq(S) /\ Len(d) = Len(b) - n
      /\ \A i \in 1..(Len(b) - n) : d[i] = b[i + n]
  BY DropHolds
<1>2. /\ w \in Seq(S) /\ Len(w) = Len(b) + Len(sent)
      /\ Len(b) \in Nat /\ Len(sent) \in Nat
      /\ \A i \in 1..Len(b) : w[i] = b[i]
      /\ \A i \in (Len(b) + 1)..(Len(b) + Len(sent)) : w[i] = sent[i - Len(b)]
  BY JoinHolds
<1> HIDE DEF w, d
<1>3. n \in 0..Len(w)
  BY <1>2
<1>4. /\ r \in Seq(S) /\ Len(r) = Len(w) - n
      /\ \A i \in 1..(Len(w) - n) : r[i] = w[i + n]
  BY <1>2, <1>3, DropHolds
<1>5. /\ l \in Seq(S) /\ Len(l) = Len(d) + Len(sent)
      /\ \A i \in 1..Len(d) : l[i] = d[i]
      /\ \A i \in (Len(d) + 1)..(Len(d) + Len(sent)) : l[i] = sent[i - Len(d)]
  <2>1. d \in Seq(S)
    BY <1>1
  <2>2. QED
    BY <2>1, JoinHolds
<1> HIDE DEF l, r
<1>6. \A i \in 1..(Len(w) - n) : l[i] = r[i]
  <2> SUFFICES ASSUME NEW i \in 1..(Len(w) - n) PROVE l[i] = r[i]
    OBVIOUS
  <2>0. /\ Len(w) = Len(b) + Len(sent) /\ Len(d) = Len(b) - n
        /\ Len(b) \in Nat /\ Len(sent) \in Nat /\ Len(d) \in Nat /\ i \in Nat /\ n \in Nat
        /\ r[i] = w[i + n]
    BY <1>1, <1>2, <1>4
  <2>1. CASE i <= Len(d)
    <3>1. i \in 1..Len(d) /\ i \in 1..(Len(b) - n) /\ i + n \in 1..Len(b)
      BY <2>0, <2>1
    <3>2. l[i] = d[i] /\ d[i] = b[i + n] /\ w[i + n] = b[i + n]
      BY <1>1, <1>2, <1>5, <3>1
    <3>3. QED
      BY <2>0, <3>2
  <2>2. CASE i > Len(d)
    <3>1. /\ i \in (Len(d) + 1)..(Len(d) + Len(sent))
          /\ i + n \in (Len(b) + 1)..(Len(b) + Len(sent))
          /\ i - Len(d) = (i + n) - Len(b)
      BY <2>0, <2>2
    <3>2. l[i] = sent[i - Len(d)] /\ w[i + n] = sent[(i + n) - Len(b)]
      BY <1>2, <1>5, <3>1
    <3>3. QED
      BY <2>0, <3>1, <3>2
  <2>3. QED
    BY <2>0, <2>1, <2>2
<1>7. Len(l) = Len(w) - n /\ Len(r) = Len(w) - n
  BY <1>1, <1>2, <1>4, <1>5, SMTT(30)
<1>8. l = r
  BY <1>4, <1>5, <1>6, <1>7, SeqEqual
<1>9. QED
  BY <1>3, <1>8 DEF l, r, w, d

\* Each message of an answer is two pieces, in the order of the types.
LEMMA AnswersHold ==
  ASSUME NEW n \in Nat, NEW q \in 0..n, NEW ts \in Seq(Types)
  PROVE  /\ Answers(q, ts) \in Seq(Pieces(n))
         /\ Len(Answers(q, ts)) = 2 * Len(ts)
         /\ \A k \in 1..(2 * Len(ts)) :
              /\ Answers(q, ts)[k].q = q
              /\ Answers(q, ts)[k].t = ts[(k + 1) \div 2]
              /\ Answers(q, ts)[k].i = (k + 1) \div 2
              /\ Answers(q, ts)[k].half = IF k % 2 = 1 THEN 1 ELSE 2
         /\ InStep(Answers(q, ts))
<1> DEFINE e(k) == [q |-> q, t |-> ts[(k + 1) \div 2], i |-> (k + 1) \div 2,
                    half |-> IF k % 2 = 1 THEN 1 ELSE 2]
<1>1. Len(ts) \in Nat /\ \A k \in 1..(2 * Len(ts)) :
        (k + 1) \div 2 \in 1..Len(ts) /\ (k + 1) \div 2 \in Nat
  OBVIOUS
<1>2. \A k \in 1..(2 * Len(ts)) : e(k) \in Pieces(n)
  BY <1>1 DEF Pieces
<1>3. 2 * Len(ts) \in Nat
  BY <1>1
<1>4. Answers(q, ts) = [k \in 1..(2 * Len(ts)) |-> e(k)]
  BY DEF Answers
<1>5. Answers(q, ts) \in Seq(Pieces(n))
  BY <1>2, <1>3, <1>4, IsASeq
<1>6. Len(Answers(q, ts)) = 2 * Len(ts)
  BY <1>3, <1>4, <1>5
<1>7. QED
  BY <1>4, <1>5, <1>6 DEF InStep

\* The first message of a kind, if there is one.
LEMMA FirstHolds ==
  ASSUME NEW S, NEW ms \in Seq(S), NEW T
  PROVE  /\ First(ms, T) \in 0..Len(ms)
         /\ First(ms, T) = 0 => \A i \in 1..Len(ms) : ms[i].t \notin T
         /\ First(ms, T) > 0 => ms[First(ms, T)].t \in T
         /\ \A i \in 1..Len(ms) : i < First(ms, T) => ms[i].t \notin T
<1> DEFINE I == {i \in 1..Len(ms) : ms[i].t \in T}
<1>1. First(ms, T) = IF I # {} THEN CHOOSE x \in I : \A y \in I : x <= y ELSE 0
  BY DEF First, SelectInSeq, Min
<1>2. Len(ms) \in Nat /\ I \in SUBSET Nat
  OBVIOUS
<1>3. CASE I = {}
  <2>1. First(ms, T) = 0
    BY <1>1, <1>3
  <2>2. QED
    BY <1>2, <1>3, <2>1
<1>4. CASE I # {}
  <2>1. \E x \in I : \A y \in I : x <= y
    BY <1>2, <1>4, LeastExists
  <2>2. First(ms, T) \in I /\ \A y \in I : First(ms, T) <= y
    BY <1>1, <1>4, <2>1
  <2>3. QED
    BY <1>2, <2>2
<1>5. QED
  BY <1>3, <1>4

LEMMA CountIsNatural ==
  ASSUME NEW S, NEW ms \in Seq(S), NEW t
  PROVE  Count(ms, t) \in Nat
<1> DEFINE I == {i \in DOMAIN ms : ms[i].t = t}
<1>1. IsFiniteSet(1..Len(ms))
  BY FS_Interval
<1>2. I \in SUBSET (1..Len(ms))
  OBVIOUS
<1>3. QED
  BY <1>1, <1>2, FS_Subset, FS_CardinalityType DEF Count

\* A set without two different elements.
LEMMA AtMostOne ==
  ASSUME NEW S, \A a, b \in S : a = b
  PROVE  Cardinality(S) <= 1
<1>1. CASE S = {}
  BY <1>1, FS_EmptySet
<1>2. ASSUME NEW a \in S
      PROVE  Cardinality(S) <= 1
  <2>1. S = {a}
    OBVIOUS
  <2>2. QED
    BY <2>1, FS_Singleton
<1>3. QED
  BY <1>1, <1>2

-----------------------------------------------------------------------------
(* What the object, its callers and a turn of a method have to do with each    *)
(* other, whatever the protocol.                                             *)

\* What is asked of the four drivers and of connect(), and the steps of their methods.
CallKinds ==
  {"none", "rows", "done", "fails", "breaks", "blank", "wrong", "pages", "value",
   "multi", "exec", "discard", "rejects", "invalid", "commitTransaction",
   "abortTransaction", "trust", "password", "denied", "no password", "sasl",
   "native", "blocked", "scram", "impostor"}
Steps ==
  {"none", "auth", "query", "handshake", "prepare", "execute", "first", "last",
   "saslStart", "saslContinue"}

Streams(n) == Seq(Pieces(n))
Callers(n) ==
  [q : 0..n, kind : CallKinds, bound : BOOLEAN, step : Steps, got : Streams(n)]
Outcomes(n) == [status : Statuses, rows : Nat, of : SUBSET (0..n)]
Requested == [kind : CallKinds, bound : BOOLEAN]

FieldTypes ==
  /\ state \in {"new", "connecting", "ready", "refused"}
  /\ socket \in {"none", "up", "failed", "gone"}
  /\ asked \in Seq(Requested)
  /\ told \in Seq(Outcomes(Len(asked)))
  /\ buffer \in Streams(Len(asked)) /\ net \in Streams(Len(asked))
  /\ call \in Callers(Len(asked))
  /\ txn \in Nat /\ whole \in BOOLEAN /\ lost \in BOOLEAN

\* Only connect() is suspended before the connection is ready, and afterwards only
\* the call that was made last.
Suspended ==
  /\ call.step = "none" => call = NoCall
  /\ state \in {"new", "refused"} => call = NoCall
  /\ state = "connecting" =>
       call # NoCall /\ call.q = 0 /\ call.kind # "multi" /\ socket = "up"
  /\ state = "ready" /\ call # NoCall =>
       /\ call.q = Len(asked) /\ Len(asked) > 0
       /\ asked[Len(asked)] = [kind |-> call.kind, bound |-> call.bound]
  /\ txn > 0 => state = "ready"

\* Each call but the suspended one has been told of, and of one answer at most.
ToldInOrder ==
  /\ Len(told) = Len(asked) - (IF call.q > 0 THEN 1 ELSE 0)
  /\ \A i \in 1..Len(told) : told[i].of \subseteq 0..i /\ Apart(told[i])

Session == FieldTypes /\ Suspended /\ ToldInOrder

\* What a turn of call c may come to when n calls have been made.
GoodTurn(c, t, n) ==
  /\ t.rest \in Streams(n) /\ t.more \in Streams(n) /\ t.lost \in BOOLEAN
  /\ \/ /\ t.ends = <<>> /\ t.call \in Callers(n) /\ t.call.step # "none"
        /\ t.call.q = c.q /\ t.call.kind = c.kind /\ t.call.bound = c.bound
     \/ /\ t.call = NoCall
        /\ \E o \in Outcomes(n) :
             t.ends = <<o>> /\ (c.q > 0 => Cardinality(o.of) <= 1)

\* A chunk and what is not read of a stream are streams.
LEMMA ChunkTyped ==
  ASSUME NEW k \in Nat, NEW b \in Streams(k), NEW s \in Streams(k), NEW n \in 0..Len(s)
  PROVE  /\ b \o SubSeq(s, 1, n) \in Streams(k)
         /\ Drop(s, n) \in Streams(k)
         /\ ChunkJoins(b, s, n)
<1> DEFINE S == Pieces(k)
<1>1. Streams(k) = Seq(S)
  BY DEF Streams
<1> HIDE DEF S
<1>2. b \in Seq(S) /\ s \in Seq(S)
  BY <1>1
<1>3. b \o SubSeq(s, 1, n) \in Seq(S) /\ Drop(s, n) \in Seq(S) /\ ChunkJoins(b, s, n)
  BY <1>2, ChunkHolds
<1>4. QED
  BY <1>1, <1>3

LEMMA CallTyped ==
  ASSUME NEW n \in Nat, NEW q \in 0..n, NEW kind \in CallKinds, NEW bound \in BOOLEAN,
         NEW step \in Steps
  PROVE  /\ Call(q, kind, bound, step) \in Callers(n)
         /\ Call(q, kind, bound, step).q = q
         /\ Call(q, kind, bound, step).kind = kind
         /\ Call(q, kind, bound, step).bound = bound
         /\ Call(q, kind, bound, step).step = step
         /\ Call(q, kind, bound, step).got = <<>>
         /\ step # "none" => Call(q, kind, bound, step) # NoCall
<1>1. <<>> \in Streams(n)
  BY DEF Streams
<1>2. QED
  BY <1>1 DEF NoCall, Call, Callers

LEMMA NoCallTyped == \A n \in Nat : NoCall \in Callers(n)
<1>1. ASSUME NEW n \in Nat PROVE NoCall \in Callers(n)
  <2>1. 0 \in 0..n
    OBVIOUS
  <2>2. "none" \in CallKinds /\ "none" \in Steps
    BY DEF CallKinds, Steps
  <2>3. FALSE \in BOOLEAN
    OBVIOUS
  <2>4. QED
    BY <2>1, <2>2, <2>3, CallTyped DEF NoCall
<1>2. QED
  BY <1>1

\* What was typed when n calls had been made is typed when there are more.
LEMMA MoreCalls ==
  ASSUME NEW n \in Nat, NEW m \in Nat, n <= m
  PROVE  /\ Streams(n) \subseteq Streams(m)
         /\ Callers(n) \subseteq Callers(m)
         /\ Seq(Outcomes(n)) \subseteq Seq(Outcomes(m))
<1>1. 0..n \subseteq 0..m
  OBVIOUS
<1>2. Pieces(n) \subseteq Pieces(m) /\ Outcomes(n) \subseteq Outcomes(m)
  BY <1>1 DEF Pieces, Outcomes
<1>3. Streams(n) \subseteq Streams(m)
  BY <1>2, SeqMonotonic DEF Streams
<1>4. Callers(n) \subseteq Callers(m)
  BY <1>1, <1>3 DEF Callers
<1>5. QED
  BY <1>2, <1>3, <1>4, SeqMonotonic

LEMMA EndsWell ==
  ASSUME NEW n \in Nat, NEW c, NEW o \in Outcomes(n), c.q > 0 => Cardinality(o.of) <= 1,
         NEW rest \in Streams(n)
  PROVE  GoodTurn(c, Ends(o, rest), n)
<1>1. <<>> \in Streams(n)
  BY DEF Streams
<1>2. QED
  BY <1>1 DEF GoodTurn, Ends

LEMMA FailsWell ==
  ASSUME NEW n \in Nat, NEW status \in Statuses
  PROVE  /\ Fails(status) \in Outcomes(n)
         /\ Fails(status).of = {}
         /\ Fails(status).status = status /\ Fails(status).rows = 0
         /\ Cardinality(Fails(status).of) <= 1
<1>1. Fails(status) = [status |-> status, rows |-> 0, of |-> {}]
  BY DEF Fails, Outcome
<1>2. QED
  BY <1>1, FS_EmptySet DEF Outcomes

LEMMA WaitsWell ==
  ASSUME NEW n \in Nat, NEW c, NEW w \in Callers(n), w.step # "none",
         w.q = c.q, w.kind = c.kind, w.bound = c.bound,
         NEW rest \in Streams(n), NEW more \in Streams(n)
  PROVE  GoodTurn(c, Waits(w, rest, more), n)
BY DEF GoodTurn, Waits

LEMMA AstrayIsLost ==
  ASSUME NEW n \in Nat, NEW c \in Callers(n), c.step # "none"
  PROVE  GoodTurn(c, Astray(c), n) /\ Astray(c).lost = TRUE
<1>1. <<>> \in Streams(n)
  BY DEF Streams
<1>2. QED
  BY <1>1 DEF Astray, Waits, GoodTurn

\* The outcome of a call that has read the messages ms.
LEMMA OutcomeTyped ==
  ASSUME NEW n \in Nat, NEW status \in Statuses, NEW rows \in Nat,
         NEW I, NEW ms, DOMAIN ms = I, \A i \in I : ms[i].q \in 0..n
  PROVE  /\ Outcome(status, rows, ms) \in Outcomes(n)
         /\ Outcome(status, rows, ms).status = status
         /\ Outcome(status, rows, ms).rows = rows
         /\ Outcome(status, rows, ms).of = {ms[i].q : i \in I}
BY DEF Outcome, Outcomes

LEMMA TurnHolds ==
  ASSUME FieldTypes, txn \in Nat,
         NEW n \in Nat, NEW c \in Callers(n), NEW t, NEW sent \in Streams(n),
         asked' \in Seq(Requested), n = Len(asked'),
         told \in Seq(Outcomes(n)),
         Len(told) = n - (IF c.q > 0 THEN 1 ELSE 0),
         \A i \in 1..Len(told) : told[i].of \subseteq 0..i /\ Apart(told[i]),
         \/ c.q = 0 /\ c.kind # "multi" /\ state = "connecting" /\ socket = "up"
         \/ /\ c.q = n /\ n > 0 /\ state = "ready"
            /\ asked'[n] = [kind |-> c.kind, bound |-> c.bound],
         GoodTurn(c, t, n), Turns(c, t, sent),
         socket' = socket, whole' \in BOOLEAN,
         txn' \in Nat, txn' > 0 => state' = "ready"
  PROVE  Session'
<1>1. /\ call' = t.call /\ buffer' = t.rest /\ net' = sent \o t.more
      /\ lost' = (lost \/ t.lost)
      /\ state' = IF c.q > 0 \/ t.ends = <<>> THEN state
                  ELSE IF t.ends[1].status = "result" THEN "ready" ELSE "refused"
      /\ told' = IF c.q > 0 THEN told \o t.ends ELSE told
  BY DEF Turns
<1>2. /\ t.rest \in Streams(n) /\ t.more \in Streams(n) /\ t.lost \in BOOLEAN
  BY DEF GoodTurn
<1>3. net' \in Streams(n) /\ buffer' \in Streams(n) /\ lost' \in BOOLEAN
  BY <1>1, <1>2 DEF Streams, FieldTypes
<1>4. NoCall \in Callers(n) /\ NoCall.q = 0 /\ NoCall.step = "none"
  BY NoCallTyped DEF NoCall, Call
<1>5. CASE /\ t.ends = <<>> /\ t.call \in Callers(n) /\ t.call.step # "none"
           /\ t.call.q = c.q /\ t.call.kind = c.kind /\ t.call.bound = c.bound
  <2>1. told \o t.ends = told
    BY <1>5, ConcatEmptySeq
  <2>2. told' = told /\ state' = state /\ call' # NoCall /\ call' = t.call
    BY <1>1, <1>4, <1>5, <2>1
  <2>3. FieldTypes'
    BY <1>3, <1>5, <2>2 DEF FieldTypes
  <2>4. Suspended'
    BY <1>5, <2>2 DEF Suspended, FieldTypes
  <2>5. ToldInOrder'
    BY <1>5, <2>2 DEF ToldInOrder
  <2>6. QED
    BY <2>3, <2>4, <2>5 DEF Session
<1>6. CASE /\ t.call = NoCall
           /\ \E o \in Outcomes(n) : t.ends = <<o>> /\ (c.q > 0 => Cardinality(o.of) <= 1)
  <2>1. PICK o \in Outcomes(n) : t.ends = <<o>> /\ (c.q > 0 => Cardinality(o.of) <= 1)
    BY <1>6
  <2>2. t.ends # <<>> /\ call' = NoCall
    BY <1>1, <1>6, <2>1
  <2>3. CASE c.q = 0
    <3>1. told' = told /\ state' \in {"ready", "refused"} /\ n - 0 = n
      BY <1>1, <2>2, <2>3
    <3>2. FieldTypes'
      BY <1>3, <1>4, <2>2, <3>1 DEF FieldTypes
    <3>3. Suspended'
      BY <1>4, <2>2, <3>1 DEF Suspended
    <3>4. ToldInOrder'
      BY <1>4, <2>2, <2>3, <3>1 DEF ToldInOrder
    <3>5. QED
      BY <3>2, <3>3, <3>4 DEF Session
  <2>4. CASE c.q > 0
    <3>1. state' = "ready" /\ told' = told \o <<o>> /\ Len(told) = n - 1
      BY <1>1, <2>1, <2>4
    <3>3. /\ told' \in Seq(Outcomes(n)) /\ Len(told') = n
          /\ \A i \in 1..(n - 1) : told'[i] = told[i]
          /\ told'[n] = o
      BY <3>1, OneMoreHolds
    <3>4. o.of \subseteq 0..n
      BY DEF Outcomes
    <3>5. FieldTypes'
      BY <1>3, <1>4, <2>2, <3>1, <3>3 DEF FieldTypes
    <3>6. Suspended'
      BY <1>4, <2>2, <3>1 DEF Suspended
    <3>7. \A i \in 1..n : told'[i].of \subseteq 0..i /\ Apart(told'[i])
      <4>1. ASSUME NEW i \in 1..n
            PROVE  told'[i].of \subseteq 0..i /\ Apart(told'[i])
        <5>1. CASE i = n
          BY <2>1, <2>4, <3>3, <3>4, <5>1 DEF Apart
        <5>2. CASE i # n
          <6>1. i \in 1..(n - 1) /\ i \in 1..Len(told)
            BY <3>1, <5>2
          <6>2. QED
            BY <3>3, <6>1
        <5>3. QED
          BY <5>1, <5>2
      <4>2. QED
        BY <4>1
    <3>8. ToldInOrder'
      BY <1>4, <2>2, <3>3, <3>7 DEF ToldInOrder
    <3>9. QED
      BY <3>5, <3>6, <3>8 DEF Session
  <2>5. QED
    BY <2>3, <2>4 DEF Callers
<1>7. QED
  BY <1>5, <1>6 DEF GoodTurn

\* The list of what was asked, or told, with one entry more.
LEMMA AppendTyped ==
  ASSUME NEW S, NEW s \in Seq(S), NEW e \in S
  PROVE  /\ Append(s, e) \in Seq(S)
         /\ Len(Append(s, e)) = Len(s) + 1
         /\ \A i \in 1..Len(s) : Append(s, e)[i] = s[i]
         /\ Append(s, e)[Len(s) + 1] = e
BY AppendProperties

\* What is told without an answer.
LEMMA FailsApart ==
  ASSUME NEW n \in Nat, NEW status \in Statuses
  PROVE  Fails(status) \in Outcomes(n) /\ Apart(Fails(status))
BY FailsWell DEF Apart

\* The call that is told of next.
LEMMA ToldNext ==
  ASSUME NEW n \in Nat, told \in Seq(Outcomes(n)), Len(told) = n - 1,
         \A i \in 1..Len(told) : told[i].of \subseteq 0..i /\ Apart(told[i]),
         NEW o \in Outcomes(n), Apart(o), told' = Append(told, o)
  PROVE  /\ told' \in Seq(Outcomes(n)) /\ Len(told') = n
         /\ \A i \in 1..n : told'[i].of \subseteq 0..i /\ Apart(told'[i])
<1>1. o.of \subseteq 0..n
  BY DEF Outcomes
<1>2. told' = Append(told, o)
  OBVIOUS
<1>3. /\ told' \in Seq(Outcomes(n)) /\ Len(told') = Len(told) + 1
      /\ \A i \in 1..Len(told) : told'[i] = told[i]
      /\ told'[Len(told) + 1] = o
  BY <1>1, <1>2, AppendTyped
<1>4. ASSUME NEW i \in 1..n
      PROVE  told'[i].of \subseteq 0..i /\ Apart(told'[i])
  <2>1. CASE i = n
    <3>1. told'[i] = o
      BY <1>3, <2>1
    <3>2. QED
      BY <1>1, <3>1
  <2>2. CASE i # n
    <3>1. i \in 1..Len(told)
      BY <2>2
    <3>2. told'[i] = told[i]
      BY <1>3, <3>1
    <3>3. QED
      BY <3>1, <3>2
  <2>3. QED
    BY <2>1, <2>2
<1>5. QED
  BY <1>3, <1>4

LEMMA InitHolds == Init => Session
<1> SUFFICES ASSUME Init PROVE Session
  OBVIOUS
<1>1. Len(asked) = 0 /\ Len(told) = 0 /\ asked = <<>> /\ told = <<>>
  BY DEF Init
<1>2. NoCall \in Callers(0) /\ NoCall.q = 0
  BY NoCallTyped DEF NoCall, Call
<1>3. <<>> \in Streams(0)
  BY DEF Streams
<1>4. FieldTypes
  <2>1. <<>> \in Seq(Requested) /\ <<>> \in Seq(Outcomes(0))
    BY EmptySeq
  <2>2. QED
    BY <1>1, <1>2, <1>3, <2>1 DEF Init, FieldTypes
<1>5. Suspended
  BY DEF Init, Suspended
<1>6. ToldInOrder
  BY <1>1, <1>2 DEF Init, ToldInOrder
<1>7. QED
  BY <1>4, <1>5, <1>6 DEF Session

\* connect() is the call that nobody is told of.
LEMMA ConnectsHold ==
  ASSUME Session, NEW kind \in CallKinds, NEW step \in Steps \ {"none"},
         NEW greeting \in Streams(Len(asked)), Connects(kind, step, greeting),
         kind # "multi"
  PROVE  Session'
<1> DEFINE c == Call(0, kind, FALSE, step)
<1>0. Len(asked) \in Nat
  BY DEF Session, FieldTypes
<1>1. c \in Callers(Len(asked)) /\ c.q = 0 /\ c.kind = kind /\ c # NoCall /\ c.step # "none"
  <2> DEFINE n == Len(asked)
  <2>0. n \in Nat
    BY <1>0
  <2> SUFFICES c \in Callers(n) /\ c.q = 0 /\ c.kind = kind /\ c # NoCall /\ c.step # "none"
    OBVIOUS
  <2> HIDE DEF n
  <2>1. 0 \in 0..n
    BY <2>0
  <2>2. FALSE \in BOOLEAN
    OBVIOUS
  <2>3. step \in Steps /\ step # "none"
    OBVIOUS
  <2>4. \A bound \in BOOLEAN : LET d == Call(0, kind, bound, step)
                              IN  /\ d \in Callers(n) /\ d.q = 0 /\ d.kind = kind
                                  /\ d # NoCall /\ d.step # "none"
    BY <2>0, <2>1, <2>3, CallTyped
  <2>5. QED
    BY <2>2, <2>4
<1>2. call' = c /\ state' = "connecting" /\ socket' = "up" /\ net' = greeting
      /\ UNCHANGED <<buffer, asked, told, txn, whole, lost>> /\ state = "new"
  BY DEF Connects
<1>3. call = NoCall /\ NoCall.q = 0
  BY <1>2 DEF Session, Suspended, NoCall, Call
<1> HIDE DEF c
<1>4. FieldTypes'
  BY <1>1, <1>2 DEF Session, FieldTypes
<1>5. Suspended'
  BY <1>1, <1>2 DEF Session, Suspended
<1>6. ToldInOrder'
  BY <1>1, <1>2, <1>3 DEF Session, ToldInOrder
<1>7. QED
  BY <1>4, <1>5, <1>6 DEF Session

\* A connection that needs no authentication is ready at once.
LEMMA ReadyHolds ==
  ASSUME Session, state = "new", state' = "ready", socket' = "up",
         UNCHANGED <<net, buffer, call, asked, told, txn, whole, lost>>
  PROVE  Session'
<1>1. call = NoCall
  BY DEF Session, Suspended
<1>2. FieldTypes'
  BY DEF Session, FieldTypes
<1>3. Suspended'
  BY <1>1 DEF Session, Suspended
<1>4. ToldInOrder'
  BY DEF Session, ToldInOrder
<1>5. QED
  BY <1>2, <1>3, <1>4 DEF Session

\* error, close and close() end the suspended call, and only that.
LEMMA RejectsHold ==
  ASSUME Session, NEW how \in {"failed", "gone"}, Rejects(how)
  PROVE  Session'
<1> DEFINE n == Len(asked)
<1>0. n \in Nat /\ NoCall \in Callers(n) /\ NoCall.q = 0 /\ call.q \in 0..n
  BY NoCallTyped DEF Session, FieldTypes, NoCall, Call, Callers
<1>1. /\ socket' = how /\ call' = NoCall
      /\ state' = IF state = "connecting" THEN "refused" ELSE state
      /\ told' = IF call.q > 0 THEN Append(told, Fails("closed")) ELSE told
      /\ UNCHANGED <<net, buffer, asked, txn, whole, lost>>
  BY DEF Rejects
<1>2. told' \in Seq(Outcomes(n)) /\ ToldInOrder'
  <2>1. CASE call.q > 0
    <3>1. told' = Append(told, Fails("closed")) /\ "closed" \in Statuses /\ Len(told) = n - 1
      BY <1>0, <1>1, <2>1 DEF Session, ToldInOrder, Statuses
    <3>2. /\ told' \in Seq(Outcomes(n)) /\ Len(told') = n
          /\ \A i \in 1..n : told'[i].of \subseteq 0..i /\ Apart(told'[i])
      <4>1. told \in Seq(Outcomes(n))
        BY DEF Session, FieldTypes
      <4>2. \A i \in 1..Len(told) : told[i].of \subseteq 0..i /\ Apart(told[i])
        BY DEF Session, ToldInOrder
      <4> HIDE DEF n
      <4>3. Fails("closed") \in Outcomes(n) /\ Apart(Fails("closed"))
        BY <1>0, <3>1, FailsApart
      <4>4. QED
        BY <1>0, <3>1, <4>1, <4>2, <4>3, ToldNext
    <3>3. call'.q = 0 /\ Len(asked') = n
      BY <1>0, <1>1
    <3>4. Len(told') = Len(asked') - (IF call'.q > 0 THEN 1 ELSE 0)
      BY <1>0, <3>2, <3>3
    <3>5. QED
      BY <3>2, <3>4 DEF ToldInOrder
  <2>2. CASE call.q = 0
    BY <1>0, <1>1, <2>2 DEF Session, ToldInOrder, FieldTypes
  <2>3. QED
    BY <1>0, <2>1, <2>2
<1>3. FieldTypes'
  BY <1>0, <1>1, <1>2 DEF Session, FieldTypes
<1>4. Suspended'
  BY <1>1 DEF Session, Suspended
<1>5. QED
  BY <1>2, <1>3, <1>4 DEF Session

\* The next call, with its request among those asked.
LEMMA RequestTyped ==
  ASSUME Session, NEW kind \in CallKinds, NEW bound \in BOOLEAN,
         asked' = Append(asked, [kind |-> kind, bound |-> bound])
  PROVE  /\ asked' \in Seq(Requested) /\ Len(asked') = Len(asked) + 1 /\ Len(asked) \in Nat
         /\ asked'[Len(asked) + 1] = [kind |-> kind, bound |-> bound]
         /\ Streams(Len(asked)) \subseteq Streams(Len(asked) + 1)
         /\ Callers(Len(asked)) \subseteq Callers(Len(asked) + 1)
         /\ told \in Seq(Outcomes(Len(asked) + 1))
<1> DEFINE r == [kind |-> kind, bound |-> bound]
<1>1. r \in Requested
  BY DEF Requested
<1> HIDE DEF r
<1>2. asked \in Seq(Requested) /\ Len(asked) \in Nat /\ told \in Seq(Outcomes(Len(asked)))
  BY DEF Session, FieldTypes
<1>3. asked' = Append(asked, r)
  BY DEF r
<1>4. asked' \in Seq(Requested) /\ Len(asked') = Len(asked) + 1 /\ asked'[Len(asked) + 1] = r
  BY <1>1, <1>2, <1>3, AppendTyped
<1>5. /\ Streams(Len(asked)) \subseteq Streams(Len(asked) + 1)
      /\ Callers(Len(asked)) \subseteq Callers(Len(asked) + 1)
      /\ Seq(Outcomes(Len(asked))) \subseteq Seq(Outcomes(Len(asked) + 1))
  <2>1. Len(asked) + 1 \in Nat /\ Len(asked) <= Len(asked) + 1
    BY <1>2
  <2>2. QED
    BY <1>2, <2>1, MoreCalls
<1>6. QED
  BY <1>2, <1>4, <1>5 DEF r

\* The holder's next call, whose method takes a turn or finds the socket gone.
LEMMA AsksHold ==
  ASSUME Session, NEW c \in Callers(Len(asked) + 1), c.q = Len(asked) + 1,
         NEW answer, Answers(c.q, answer) \in Streams(Len(asked) + 1),
         NEW turn, socket = "up" /\ ~lost => GoodTurn(c, turn, Len(asked) + 1),
         Asks(c, answer, turn), c.step # "none",
         txn' \in Nat
  PROVE  Session'
<1> DEFINE n == Len(asked) + 1
<1>1. /\ state = "ready" /\ call = NoCall
      /\ asked' = Append(asked, [kind |-> c.kind, bound |-> c.bound])
      /\ UNCHANGED <<socket, whole>>
  BY DEF Asks
<1>2. c.kind \in CallKinds /\ c.bound \in BOOLEAN /\ Len(asked) \in Nat
  BY DEF Callers, Session, FieldTypes
<1>3. /\ asked' \in Seq(Requested) /\ Len(asked') = n /\ n \in Nat
      /\ asked'[n] = [kind |-> c.kind, bound |-> c.bound]
      /\ Streams(Len(asked)) \subseteq Streams(n)
      /\ Callers(Len(asked)) \subseteq Callers(n)
      /\ told \in Seq(Outcomes(n))
  <2>1. /\ asked' \in Seq(Requested) /\ Len(asked') = Len(asked) + 1
        /\ asked'[Len(asked) + 1] = [kind |-> c.kind, bound |-> c.bound]
        /\ Streams(Len(asked)) \subseteq Streams(Len(asked) + 1)
        /\ Callers(Len(asked)) \subseteq Callers(Len(asked) + 1)
        /\ told \in Seq(Outcomes(Len(asked) + 1))
    BY <1>1, <1>2, RequestTyped
  <2>2. QED
    BY <1>2, <2>1
<1>4. /\ Len(told) = n - 1 /\ NoCall.q = 0
      /\ \A i \in 1..Len(told) : told[i].of \subseteq 0..i /\ Apart(told[i])
  BY <1>1, <1>2 DEF Session, ToldInOrder, NoCall, Call
<1>5. /\ state \in {"new", "connecting", "ready", "refused"}
      /\ socket \in {"none", "up", "failed", "gone"}
      /\ buffer \in Streams(n) /\ net \in Streams(n) /\ NoCall \in Callers(n)
      /\ whole \in BOOLEAN /\ lost \in BOOLEAN
  <2>1. buffer \in Streams(n) /\ net \in Streams(n)
    BY <1>3 DEF Session, FieldTypes
  <2>2. NoCall \in Callers(n)
    BY <1>3, NoCallTyped
  <2>3. QED
    BY <2>1, <2>2 DEF Session, FieldTypes
<1>6. c \in Callers(n) /\ c.q = n /\ n > 0 /\ (socket = "up" /\ ~lost => GoodTurn(c, turn, n))
      /\ Answers(c.q, answer) \in Streams(n)
  BY <1>2
<1> HIDE DEF n
<1>7. CASE socket = "up" /\ ~lost
  <2>1. Turns(c, turn, net \o Answers(c.q, answer))
    BY <1>7 DEF Asks
  <2>2. net \o Answers(c.q, answer) \in Streams(n)
    BY <1>5, <1>6, JoinHolds DEF Streams
  <2>3. state' = "ready"
    BY <1>1, <1>6, <2>1 DEF Turns
  <2>4. Len(told) = n - (IF c.q > 0 THEN 1 ELSE 0)
    BY <1>4, <1>6
  <2>5. whole' \in BOOLEAN /\ socket' = socket
    BY <1>1, <1>5
  <2>6. FieldTypes /\ txn \in Nat
    BY DEF Session, FieldTypes
  <2>7. QED
    BY <1>1, <1>3, <1>4, <1>6, <1>7, <2>1, <2>2, <2>3, <2>4, <2>5, <2>6, TurnHolds
<1>8. CASE socket # "up"
  <2>1. /\ told' = Append(told, Fails("closed")) /\ "closed" \in Statuses
        /\ UNCHANGED <<state, net, buffer, call, lost>>
    BY <1>8 DEF Asks, Statuses
  <2>2. /\ told' \in Seq(Outcomes(n)) /\ Len(told') = n
        /\ \A i \in 1..n : told'[i].of \subseteq 0..i /\ Apart(told'[i])
    <3>1. Fails("closed") \in Outcomes(n) /\ Apart(Fails("closed"))
      BY <1>3, <2>1, FailsApart
    <3>2. QED
      BY <1>3, <1>4, <2>1, <3>1, ToldNext
  <2>3. FieldTypes'
    BY <1>1, <1>3, <1>5, <2>1, <2>2 DEF FieldTypes
  <2>4. Suspended'
    BY <1>1, <2>1 DEF Suspended
  <2>5. Len(told') = Len(asked') - (IF call'.q > 0 THEN 1 ELSE 0)
    <3>1. call'.q = 0
      BY <1>1, <1>4, <2>1
    <3>2. QED
      BY <1>3, <2>2, <3>1
  <2>6. ToldInOrder'
    BY <2>2, <2>5 DEF ToldInOrder
  <2>7. QED
    BY <2>3, <2>4, <2>6 DEF Session
<1>9. CASE socket = "up" /\ lost
  <2>1. call' = c /\ UNCHANGED <<state, net, buffer, told, lost>>
    BY <1>9 DEF Asks
  <2>2. Len(told') = Len(asked') - (IF call'.q > 0 THEN 1 ELSE 0)
    BY <1>3, <1>4, <1>6, <2>1
  <2>3. FieldTypes'
    BY <1>1, <1>3, <1>5, <1>6, <2>1 DEF FieldTypes
  <2>4. Suspended'
    BY <1>1, <1>3, <1>6, <2>1 DEF Suspended
  <2>5. ToldInOrder'
    BY <1>4, <2>1, <2>2 DEF ToldInOrder
  <2>6. QED
    BY <2>3, <2>4, <2>5 DEF Session
<1>10. QED
  BY <1>7, <1>8, <1>9

\* The data callback, which lets the suspended method take a turn.
LEMMA ReceivesHold ==
  ASSUME Session, NEW n \in 1..Len(net), NEW turn, NEW torn \in BOOLEAN,
         call # NoCall => GoodTurn(call, turn, Len(asked)),
         Receives(n, turn, torn),
         txn' \in Nat, txn' > 0 => state = "ready"
  PROVE  Session'
<1> DEFINE k == Len(asked)
<1>1. /\ socket = "up" /\ ~lost /\ socket' = socket /\ asked' = asked
      /\ whole' = (whole /\ ~torn)
  BY DEF Receives
<1>2. /\ k \in Nat /\ call \in Callers(k) /\ buffer \in Streams(k) /\ net \in Streams(k)
      /\ asked \in Seq(Requested) /\ told \in Seq(Outcomes(k)) /\ whole \in BOOLEAN
      /\ FieldTypes /\ txn \in Nat
  BY DEF Session, FieldTypes
<1>3. whole' \in BOOLEAN
  BY <1>1, <1>2
<1>4. /\ Arrived(n) \in Streams(k) /\ Drop(net, n) \in Streams(k)
  <2> HIDE DEF k
  <2>1. n \in 0..Len(net)
    OBVIOUS
  <2>2. buffer \o SubSeq(net, 1, n) \in Streams(k) /\ Drop(net, n) \in Streams(k)
    BY <1>2, <2>1, ChunkTyped
  <2>3. QED
    BY <2>2 DEF Arrived
<1>5. /\ Len(told) = k - (IF call.q > 0 THEN 1 ELSE 0)
      /\ \A i \in 1..Len(told) : told[i].of \subseteq 0..i /\ Apart(told[i])
  BY DEF Session, ToldInOrder
<1>6. CASE call = NoCall
  <2>1. /\ buffer' = Arrived(n) /\ net' = Drop(net, n)
        /\ UNCHANGED <<state, call, told, lost>>
    BY <1>6 DEF Receives
  <2>2. FieldTypes'
    BY <1>1, <1>2, <1>3, <1>4, <2>1 DEF FieldTypes
  <2>3. Suspended'
    BY <1>1, <2>1 DEF Session, Suspended
  <2>4. ToldInOrder'
    BY <1>1, <2>1 DEF Session, ToldInOrder
  <2>5. QED
    BY <2>2, <2>3, <2>4 DEF Session
<1>7. CASE call # NoCall
  <2>1. Turns(call, turn, Drop(net, n)) /\ GoodTurn(call, turn, k)
    BY <1>7 DEF Receives
  <2>2. call.step # "none" /\ state \in {"connecting", "ready"}
    BY <1>2, <1>7 DEF Session, Suspended, FieldTypes
  <2>3. \/ call.q = 0 /\ call.kind # "multi" /\ state = "connecting" /\ socket = "up"
        \/ /\ call.q = k /\ k > 0 /\ state = "ready"
           /\ asked'[k] = [kind |-> call.kind, bound |-> call.bound]
    BY <1>1, <1>7, <2>2 DEF Session, Suspended
  <2>4. txn' > 0 => state' = "ready"
    <3>1. state = "ready" => state' = "ready"
      BY <2>1, <2>3 DEF Turns
    <3>2. QED
      BY <3>1
  <2>5. asked' \in Seq(Requested) /\ k = Len(asked')
    BY <1>1, <1>2
  <2> HIDE DEF k
  <2>6. QED
    BY <1>1, <1>2, <1>3, <1>4, <1>5, <2>1, <2>3, <2>4, <2>5, TurnHolds
<1>8. QED
  BY <1>6, <1>7

-----------------------------------------------------------------------------
(* PostgreSQL                                                               *)

LEMMA PGAuthReads ==
  ASSUME NEW c, NEW b
  PROVE  PG!performAuth(c, b) =
    LET all == c.got \o b
        ms == Messages(all)
        asks == First(ms, {"AuthenticationMD5Password"})
        ends == First(ms, {"AuthenticationOk", "ReadyForQuery", "ErrorResponse"})
        kept == IF Rest(all) = <<>> THEN c.got ELSE Rest(all)
    IN  IF ~InStep(all) THEN Astray(c)
        ELSE IF asks > 0 /\ c.kind = "no password" THEN Ends(Fails("error"), <<>>)
        ELSE IF ends > 0
             THEN Ends(IF ms[ends].t = "ErrorResponse" THEN Fails("error")
                       ELSE Outcome("result", 0, ms), <<>>)
        ELSE Waits([c EXCEPT !.got = kept], <<>>,
                   IF asks > 0 THEN Answers(0, PG!Verdict(c.kind)) ELSE <<>>)
BY DEF PG!performAuth, PG!Messages, Messages, PG!First, First, PG!SelectInSeq, SelectInSeq,
       PG!Min, Min, PG!Rest, Rest, PG!Last, Last, PG!InStep, InStep, PG!Astray, Astray,
       PG!Ends, Ends, PG!Fails, Fails, PG!Outcome, Outcome, PG!Waits, Waits,
       PG!Answers, Answers, PG!NoCall, NoCall, PG!Call, Call

LEMMA PGCounts == \A S : PG!Cardinality(S) = Cardinality(S)
BY Zenon DEF PG!Cardinality, Cardinality

LEMMA PGReads ==
  ASSUME NEW c, NEW b
  PROVE  PG!readMessages(c, b) =
    LET ms == Messages(b)
        end == First(ms, {"ReadyForQuery"})
        seen == c.got \o (IF end > 0 THEN SubSeq(ms, 1, end) ELSE ms)
    IN  IF ~InStep(b) THEN Astray(c)
        ELSE IF end > 0
             THEN Ends(IF Count(seen, "ErrorResponse") > 0 THEN Outcome("error", 0, seen)
                       ELSE Outcome("result", Count(seen, "DataRow"), seen), <<>>)
        ELSE IF Rest(b) # <<>> THEN Ends(Fails("timeout"), Rest(b))
        ELSE Waits([c EXCEPT !.got = seen], <<>>, <<>>)
BY PGCounts, Zenon DEF PG!readMessages, PG!Messages, Messages, PG!First, First, PG!SelectInSeq, SelectInSeq,
       PG!Min, Min, PG!Rest, Rest, PG!Last, Last, PG!InStep, InStep, PG!Astray, Astray,
       PG!Ends, Ends, PG!Fails, Fails, PG!Outcome, Outcome, PG!Waits, Waits,
       PG!Count, Count, PG!NoCall, NoCall, PG!Call, Call

\* The actions that the module shares with the others.
LEMMA PGShares ==
  /\ \A n, t, torn : PG!Receives(n, t, torn) <=> Receives(n, t, torn)
  /\ \A c, answer, t : PG!Asks(c, answer, t) <=> Asks(c, answer, t)
  /\ \A how : PG!Rejects(how) <=> Rejects(how)
  /\ \A kind, step, greeting : PG!Connects(kind, step, greeting) <=> Connects(kind, step, greeting)
  /\ \A n : PG!Arrived(n) = Arrived(n)
  /\ \A kind, bound, step : PG!NextCall(kind, bound, step) = NextCall(kind, bound, step)
  /\ \A q, ts : PG!Answers(q, ts) = Answers(q, ts)
BY DEF PG!Receives, Receives, PG!Asks, Asks, PG!Rejects, Rejects, PG!Connects, Connects,
       PG!Arrived, Arrived, PG!NextCall, NextCall, PG!Answers, Answers, PG!Turns, Turns,
       PG!Drop, Drop, PG!NoCall, NoCall, PG!Call, Call, PG!Fails, Fails, PG!Outcome, Outcome

\* Every piece has the end of the answer it belongs to ahead of it.
PGEnd(p) == p.t = "ReadyForQuery" /\ p.half = 2
PGClosed(w) ==
  \A j \in 1..Len(w) : \E m \in j..Len(w) : PGEnd(w[m]) /\ \A k \in j..m : w[k].q = w[j].q

\* What a method has collected is the beginning of the answer that comes next.
PGGot(got, w) ==
  \A i \in 1..Len(got) :
    /\ got[i].t # "ReadyForQuery"
    /\ \E m \in 1..Len(w) : PGEnd(w[m]) /\ \A k \in 1..m : w[k].q = got[i].q

LEMMA PGClosedDrop ==
  ASSUME NEW S, NEW w \in Seq(S), NEW d \in 0..Len(w), PGClosed(w)
  PROVE  PGClosed(Drop(w, d))
<1>4. /\ Len(Drop(w, d)) = Len(w) - d
      /\ \A i \in 1..(Len(w) - d) : Drop(w, d)[i] = w[i + d]
  BY DropHolds
<1>5. Len(w) \in Nat
  OBVIOUS
<1> DEFINE r == Drop(w, d)
<1>1. /\ Len(r) = Len(w) - d /\ Len(w) \in Nat
      /\ \A i \in 1..(Len(w) - d) : r[i] = w[i + d]
  BY <1>4, <1>5
<1> HIDE DEF r
<1>2. ASSUME NEW j \in 1..Len(r)
      PROVE  \E m \in j..Len(r) : PGEnd(r[m]) /\ \A k \in j..m : r[k].q = r[j].q
  <2>1. j + d \in 1..Len(w) /\ r[j] = w[j + d]
    BY <1>1
  <2>2. PICK m \in (j + d)..Len(w) :
          PGEnd(w[m]) /\ \A k \in (j + d)..m : w[k].q = w[j + d].q
    BY <2>1 DEF PGClosed
  <2>3. m - d \in j..Len(r) /\ r[m - d] = w[m]
    <3>1. m - d \in 1..(Len(w) - d) /\ (m - d) + d = m
      BY <1>1, <2>1
    <3>2. QED
      BY <1>1, <3>1
  <2>4. ASSUME NEW k \in j..(m - d) PROVE r[k].q = r[j].q
    <3>1. k \in 1..(Len(w) - d) /\ k + d \in (j + d)..m
      BY <1>1, <2>1
    <3>2. r[k] = w[k + d] /\ w[k + d].q = w[j + d].q
      BY <1>1, <2>2, <3>1
    <3>3. QED
      BY <2>1, <3>2
  <2>5. QED
    BY <2>2, <2>3, <2>4
<1>3. QED
  BY <1>2 DEF PGClosed, r

LEMMA PGClosedJoin ==
  ASSUME NEW S, NEW a \in Seq(S), NEW b \in Seq(S), PGClosed(a), PGClosed(b)
  PROVE  PGClosed(a \o b)
<1> DEFINE w == a \o b
<1>1. /\ Len(w) = Len(a) + Len(b) /\ Len(a) \in Nat /\ Len(b) \in Nat
      /\ \A i \in 1..Len(a) : w[i] = a[i]
      /\ \A i \in 1..Len(b) : w[i + Len(a)] = b[i]
  BY JoinHolds
<1> HIDE DEF w
<1>2. ASSUME NEW j \in 1..Len(w)
      PROVE  \E m \in j..Len(w) : PGEnd(w[m]) /\ \A k \in j..m : w[k].q = w[j].q
  <2>1. CASE j <= Len(a)
    <3>1. j \in 1..Len(a)
      BY <1>1, <2>1
    <3>2. PICK m \in j..Len(a) : PGEnd(a[m]) /\ \A k \in j..m : a[k].q = a[j].q
      BY <3>1 DEF PGClosed
    <3>3. m \in j..Len(w) /\ m \in 1..Len(a)
      BY <1>1, <3>1
    <3>4. \A k \in j..m : k \in 1..Len(a) /\ w[k] = a[k]
      BY <1>1, <3>1
    <3>5. QED
      BY <1>1, <3>1, <3>2, <3>3, <3>4
  <2>2. CASE j > Len(a)
    <3>1. j - Len(a) \in 1..Len(b) /\ (j - Len(a)) + Len(a) = j
      BY <1>1, <2>2
    <3>2. PICK m \in (j - Len(a))..Len(b) :
            PGEnd(b[m]) /\ \A k \in (j - Len(a))..m : b[k].q = b[j - Len(a)].q
      BY <3>1 DEF PGClosed
    <3>3. m \in 1..Len(b) /\ m + Len(a) \in j..Len(w) /\ w[m + Len(a)] = b[m]
          /\ w[j] = b[j - Len(a)]
      BY <1>1, <3>1
    <3>4. ASSUME NEW k \in j..(m + Len(a)) PROVE w[k].q = w[j].q
      <4>1. k - Len(a) \in (j - Len(a))..m /\ k - Len(a) \in 1..Len(b)
            /\ (k - Len(a)) + Len(a) = k
        BY <1>1, <3>1
      <4>2. w[k] = b[k - Len(a)] /\ b[k - Len(a)].q = b[j - Len(a)].q
        BY <1>1, <3>2, <4>1
      <4>3. QED
        BY <3>3, <4>2
    <3>5. QED
      BY <3>2, <3>3, <3>4
  <2>3. QED
    BY <1>1, <2>1, <2>2
<1>3. QED
  BY <1>2 DEF PGClosed, w

\* A stream of one call, which ends as an answer does.
LEMMA PGClosedByLast ==
  ASSUME NEW S, NEW w \in Seq(S), NEW q, \A k \in 1..Len(w) : w[k].q = q,
         w # <<>> => PGEnd(w[Len(w)])
  PROVE  PGClosed(w)
<1>1. Len(w) \in Nat
  OBVIOUS
<1>2. ASSUME NEW j \in 1..Len(w)
      PROVE  \E m \in j..Len(w) : PGEnd(w[m]) /\ \A k \in j..m : w[k].q = w[j].q
  <2>1. w # <<>> /\ Len(w) \in j..Len(w)
    BY <1>1, EmptySeq
  <2>2. \A k \in j..Len(w) : w[k].q = w[j].q
    BY <1>1
  <2>3. QED
    BY <2>1, <2>2
<1>3. QED
  BY <1>2 DEF PGClosed

LEMMA PGClosedAnswers ==
  ASSUME NEW n \in Nat, NEW q \in 0..n, NEW ts \in Seq(Types),
         ts # <<>>, ts[Len(ts)] = "ReadyForQuery"
  PROVE  PGClosed(Answers(q, ts)) /\ PGEnd(Answers(q, ts)[Len(Answers(q, ts))])
<1> DEFINE a == Answers(q, ts)
<1>1. /\ a \in Seq(Pieces(n)) /\ Len(a) = 2 * Len(ts) /\ Len(ts) \in Nat \ {0}
      /\ \A k \in 1..(2 * Len(ts)) :
           /\ a[k].q = q /\ a[k].t = ts[(k + 1) \div 2]
           /\ a[k].half = IF k % 2 = 1 THEN 1 ELSE 2
  BY AnswersHold, EmptySeq
<1> HIDE DEF a
<1>2. 2 * Len(ts) \in 1..(2 * Len(ts)) /\ (2 * Len(ts) + 1) \div 2 = Len(ts)
      /\ (2 * Len(ts)) % 2 # 1
  BY <1>1
<1>3. PGEnd(a[Len(a)])
  BY <1>1, <1>2 DEF PGEnd
<1>4. QED
  BY <1>1, <1>3, PGClosedByLast DEF a

\* Every answer of the server is typed and ends with ReadyForQuery.
LEMMA PGAnswersEnd ==
  ASSUME NEW kind \in PG!Kinds, NEW bound \in BOOLEAN
  PROVE  /\ PG!Answer(kind, bound) \in Seq(Types)
         /\ PG!Answer(kind, bound) # <<>>
         /\ PG!Answer(kind, bound)[Len(PG!Answer(kind, bound))] = "ReadyForQuery"
<1>1. \A s \in Seq(Types) :
        s \o <<"ReadyForQuery">> \in Seq(Types) /\ s \o <<"ReadyForQuery">> # <<>>
        /\ (s \o <<"ReadyForQuery">>)[Len(s \o <<"ReadyForQuery">>)] = "ReadyForQuery"
  <2>1. "ReadyForQuery" \in Types
    BY DEF Types
  <2>2. QED
    BY <2>1, AppendIsConcat, AppendProperties
<1> DEFINE d == <<"ParseComplete", "ParameterDescription">>
           e == <<"NoData", "BindComplete", "CommandComplete">>
           f == <<"RowDescription", "BindComplete">>
           g == <<"RowDescription">>
           h == <<"DataRow">>
           i == <<"DataRow", "CommandComplete">>
           j == <<"ErrorResponse">>
           k == <<"NoticeResponse", "CommandComplete">>
<1>2. /\ d \in Seq(Types) /\ e \in Seq(Types) /\ f \in Seq(Types) /\ g \in Seq(Types)
      /\ h \in Seq(Types) /\ i \in Seq(Types) /\ j \in Seq(Types) /\ k \in Seq(Types)
  BY DEF Types
<1>3. \A s, r \in Seq(Types) : s \o r \in Seq(Types)
  BY JoinHolds
<1>4. \E s \in Seq(Types) : PG!Answer(kind, bound) = s \o <<"ReadyForQuery">>
  <2>1. PG!Answer(kind, bound) =
          (CASE kind = "fails" -> j
             [] kind = "done" /\ bound -> d \o e
             [] kind = "done" -> k
             [] OTHER -> (IF bound THEN d \o f ELSE g) \o h
                         \o (IF kind = "rows" THEN i ELSE j))
          \o <<"ReadyForQuery">>
    BY DEF PG!Answer, PG!Described
  <2> HIDE DEF d, e, f, g, h, i, j, k
  <2>2. CASE kind = "fails"
    BY <1>2, <2>1, <2>2
  <2>3. CASE kind = "done" /\ bound
    BY <1>2, <1>3, <2>1, <2>3
  <2>4. CASE kind = "done" /\ ~bound
    BY <1>2, <2>1, <2>4
  <2>5. CASE kind \notin {"fails", "done"}
    <3> DEFINE x == IF bound THEN d \o f ELSE g
               y == IF kind = "rows" THEN i ELSE j
    <3>1. x \in Seq(Types) /\ y \in Seq(Types)
      BY <1>2, <1>3
    <3>2. PG!Answer(kind, bound) = (x \o h \o y) \o <<"ReadyForQuery">>
      BY <2>1, <2>5
    <3> HIDE DEF x, y
    <3>3. QED
      BY <1>2, <1>3, <3>1, <3>2
  <2>6. QED
    BY <2>2, <2>3, <2>4, <2>5
<1>5. QED
  BY <1>1, <1>4

-----------------------------------------------------------------------------
(* The readers keep up with the server: while a connection is used, what is in *)
(* its buffer and on its way fits the call that waits for it.                  *)

OfCall(s, q) == \A i \in 1..Len(s) : s[i].q = q

\* PostgreSQL.  What connect() has not read ends as an answer does as soon as the
\* server has accepted the client, and afterwards the stream is made of answers.
PGAccepted(s) == \E i \in 1..Len(s) : s[i].t \in {"AuthenticationOk", "ReadyForQuery"}
PGStream(c, w) ==
  IF c.step = "auth"
  THEN /\ c.q = 0 /\ OfCall(c.got, 0) /\ OfCall(w, 0)
       /\ PGAccepted(c.got) \/ PGAccepted(w) =>
            PGClosed(w) /\ c.kind \notin {"denied", "no password"}
  ELSE PGClosed(w) /\ PGGot(c.got, w)

\* MySQL.  The rows that a column count announces end in the same answer, after the
\* two packets that the parser skips.
MySQLStream(w) ==
  \A j \in 1..Len(w) :
    w[j].t = "count" /\ w[j].half = 2 =>
      \E m \in (j + 6)..Len(w) :
        /\ w[m].t \in {"ERR", "EOF"} /\ w[m].half = 2
        /\ \A k \in j..m : w[k].q = w[j].q

\* Redis.  A call waits for one value, and there is nothing else.
RedisStream(c, w) ==
  IF c = NoCall THEN w = <<>>
  ELSE /\ w # <<>> /\ Len(w) = 2 * Redis!Parts(w[1].t)
       /\ OfCall(w, c.q) /\ OfCall(c.got, c.q)
       /\ c.q = 0 => c.kind \in {"done", "fails"}

\* MongoDB.  A call waits for one reply, whose header it may have read.
MongoStream(c, w) ==
  IF c = NoCall THEN w = <<>>
  ELSE /\ OfCall(w, c.q) /\ OfCall(c.got, c.q)
       /\ IF c.got # <<>> THEN Len(w) = 2
          ELSE Len(w) \in {2, 4} /\ (Len(w) = 2 <=> w[2].t = "bad header")
       /\ c.step = "saslStart" => c.q = 0

Stream(p, c, w) ==
  CASE p = "pg" -> PGStream(c, w)
    [] p = "mysql" -> MySQLStream(w)
    [] p = "redis" -> RedisStream(c, w)
    [] OTHER -> MongoStream(c, w)

Following ==
  /\ protocol \in Protocols
  /\ state = "new" => buffer = <<>> /\ net = <<>>
  /\ socket = "up" /\ ~lost /\ state \in {"connecting", "ready"} =>
       Stream(protocol, call, buffer \o net)

\* The inductive invariant.
SessionInv == Session /\ Following

\* A turn that keeps up, with sent still on its way.
KeepsUp(p, c, t, sent) ==
  ~t.lost /\ (c.q = 0 /\ t.ends # <<>> => t.ends[1].status = "result") =>
    Stream(p, t.call, t.rest \o (sent \o t.more))

LEMMA ReceivesFollow ==
  ASSUME SessionInv, NEW n \in 1..Len(net), NEW turn, NEW torn,
         call # NoCall => KeepsUp(protocol, call, turn, Drop(net, n)),
         Receives(n, turn, torn), protocol' = protocol
  PROVE  Following'
<1> DEFINE k == Len(asked)
<1>1. /\ socket = "up" /\ ~lost /\ socket' = socket
      /\ k \in Nat /\ buffer \in Streams(k) /\ net \in Streams(k)
  BY DEF SessionInv, Session, FieldTypes, Receives
<1>2. Arrived(n) \o Drop(net, n) = buffer \o net
  <2>1. n \in 0..Len(net)
    OBVIOUS
  <2> HIDE DEF k
  <2>2. ChunkJoins(buffer, net, n)
    BY <1>1, <2>1, ChunkTyped
  <2>3. QED
    BY <2>2 DEF Arrived, ChunkJoins
<1>3. CASE call = NoCall
  <2>1. /\ buffer' = Arrived(n) /\ net' = Drop(net, n)
        /\ UNCHANGED <<state, call, told, lost>>
    BY <1>3 DEF Receives
  <2>2. buffer' \o net' = buffer \o net
    BY <1>2, <2>1
  <2>3. state # "new"
    <3>1. state = "new" => net = <<>>
      BY DEF SessionInv, Following
    <3>2. net # <<>>
      OBVIOUS
    <3>3. QED
      BY <3>1, <3>2
  <2>4. QED
    BY <1>1, <2>1, <2>2, <2>3 DEF SessionInv, Following
<1>4. CASE call # NoCall
  <2>1. /\ Turns(call, turn, Drop(net, n)) /\ KeepsUp(protocol, call, turn, Drop(net, n))
    BY <1>4 DEF Receives
  <2>2. state # "new" /\ state # "refused"
    BY <1>4 DEF SessionInv, Session, Suspended
  <2>3. /\ call' = turn.call /\ buffer' = turn.rest /\ net' = Drop(net, n) \o turn.more
        /\ lost' = (lost \/ turn.lost)
        /\ state' = IF call.q > 0 \/ turn.ends = <<>> THEN state
                    ELSE IF turn.ends[1].status = "result" THEN "ready" ELSE "refused"
    BY <2>1 DEF Turns
  <2>4. state' # "new"
    BY <2>2, <2>3
  <2>5. ASSUME ~lost', state' \in {"connecting", "ready"}
        PROVE  Stream(protocol', call', buffer' \o net')
    <3>1. ~turn.lost
      BY <2>3, <2>5
    <3>2. call.q = 0 /\ turn.ends # <<>> => turn.ends[1].status = "result"
      BY <2>3, <2>5
    <3>3. Stream(protocol, turn.call, turn.rest \o (Drop(net, n) \o turn.more))
      BY <2>1, <3>1, <3>2 DEF KeepsUp
    <3>4. QED
      BY <2>3, <3>3
  <2>6. QED
    BY <2>4, <2>5 DEF SessionInv, Following
<1>5. QED
  BY <1>3, <1>4

LEMMA AsksFollow ==
  ASSUME SessionInv, NEW c, c.q > 0, NEW answer, NEW turn,
         socket = "up" /\ ~lost => KeepsUp(protocol, c, turn, net \o Answers(c.q, answer)),
         Asks(c, answer, turn), protocol' = protocol
  PROVE  Following'
<1>1. state = "ready" /\ call = NoCall /\ socket' = socket
  BY DEF Asks
<1>2. CASE socket = "up" /\ ~lost
  <2>1. /\ Turns(c, turn, net \o Answers(c.q, answer))
        /\ KeepsUp(protocol, c, turn, net \o Answers(c.q, answer))
    BY <1>2 DEF Asks
  <2>2. /\ call' = turn.call /\ buffer' = turn.rest
        /\ net' = (net \o Answers(c.q, answer)) \o turn.more
        /\ lost' = (lost \/ turn.lost) /\ state' = state
    BY <2>1 DEF Turns
  <2>3. ASSUME ~lost'
        PROVE  Stream(protocol', call', buffer' \o net')
    <3>1. ~turn.lost
      BY <2>2, <2>3
    <3>2. ~(c.q = 0)
      OBVIOUS
    <3>3. Stream(protocol, turn.call,
                 turn.rest \o ((net \o Answers(c.q, answer)) \o turn.more))
      BY <2>1, <3>1, <3>2 DEF KeepsUp
    <3>4. QED
      BY <2>2, <3>3
  <2>4. QED
    BY <1>1, <2>2, <2>3 DEF SessionInv, Following
<1>3. CASE socket # "up"
  <2>1. UNCHANGED <<state, net, buffer, call, lost>>
    BY <1>3 DEF Asks
  <2>2. QED
    BY <1>1, <1>3, <2>1 DEF SessionInv, Following
<1>4. CASE socket = "up" /\ lost
  <2>1. UNCHANGED <<state, net, buffer, lost>>
    BY <1>4 DEF Asks
  <2>2. QED
    BY <1>1, <1>4, <2>1 DEF SessionInv, Following
<1>5. QED
  BY <1>2, <1>3, <1>4

LEMMA ConnectsFollow ==
  ASSUME SessionInv, NEW kind, NEW step, NEW greeting \in Streams(Len(asked)),
         Stream(protocol, Call(0, kind, FALSE, step), greeting),
         Connects(kind, step, greeting), protocol' = protocol
  PROVE  Following'
<1>1. /\ state = "new" /\ state' = "connecting" /\ net' = greeting
      /\ call' = Call(0, kind, FALSE, step) /\ buffer' = buffer
  BY DEF Connects
<1>2. buffer = <<>>
  BY <1>1 DEF SessionInv, Following
<1>3. buffer' \o net' = greeting
  BY <1>1, <1>2, ConcatEmptySeq DEF Streams
<1>4. QED
  BY <1>1, <1>3 DEF SessionInv, Following

\* Nothing is followed on a socket that is not up.
LEMMA RejectsFollow ==
  ASSUME SessionInv, NEW how \in {"failed", "gone"}, Rejects(how), protocol' = protocol
  PROVE  Following'
<1>1. /\ socket' # "up" /\ state' = IF state = "connecting" THEN "refused" ELSE state
      /\ UNCHANGED <<net, buffer>>
  BY DEF Rejects
<1>2. state' = "new" => state = "new"
  BY <1>1
<1>3. QED
  BY <1>1, <1>2 DEF SessionInv, Following

\* A turn keeps up when what it leaves fits what it leaves behind.
LEMMA EndsKeepUp ==
  ASSUME NEW S, NEW p, NEW c, NEW o, NEW rest, NEW sent \in Seq(S),
         (c.q = 0 => o.status = "result") => Stream(p, NoCall, rest \o sent)
  PROVE  KeepsUp(p, c, Ends(o, rest), sent)
<1>1. sent \o <<>> = sent
  BY ConcatEmptySeq
<1>2. /\ Ends(o, rest).call = NoCall /\ Ends(o, rest).rest = rest
      /\ Ends(o, rest).more = <<>> /\ Ends(o, rest).ends = <<o>>
  BY DEF Ends
<1>3. <<o>> # <<>> /\ <<o>>[1] = o
  OBVIOUS
<1>4. QED
  BY <1>1, <1>2, <1>3 DEF KeepsUp

LEMMA WaitsKeepUp ==
  ASSUME NEW p, NEW c, NEW d, NEW rest, NEW sent, NEW more,
         Stream(p, d, rest \o (sent \o more))
  PROVE  KeepsUp(p, c, Waits(d, rest, more), sent)
BY DEF KeepsUp, Waits

LEMMA LostKeepsUp ==
  ASSUME NEW p, NEW c, NEW t, NEW sent, t.lost = TRUE
  PROVE  KeepsUp(p, c, t, sent)
BY DEF KeepsUp

\* What is left of the stream when all of b, or all but what makes no message, is
\* read.
LEMMA SentHolds ==
  ASSUME NEW S, NEW b \in Seq(S), NEW sent \in Seq(S)
  PROVE  /\ b \o sent \in Seq(S)
         /\ Len(b \o sent) = Len(b) + Len(sent) /\ Len(b) \in Nat /\ Len(sent) \in Nat
         /\ \A i \in 1..Len(b) : (b \o sent)[i] = b[i]
         /\ \A i \in 1..Len(sent) : (b \o sent)[i + Len(b)] = sent[i]
         /\ Len(b) \in 0..Len(b \o sent)
         /\ sent = Drop(b \o sent, Len(b))
         /\ <<>> \o sent = sent /\ sent \o <<>> = sent
         /\ Rest(b) \o sent = Drop(b \o sent, 2 * (Len(b) \div 2))
         /\ 2 * (Len(b) \div 2) \in 0..Len(b \o sent)
<1>1. Len(b) \in 0..Len(b) /\ Drop(b, Len(b)) = <<>>
  BY DropAll
<1>2. <<>> \o sent = sent /\ sent \o <<>> = sent
  BY ConcatEmptySeq
<1>3. Drop(b, Len(b)) \o sent = Drop(b \o sent, Len(b)) /\ Len(b) \in 0..Len(b \o sent)
  BY <1>1, DropJoins
<1>4. Rest(b) = Drop(b, 2 * (Len(b) \div 2)) /\ 2 * (Len(b) \div 2) \in 0..Len(b)
  BY RestHolds
<1>5. /\ Rest(b) \o sent = Drop(b \o sent, 2 * (Len(b) \div 2))
      /\ 2 * (Len(b) \div 2) \in 0..Len(b \o sent)
  BY <1>4, DropJoins
<1>6. QED
  BY <1>1, <1>2, <1>3, <1>5, JoinHolds

LEMMA OfCallJoin ==
  ASSUME NEW S, NEW a \in Seq(S), NEW b \in Seq(S), NEW q
  PROVE  OfCall(a \o b, q) <=> OfCall(a, q) /\ OfCall(b, q)
<1>1. /\ Len(a \o b) = Len(a) + Len(b) /\ Len(a) \in Nat /\ Len(b) \in Nat
      /\ \A i \in 1..Len(a) : (a \o b)[i] = a[i]
      /\ \A i \in (Len(a) + 1)..(Len(a) + Len(b)) : (a \o b)[i] = b[i - Len(a)]
      /\ \A i \in 1..Len(b) : (a \o b)[i + Len(a)] = b[i]
  BY JoinHolds
<1> DEFINE w == a \o b
<1> HIDE DEF w
<1>2. ASSUME OfCall(a, q), OfCall(b, q), NEW i \in 1..(Len(a) + Len(b)) PROVE w[i].q = q
  <2>1. CASE i <= Len(a)
    <3>1. i \in 1..Len(a)
      BY <1>1, <2>1
    <3>2. QED
      BY <1>1, <1>2, <3>1 DEF OfCall, w
  <2>2. CASE i > Len(a)
    <3>1. i \in (Len(a) + 1)..(Len(a) + Len(b)) /\ i - Len(a) \in 1..Len(b)
      BY <1>1, <2>2
    <3>2. QED
      BY <1>1, <1>2, <3>1 DEF OfCall, w
  <2>3. QED
    BY <1>1, <2>1, <2>2
<1>3. ASSUME OfCall(w, q) PROVE OfCall(a, q) /\ OfCall(b, q)
  <2>1. ASSUME NEW i \in 1..Len(a) PROVE a[i].q = q
    <3>1. i \in 1..Len(w)
      BY <1>1 DEF w
    <3>2. QED
      BY <1>1, <1>3, <3>1 DEF OfCall, w
  <2>2. ASSUME NEW i \in 1..Len(b) PROVE b[i].q = q
    <3>1. i + Len(a) \in 1..Len(w)
      BY <1>1 DEF w
    <3>2. w[i + Len(a)] = b[i]
      BY <1>1 DEF w
    <3>3. QED
      BY <1>3, <3>1, <3>2 DEF OfCall
  <2>3. QED
    BY <2>1, <2>2 DEF OfCall
<1>4. QED
  BY <1>1, <1>2, <1>3 DEF OfCall, w

LEMMA OfCallDrop ==
  ASSUME NEW S, NEW b \in Seq(S), NEW n \in 0..Len(b), NEW q, OfCall(b, q)
  PROVE  OfCall(Drop(b, n), q)
<1> DEFINE d == Drop(b, n)
<1>1. /\ Len(d) = Len(b) - n /\ Len(b) \in Nat
      /\ \A i \in 1..(Len(b) - n) : d[i] = b[i + n]
  BY DropHolds
<1> HIDE DEF d
<1>2. ASSUME NEW i \in 1..Len(d) PROVE d[i].q = q
  <2>1. i \in 1..(Len(b) - n) /\ i + n \in 1..Len(b)
    BY <1>1
  <2>2. QED
    BY <1>1, <2>1 DEF OfCall
<1>3. QED
  BY <1>2 DEF OfCall, d

LEMMA OfCallMessages ==
  ASSUME NEW S, NEW b \in Seq(S), NEW q, OfCall(b, q)
  PROVE  OfCall(Messages(b), q)
<1>1. /\ Len(Messages(b)) = Len(b) \div 2
      /\ \A i \in 1..(Len(b) \div 2) : 2 * i \in 1..Len(b) /\ Messages(b)[i] = b[2 * i]
  BY MessagesHold
<1>2. QED
  BY <1>1 DEF OfCall

-----------------------------------------------------------------------------
(* PostgreSQL keeps up.                                                      *)

LEMMA PGIsStream == \A c, w : Stream("pg", c, w) <=> PGStream(c, w)
BY DEF Stream

LEMMA PGNoCall == \A w : PGClosed(w) => PGStream(NoCall, w)
<1>1. NoCall.step = "none" /\ NoCall.got = <<>>
  BY DEF NoCall, Call
<1>2. "none" # "auth" /\ Len(<<>>) = 0
  OBVIOUS
<1>3. \A w : PGGot(NoCall.got, w)
  BY <1>1, <1>2 DEF PGGot
<1>4. QED
  BY <1>1, <1>2, <1>3 DEF PGStream

LEMMA PGAcceptedJoin ==
  ASSUME NEW S, NEW a \in Seq(S), NEW b \in Seq(S)
  PROVE  PGAccepted(a \o b) <=> PGAccepted(a) \/ PGAccepted(b)
<1>1. /\ Len(a \o b) = Len(a) + Len(b) /\ Len(a) \in Nat /\ Len(b) \in Nat
      /\ \A i \in 1..Len(a) : (a \o b)[i] = a[i]
      /\ \A i \in (Len(a) + 1)..(Len(a) + Len(b)) : (a \o b)[i] = b[i - Len(a)]
      /\ \A i \in 1..Len(b) : (a \o b)[i + Len(a)] = b[i]
  BY JoinHolds
<1> DEFINE w == a \o b
           T == {"AuthenticationOk", "ReadyForQuery"}
<1> HIDE DEF w, T
<1>2. ASSUME NEW i \in 1..Len(w), w[i].t \in T PROVE PGAccepted(a) \/ PGAccepted(b)
  <2>1. CASE i <= Len(a)
    <3>1. i \in 1..Len(a) /\ w[i] = a[i]
      BY <1>1, <2>1 DEF w
    <3>2. QED
      BY <1>2, <3>1 DEF PGAccepted, T
  <2>2. CASE i > Len(a)
    <3>1. i \in (Len(a) + 1)..(Len(a) + Len(b)) /\ i - Len(a) \in 1..Len(b)
      BY <1>1, <2>2 DEF w
    <3>2. w[i] = b[i - Len(a)]
      BY <1>1, <3>1 DEF w
    <3>3. QED
      BY <1>2, <3>1, <3>2 DEF PGAccepted, T
  <2>3. QED
    BY <1>1, <2>1, <2>2
<1>3. ASSUME NEW i \in 1..Len(a), a[i].t \in T PROVE PGAccepted(w)
  <2>1. i \in 1..Len(w) /\ w[i] = a[i]
    BY <1>1 DEF w
  <2>2. QED
    BY <1>3, <2>1 DEF PGAccepted, T
<1>4. ASSUME NEW i \in 1..Len(b), b[i].t \in T PROVE PGAccepted(w)
  <2>1. i + Len(a) \in 1..Len(w) /\ w[i + Len(a)] = b[i]
    BY <1>1 DEF w
  <2>2. QED
    BY <1>4, <2>1 DEF PGAccepted, T
<1>5. QED
  BY <1>2, <1>3, <1>4 DEF PGAccepted, w, T

LEMMA PGAcceptedDrop ==
  ASSUME NEW S, NEW b \in Seq(S), NEW n \in 0..Len(b), PGAccepted(Drop(b, n))
  PROVE  PGAccepted(b)
<1> DEFINE d == Drop(b, n)
<1>1. /\ Len(d) = Len(b) - n /\ Len(b) \in Nat
      /\ \A i \in 1..(Len(b) - n) : d[i] = b[i + n]
  BY DropHolds
<1> HIDE DEF d
<1>2. PICK i \in 1..Len(d) : d[i].t \in {"AuthenticationOk", "ReadyForQuery"}
  BY DEF PGAccepted, d
<1>3. i + n \in 1..Len(b) /\ d[i] = b[i + n]
  BY <1>1
<1>4. QED
  BY <1>2, <1>3 DEF PGAccepted

\* What the server says in the startup: it accepts the client, or does not yet.
LEMMA PGStartupAccepts ==
  ASSUME NEW n \in Nat
  PROVE  /\ Answers(0, PG!Ready) \in Streams(n) /\ OfCall(Answers(0, PG!Ready), 0)
         /\ PGClosed(Answers(0, PG!Ready)) /\ Answers(0, PG!Ready) # <<>>
         /\ PGEnd(Answers(0, PG!Ready)[Len(Answers(0, PG!Ready))])
<1> DEFINE a == Answers(0, PG!Ready)
<1>1. PG!Ready \in Seq(Types) /\ Len(PG!Ready) = 3 /\ PG!Ready[3] = "ReadyForQuery"
      /\ PG!Ready # <<>>
  BY DEF Types, PG!Ready
<1>2. 0 \in 0..n
  OBVIOUS
<1>3. /\ a \in Seq(Pieces(n)) /\ Len(a) = 2 * Len(PG!Ready)
      /\ \A k \in 1..(2 * Len(PG!Ready)) : a[k].q = 0
  BY <1>1, <1>2, AnswersHold
<1>4. PG!Ready[Len(PG!Ready)] = "ReadyForQuery"
  BY <1>1
<1>5. PGClosed(a) /\ PGEnd(a[Len(a)])
  BY <1>1, <1>2, <1>4, PGClosedAnswers
<1> HIDE DEF a
<1>6. OfCall(a, 0)
  BY <1>3 DEF OfCall
<1>7. a # <<>>
  <2>1. Len(a) = 6 /\ Len(<<>>) = 0
    BY <1>1, <1>3
  <2>2. QED
    BY <2>1
<1>8. QED
  BY <1>3, <1>5, <1>6, <1>7 DEF a, Streams

LEMMA PGStartupAsks ==
  ASSUME NEW n \in Nat,
         NEW t \in {"ErrorResponse", "AuthenticationMD5Password", "AuthenticationSASL"}
  PROVE  /\ Answers(0, <<t>>) \in Streams(n) /\ OfCall(Answers(0, <<t>>), 0)
         /\ ~PGAccepted(Answers(0, <<t>>))
<1> DEFINE ts == <<t>>
           a == Answers(0, ts)
<1>0. t \in Types
  BY Zenon DEF Types
<1>1. ts \in Seq(Types) /\ Len(ts) = 1 /\ ts[1] = t
  BY <1>0
<1>2. 0 \in 0..n
  OBVIOUS
<1> HIDE DEF ts
<1>3. /\ a \in Seq(Pieces(n)) /\ Len(a) = 2 * Len(ts)
      /\ \A k \in 1..(2 * Len(ts)) : a[k].q = 0 /\ a[k].t = ts[(k + 1) \div 2]
  BY <1>1, <1>2, AnswersHold
<1> HIDE DEF a
<1>4. OfCall(a, 0)
  BY <1>3 DEF OfCall
<1>5. ASSUME NEW k \in 1..Len(a)
      PROVE  a[k].t \notin {"AuthenticationOk", "ReadyForQuery"}
  <2>1. k \in 1..(2 * Len(ts)) /\ (k + 1) \div 2 = 1
    BY <1>1, <1>3
  <2>2. a[k].t = t
    BY <1>1, <1>3, <2>1
  <2>3. QED
    BY <2>2
<1>6. QED
  BY <1>3, <1>4, <1>5 DEF PGAccepted, Streams, a, ts

\* performAuth(): nothing that the server sends after it has accepted the client
\* is mistaken for the answer to a query.
LEMMA PGAuthKeepsUp ==
  ASSUME NEW n \in Nat, NEW c \in Callers(n), c.step = "auth",
         NEW b \in Streams(n), NEW sent \in Streams(n), PGStream(c, b \o sent)
  PROVE  /\ GoodTurn(c, PG!performAuth(c, b), n)
         /\ KeepsUp("pg", c, PG!performAuth(c, b), sent)
<1> DEFINE w == b \o sent
           all == c.got \o b
           ms == Messages(all)
           asks == First(ms, {"AuthenticationMD5Password"})
           ends == First(ms, {"AuthenticationOk", "ReadyForQuery", "ErrorResponse"})
           kept == IF Rest(all) = <<>> THEN c.got ELSE Rest(all)
           turn == PG!performAuth(c, b)
<1>1. turn = IF ~InStep(all) THEN Astray(c)
             ELSE IF asks > 0 /\ c.kind = "no password" THEN Ends(Fails("error"), <<>>)
             ELSE IF ends > 0
                  THEN Ends(IF ms[ends].t = "ErrorResponse" THEN Fails("error")
                            ELSE Outcome("result", 0, ms), <<>>)
             ELSE Waits([c EXCEPT !.got = kept], <<>>,
                        IF asks > 0 THEN Answers(0, PG!Verdict(c.kind)) ELSE <<>>)
  BY PGAuthReads, Zenon
<1>2. /\ c.q = 0 /\ OfCall(c.got, 0) /\ OfCall(w, 0)
      /\ PGAccepted(c.got) \/ PGAccepted(w) =>
           PGClosed(w) /\ c.kind \notin {"denied", "no password"}
  BY Zenon DEF PGStream
<1>3. c.got \in Streams(n) /\ c.kind \in CallKinds
  BY DEF Callers
<1>4. all \in Streams(n) /\ <<>> \in Streams(n)
  BY <1>3, JoinHolds DEF Streams
<1>5. OfCall(b, 0) /\ OfCall(sent, 0)
  BY <1>2, OfCallJoin, Zenon DEF Streams
<1>6. OfCall(all, 0)
  BY <1>2, <1>3, <1>5, OfCallJoin, Zenon DEF Streams
<1>7. PGAccepted(all) => PGAccepted(c.got) \/ PGAccepted(w)
  BY <1>3, PGAcceptedJoin DEF Streams
<1>8. PGAccepted(sent) => PGAccepted(w)
  BY PGAcceptedJoin DEF Streams
<1>9. /\ w \in Streams(n) /\ Len(b) \in 0..Len(w) /\ sent = Drop(w, Len(b))
      /\ <<>> \o sent = sent /\ sent \o <<>> = sent
  BY SentHolds DEF Streams
<1>10. PGClosed(w) => PGClosed(sent)
  BY <1>9, PGClosedDrop DEF Streams
<1>11. /\ ms \in Streams(n) /\ Len(ms) = Len(all) \div 2 /\ Len(all) \div 2 \in Nat
       /\ \A i \in 1..(Len(all) \div 2) : 2 * i \in 1..Len(all) /\ ms[i] = all[2 * i]
  BY <1>4, MessagesHold DEF Streams
<1>12. kept \in Streams(n) /\ OfCall(kept, 0) /\ (PGAccepted(kept) => PGAccepted(c.got) \/ PGAccepted(w))
  <2>1. /\ Rest(all) \in Streams(n) /\ Rest(all) = Drop(all, 2 * (Len(all) \div 2))
        /\ 2 * (Len(all) \div 2) \in 0..Len(all)
    BY <1>4, RestHolds DEF Streams
  <2>2. OfCall(Rest(all), 0)
    BY <1>4, <1>6, <2>1, OfCallDrop DEF Streams
  <2>3. PGAccepted(Rest(all)) => PGAccepted(all)
    BY <1>4, <2>1, PGAcceptedDrop DEF Streams
  <2> HIDE DEF all, w
  <2>4. QED
    BY <1>2, <1>3, <1>7, <2>1, <2>2, <2>3, Zenon
<1> HIDE DEF w, all, ms, asks, ends, kept, turn
<1>13. CASE ~InStep(all)
  <2>1. turn = Astray(c)
    BY <1>1, <1>13
  <2>2. GoodTurn(c, Astray(c), n) /\ Astray(c).lost = TRUE
    BY AstrayIsLost
  <2>3. QED
    BY <2>1, <2>2, LostKeepsUp DEF turn
<1>14. ASSUME NEW o \in Outcomes(n), turn = Ends(o, <<>>),
              o.status = "result" => PGClosed(sent)
       PROVE  GoodTurn(c, turn, n) /\ KeepsUp("pg", c, turn, sent)
  <2>1. GoodTurn(c, turn, n)
    <3>1. c.q = 0
      BY <1>2, Zenon
    <3>2. ~(c.q > 0)
      BY <3>1
    <3>3. QED
      BY <1>4, <1>14, <3>2, EndsWell
  <2>2. o.status = "result" => Stream("pg", NoCall, <<>> \o sent)
    BY <1>9, <1>14, PGIsStream, PGNoCall
  <2>3. KeepsUp("pg", c, turn, sent)
    BY <1>2, <1>14, <2>2, EndsKeepUp, Zenon DEF Streams
  <2>4. QED
    BY <2>1, <2>3
<1>15. Fails("error") \in Outcomes(n) /\ Fails("error").status # "result"
  <2>1. "error" \in Statuses
    BY DEF Statuses
  <2>2. QED
    BY <2>1, FailsWell
<1>16. CASE InStep(all) /\ asks > 0 /\ c.kind = "no password"
  <2>1. turn = Ends(Fails("error"), <<>>)
    BY <1>1, <1>16, Zenon
  <2>2. QED
    BY <1>14, <1>15, <2>1 DEF turn
<1>17. CASE InStep(all) /\ ~(asks > 0 /\ c.kind = "no password") /\ ends > 0
  <2>1. turn = Ends(IF ms[ends].t = "ErrorResponse" THEN Fails("error")
                    ELSE Outcome("result", 0, ms), <<>>)
    BY <1>1, <1>17, Zenon
  <2>2. CASE ms[ends].t = "ErrorResponse"
    <3>1. turn = Ends(Fails("error"), <<>>)
      BY <2>1, <2>2
    <3>2. QED
      BY <1>14, <1>15, <3>1 DEF turn
  <2>3. CASE ms[ends].t # "ErrorResponse"
    <3>1. ends \in 0..Len(ms)
          /\ ms[ends].t \in {"AuthenticationOk", "ReadyForQuery", "ErrorResponse"}
      BY <1>11, <1>17, FirstHolds, Zenon DEF ends, Streams
    <3>2. ends \in 1..(Len(all) \div 2)
      <4>1. ends > 0
        BY <1>17, Zenon
      <4>2. Len(ms) = Len(all) \div 2 /\ Len(all) \div 2 \in Nat
        BY <1>11
      <4>3. ends \in 0..Len(ms)
        BY <3>1
      <4>4. QED
        BY <4>1, <4>2, <4>3
    <3>3. 2 * ends \in 1..Len(all) /\ ms[ends] = all[2 * ends]
      BY <1>11, <3>2
    <3>4. all[2 * ends].t \in {"AuthenticationOk", "ReadyForQuery"}
      BY <2>3, <3>1, <3>3
    <3>5. PGAccepted(all)
      BY <3>3, <3>4 DEF PGAccepted
    <3>6. PGClosed(sent)
      BY <1>2, <1>7, <1>10, <3>5, Zenon
    <3>7. Outcome("result", 0, ms) \in Outcomes(n)
      <4>1. DOMAIN ms = 1..Len(ms) /\ \A i \in 1..Len(ms) : ms[i].q \in 0..n
        <5>1. ms \in Seq(Pieces(n))
          BY <1>11 DEF Streams
        <5>2. \A e \in Pieces(n) : e.q \in 0..n
          BY DEF Pieces
        <5>3. QED
          BY <5>1, <5>2
      <4>2. "result" \in Statuses /\ 0 \in Nat
        BY DEF Statuses
      <4>3. QED
        BY <4>1, <4>2, OutcomeTyped
    <3>8. turn = Ends(Outcome("result", 0, ms), <<>>)
      BY <2>1, <2>3
    <3>9. QED
      BY <1>14, <3>6, <3>7, <3>8 DEF turn
  <2>4. QED
    BY <2>2, <2>3
<1>18. CASE InStep(all) /\ ~(asks > 0 /\ c.kind = "no password") /\ ~(ends > 0)
  <2> DEFINE d == [c EXCEPT !.got = kept]
             more == IF asks > 0 THEN Answers(0, PG!Verdict(c.kind)) ELSE <<>>
  <2>1. turn = Waits(d, <<>>, more)
    BY <1>1, <1>18, Zenon
  <2>2. /\ d \in Callers(n) /\ d.step = "auth" /\ d.q = c.q /\ d.kind = c.kind
        /\ d.bound = c.bound /\ d.got = kept
    BY <1>12 DEF Callers
  <2>3. /\ more \in Streams(n) /\ OfCall(more, 0)
        /\ \/ ~PGAccepted(more)
           \/ more = <<>>
           \/ /\ PGEnd(more[Len(more)]) /\ more # <<>>
              /\ c.kind \notin {"denied", "no password"}
    <3> HIDE DEF more
    <3>1. CASE ~(asks > 0)
      <4>1. more = <<>>
        BY <3>1 DEF more
      <4>2. OfCall(<<>>, 0)
        BY DEF OfCall
      <4>3. QED
        BY <1>4, <4>1, <4>2
    <3>2. CASE asks > 0 /\ c.kind = "denied"
      <4>1. more = Answers(0, <<"ErrorResponse">>)
        BY <3>2 DEF PG!Verdict, more
      <4>2. \A t \in {"ErrorResponse", "AuthenticationMD5Password"} :
              /\ Answers(0, <<t>>) \in Streams(n) /\ OfCall(Answers(0, <<t>>), 0)
              /\ ~PGAccepted(Answers(0, <<t>>))
        BY PGStartupAsks
      <4>3. "ErrorResponse" \in {"ErrorResponse", "AuthenticationMD5Password"}
        OBVIOUS
      <4>4. QED
        BY <4>1, <4>2, <4>3, Zenon
    <3>3. CASE asks > 0 /\ c.kind # "denied"
      <4>1. more = Answers(0, PG!Ready) /\ c.kind # "no password"
        BY <1>18, <3>3, Zenon DEF PG!Verdict, more
      <4>2. QED
        BY <3>3, <4>1, PGStartupAccepts, Zenon
    <3>4. QED
      BY <3>1, <3>2, <3>3, Zenon
  <2> HIDE DEF d, more
  <2>4. GoodTurn(c, turn, n)
    <3>1. "auth" # "none"
      OBVIOUS
    <3>2. d.step # "none"
      BY <2>2, <3>1
    <3>3. GoodTurn(c, Waits(d, <<>>, more), n)
      BY <1>4, <2>2, <2>3, <3>2, WaitsWell, Zenon
    <3>4. QED
      BY <2>1, <3>3
  <2>5. PGStream(d, <<>> \o (sent \o more))
    <3> DEFINE v == sent \o more
    <3>1. v \in Streams(n) /\ <<>> \o v = v
      BY <2>3, JoinHolds, ConcatEmptySeq, Zenon DEF Streams
    <3>2. OfCall(v, 0)
      BY <1>5, <2>3, OfCallJoin, Zenon DEF Streams
    <3>3. PGAccepted(v) => PGAccepted(sent) \/ PGAccepted(more)
      BY <2>3, PGAcceptedJoin, Zenon DEF Streams
    <3>4. /\ Len(v) = Len(sent) + Len(more) /\ Len(sent) \in Nat /\ Len(more) \in Nat
          /\ \A i \in 1..Len(more) : v[i + Len(sent)] = more[i]
      <4>1. sent \in Seq(Pieces(n)) /\ more \in Seq(Pieces(n))
        BY <2>3, Zenon DEF Streams
      <4>2. QED
        BY <4>1, JoinHolds
    <3>5. more = <<>> => v = sent
      BY ConcatEmptySeq DEF Streams
    <3> HIDE DEF v
    <3>6. ASSUME PGAccepted(kept) \/ PGAccepted(v)
          PROVE  PGClosed(v) /\ c.kind \notin {"denied", "no password"}
      <4>1. CASE more = <<>>
        <5>1. PGAccepted(c.got) \/ PGAccepted(w)
          BY <1>8, <1>12, <3>5, <3>6, <4>1
        <5>2. QED
          BY <1>2, <1>10, <3>5, <4>1, <5>1, Zenon
      <4>2. CASE PGEnd(more[Len(more)]) /\ more # <<>>
                 /\ c.kind \notin {"denied", "no password"}
        <5>1. Len(more) \in 1..Len(more)
          <6>1. Len(more) # 0
            BY <2>3, <4>2, EmptySeq, Zenon DEF Streams
          <6>2. QED
            BY <3>4, <6>1
        <5>2. Len(v) = Len(more) + Len(sent)
          BY <3>4
        <5>3. v[Len(v)] = more[Len(more)]
          BY <3>4, <5>1, <5>2
        <5>4. PGClosed(v)
          BY <3>1, <3>2, <4>2, <5>3, PGClosedByLast, Zenon DEF OfCall, Streams
        <5>5. QED
          BY <4>2, <5>4, Zenon
      <4>3. CASE more # <<>> /\ ~PGAccepted(more)
        <5>1. PGAccepted(c.got) \/ PGAccepted(w)
          BY <1>8, <1>12, <3>3, <3>6, <4>3
        <5>2. c.kind \notin {"denied", "no password"}
          BY <1>2, <5>1, Zenon
        <5>3. asks > 0
          BY <4>3 DEF more
        <5>4. more = Answers(0, PG!Ready)
          BY <5>2, <5>3, Zenon DEF more, PG!Verdict
        <5>5. PGClosed(more) /\ PGClosed(sent)
          BY <1>2, <1>10, <5>1, <5>4, PGStartupAccepts, Zenon
        <5>6. PGClosed(v)
          BY <2>3, <5>5, PGClosedJoin, Zenon DEF Streams, v
        <5>7. QED
          BY <5>2, <5>6, Zenon
      <4>4. QED
        BY <2>3, <4>1, <4>2, <4>3, Zenon
    <3>7. QED
      BY <1>2, <1>12, <2>2, <3>1, <3>2, <3>6, Zenon DEF PGStream, v
  <2>6. KeepsUp("pg", c, turn, sent)
    <3>1. Stream("pg", d, <<>> \o (sent \o more))
      BY <2>5, PGIsStream
    <3>2. QED
      BY <2>1, <3>1, WaitsKeepUp
  <2>7. QED
    BY <2>4, <2>6 DEF turn
<1>19. QED
  BY <1>13, <1>16, <1>17, <1>18, Zenon DEF turn

\* query() and queryParams(): what they have collected up to ReadyForQuery is the
\* answer to one call.
LEMMA PGQueryKeepsUp ==
  ASSUME NEW n \in Nat, NEW c \in Callers(n), c.step # "auth", c.step # "none",
         NEW b \in Streams(n), NEW sent \in Streams(n), PGStream(c, b \o sent)
  PROVE  /\ GoodTurn(c, PG!readMessages(c, b), n)
         /\ KeepsUp("pg", c, PG!readMessages(c, b), sent)
<1> DEFINE w == b \o sent
           ms == Messages(b)
           end == First(ms, {"ReadyForQuery"})
           read == IF end > 0 THEN SubSeq(ms, 1, end) ELSE ms
           seen == c.got \o read
           turn == PG!readMessages(c, b)
<1>1. turn = IF ~InStep(b) THEN Astray(c)
             ELSE IF end > 0
                  THEN Ends(IF Count(seen, "ErrorResponse") > 0 THEN Outcome("error", 0, seen)
                            ELSE Outcome("result", Count(seen, "DataRow"), seen), <<>>)
             ELSE IF Rest(b) # <<>> THEN Ends(Fails("timeout"), Rest(b))
             ELSE Waits([c EXCEPT !.got = seen], <<>>, <<>>)
  BY PGReads
<1>2. PGClosed(w) /\ PGGot(c.got, w)
  BY DEF PGStream
<1>3. c.got \in Streams(n) /\ <<>> \in Streams(n)
  BY DEF Callers, Streams
<1>4. /\ w \in Streams(n) /\ Len(w) = Len(b) + Len(sent) /\ Len(b) \in Nat /\ Len(sent) \in Nat
      /\ \A i \in 1..Len(b) : w[i] = b[i]
      /\ \A i \in 1..Len(sent) : w[i + Len(b)] = sent[i]
      /\ Len(b) \in 0..Len(w)
      /\ sent = Drop(w, Len(b))
      /\ <<>> \o sent = sent /\ sent \o <<>> = sent
      /\ Rest(b) \o sent = Drop(w, 2 * (Len(b) \div 2))
      /\ 2 * (Len(b) \div 2) \in 0..Len(w)
  <2>1. b \in Seq(Pieces(n)) /\ sent \in Seq(Pieces(n))
    BY DEF Streams
  <2>2. QED
    BY <2>1, SentHolds, SMTT(60) DEF Streams
<1>5. PGClosed(sent) /\ PGClosed(Rest(b) \o sent)
  <2>1. w \in Seq(Pieces(n)) /\ Len(b) \in 0..Len(w) /\ 2 * (Len(b) \div 2) \in 0..Len(w)
    BY <1>4 DEF Streams
  <2> HIDE DEF w
  <2>2. PGClosed(Drop(w, Len(b))) /\ PGClosed(Drop(w, 2 * (Len(b) \div 2)))
    BY <1>2, <2>1, PGClosedDrop
  <2>3. QED
    BY <1>4, <2>2
<1>6. /\ ms \in Streams(n) /\ Len(ms) = Len(b) \div 2 /\ Len(b) \div 2 \in Nat
      /\ \A i \in 1..(Len(b) \div 2) : 2 * i \in 1..Len(b) /\ ms[i] = b[2 * i]
  BY MessagesHold DEF Streams
<1>7. /\ end \in 0..Len(ms)
      /\ end = 0 => \A i \in 1..Len(ms) : ms[i].t \notin {"ReadyForQuery"}
      /\ end > 0 => ms[end].t \in {"ReadyForQuery"}
      /\ \A i \in 1..Len(ms) : i < end => ms[i].t \notin {"ReadyForQuery"}
  BY <1>6, FirstHolds DEF Streams
<1>8. Rest(b) \in Streams(n)
  BY RestHolds DEF Streams
<1> HIDE DEF w, ms, end
<1>9. read \in Streams(n) /\ Len(read) = (IF end > 0 THEN end ELSE Len(ms))
      /\ \A i \in 1..Len(read) : i \in 1..Len(ms) /\ read[i] = ms[i]
  <2>1. CASE end > 0
    <3>1. end \in 0..Len(ms) /\ Len(ms) \in Nat
      BY <1>6, <1>7
    <3>2. ms \in Seq(Pieces(n))
      BY <1>6 DEF Streams
    <3>3. \A i \in 1..end : i \in 1..Len(ms) /\ ms[i] \in Pieces(n)
      BY <3>1, <3>2
    <3>4. /\ SubSeq(ms, 1, end) \in Seq(Pieces(n)) /\ Len(SubSeq(ms, 1, end)) = end
          /\ \A i \in 1..end : SubSeq(ms, 1, end)[i] = ms[i]
      BY <2>1, <3>1, <3>2, <3>3, SubSeqProperties
    <3>5. QED
      BY <2>1, <3>3, <3>4 DEF Streams
  <2>2. CASE ~(end > 0)
    BY <1>6, <2>2
  <2>3. QED
    BY <2>1, <2>2
<1> HIDE DEF read
<1>10. /\ seen \in Streams(n) /\ Len(seen) = Len(c.got) + Len(read)
       /\ Len(c.got) \in Nat /\ Len(read) \in Nat
       /\ \A i \in 1..Len(c.got) : seen[i] = c.got[i]
       /\ \A i \in (Len(c.got) + 1)..(Len(c.got) + Len(read)) : seen[i] = read[i - Len(c.got)]
  <2>1. c.got \in Seq(Pieces(n)) /\ read \in Seq(Pieces(n))
    BY <1>3, <1>9 DEF Streams
  <2>2. QED
    BY <2>1, JoinHolds DEF Streams
<1> HIDE DEF seen, turn
\* An end within the buffer is one that the method sees.
<1>11. ASSUME InStep(b), NEW m \in 1..Len(b), PGEnd(w[m])
       PROVE  end > 0 /\ 2 * end <= m
  <2>1. w[m] = b[m] /\ b[m].t = "ReadyForQuery" /\ b[m].half = 2
    BY <1>4, <1>11 DEF PGEnd
  <2>2. m % 2 # 1
    BY <1>11, <2>1 DEF InStep
  <2>3. m \div 2 \in 1..(Len(b) \div 2) /\ 2 * (m \div 2) = m
    BY <1>4, <2>2
  <2>4. ms[m \div 2].t = "ReadyForQuery" /\ m \div 2 \in 1..Len(ms)
    BY <1>6, <2>1, <2>3
  <2>5. end \in Nat /\ end # 0 /\ ~(m \div 2 < end)
    BY <1>7, <2>4
  <2>6. QED
    BY <2>3, <2>5
<1>12. CASE ~InStep(b)
  <2>1. turn = Astray(c)
    BY <1>1, <1>12
  <2>2. GoodTurn(c, Astray(c), n) /\ Astray(c).lost = TRUE
    BY AstrayIsLost
  <2>3. QED
    BY <2>1, <2>2, LostKeepsUp DEF turn
<1>13. ASSUME NEW o \in Outcomes(n), Cardinality(o.of) <= 1, NEW rest \in Streams(n),
              turn = Ends(o, rest), PGClosed(rest \o sent)
       PROVE  GoodTurn(c, turn, n) /\ KeepsUp("pg", c, turn, sent)
  <2>1. GoodTurn(c, turn, n)
    BY <1>13, EndsWell
  <2>2. Stream("pg", NoCall, rest \o sent)
    BY <1>13, PGIsStream, PGNoCall
  <2>3. KeepsUp("pg", c, turn, sent)
    BY <1>13, <2>2, EndsKeepUp DEF Streams
  <2>4. QED
    BY <2>1, <2>3
<1>14. CASE InStep(b) /\ end > 0
  <2>1. \A i \in 1..Len(seen) : seen[i].q = w[1].q
    <3>1. 1 \in 1..Len(w) /\ 2 * end \in 1..Len(b) /\ end \in 1..(Len(b) \div 2)
      <4>1. end > 0
        BY <1>14
      <4>2. end \in 1..(Len(b) \div 2)
        BY <1>6, <1>7, <4>1
      <4>3. 2 * end \in 1..Len(b)
        BY <1>6, <4>2
      <4>4. QED
        BY <1>4, <4>2, <4>3
    <3>2. PICK m \in 1..Len(w) : PGEnd(w[m]) /\ \A k \in 1..m : w[k].q = w[1].q
      BY <1>2, <3>1 DEF PGClosed
    <3>3. 2 * end <= m
      <4>1. CASE m \in 1..Len(b)
        <5>1. InStep(b)
          BY <1>14
        <5>2. QED
          BY <1>11, <3>2, <4>1, <5>1
      <4>2. CASE m \notin 1..Len(b)
        BY <1>4, <3>1, <4>2
      <4>3. QED
        BY <4>1, <4>2
    <3>4. ASSUME NEW i \in 1..Len(read) PROVE read[i].q = w[1].q
      <4>1. i \in 1..Len(ms) /\ read[i] = ms[i] /\ i <= end
        BY <1>9, <1>14
      <4>2. 2 * i \in 1..Len(b) /\ ms[i] = b[2 * i]
        BY <1>6, <4>1
      <4>3. w[2 * i] = b[2 * i]
        BY <1>4, <4>2
      <4>4. 2 * i \in 1..m
        BY <1>4, <3>1, <3>3, <4>1, <4>2
      <4>5. QED
        BY <3>2, <4>1, <4>2, <4>3, <4>4
    <3>5. ASSUME NEW i \in 1..Len(c.got) PROVE c.got[i].q = w[1].q
      <4>1. PICK l \in 1..Len(w) : PGEnd(w[l]) /\ \A k \in 1..l : w[k].q = c.got[i].q
        BY <1>2 DEF PGGot
      <4>2. 1 \in 1..l
        BY <1>4
      <4>3. QED
        BY <4>1, <4>2
    <3>6. ASSUME NEW i \in 1..Len(seen) PROVE seen[i].q = w[1].q
      <4>1. CASE i <= Len(c.got)
        <5>1. i \in 1..Len(c.got)
          BY <1>10, <4>1
        <5>2. seen[i] = c.got[i]
          BY <1>10, <5>1
        <5>3. QED
          BY <3>5, <5>1, <5>2
      <4>2. CASE i > Len(c.got)
        <5>1. i \in (Len(c.got) + 1)..(Len(c.got) + Len(read)) /\ i - Len(c.got) \in 1..Len(read)
          BY <1>10, <4>2
        <5>2. seen[i] = read[i - Len(c.got)]
          BY <1>10, <5>1
        <5>3. QED
          BY <3>4, <5>1, <5>2
      <4>3. QED
        BY <1>10, <4>1, <4>2
    <3>7. QED
      BY <3>6
  <2>2. \A status \in Statuses : \A rows \in Nat :
          Outcome(status, rows, seen) \in Outcomes(n)
          /\ Cardinality(Outcome(status, rows, seen).of) <= 1
    <3>1. DOMAIN seen = 1..Len(seen) /\ \A i \in 1..Len(seen) : seen[i].q \in 0..n
      <4>1. seen \in Seq(Pieces(n))
        BY <1>10 DEF Streams
      <4>2. \A e \in Pieces(n) : e.q \in 0..n
        BY DEF Pieces
      <4>3. QED
        BY <4>1, <4>2
    <3>2. Cardinality({seen[i].q : i \in 1..Len(seen)}) <= 1
      <4>1. \A x, y \in {seen[i].q : i \in 1..Len(seen)} : x = y
        BY <2>1
      <4>2. QED
        BY <4>1, AtMostOne
    <3>3. ASSUME NEW status \in Statuses, NEW rows \in Nat
          PROVE  Outcome(status, rows, seen) \in Outcomes(n)
                 /\ Cardinality(Outcome(status, rows, seen).of) <= 1
      <4>1. /\ Outcome(status, rows, seen) \in Outcomes(n)
            /\ Outcome(status, rows, seen).of = {seen[i].q : i \in 1..Len(seen)}
        BY <3>1, OutcomeTyped
      <4>2. QED
        BY <3>2, <4>1
    <3>4. QED
      BY <3>3
  <2>3. "error" \in Statuses /\ "result" \in Statuses /\ 0 \in Nat /\ Count(seen, "DataRow") \in Nat
    <3>1. seen \in Seq(Pieces(n))
      BY <1>10 DEF Streams
    <3>2. Count(seen, "DataRow") \in Nat
      BY <3>1, CountIsNatural
    <3>3. QED
      BY <3>2 DEF Statuses
  <2> DEFINE o == IF Count(seen, "ErrorResponse") > 0 THEN Outcome("error", 0, seen)
                  ELSE Outcome("result", Count(seen, "DataRow"), seen)
  <2>4. o \in Outcomes(n) /\ Cardinality(o.of) <= 1
    BY <2>2, <2>3
  <2>5. turn = Ends(o, <<>>)
    BY <1>1, <1>14
  <2> HIDE DEF o
  <2>6. PGClosed(<<>> \o sent)
    BY <1>4, <1>5
  <2>7. QED
    BY <1>3, <1>13, <2>4, <2>5, <2>6 DEF turn
<1>15. CASE InStep(b) /\ ~(end > 0) /\ Rest(b) # <<>>
  <2>1. turn = Ends(Fails("timeout"), Rest(b))
    BY <1>1, <1>15
  <2>2. "timeout" \in Statuses
    BY DEF Statuses
  <2>3. Fails("timeout") \in Outcomes(n) /\ Cardinality(Fails("timeout").of) <= 1
    BY <2>2, FailsWell
  <2>4. QED
    BY <1>5, <1>8, <1>13, <2>1, <2>3 DEF turn
<1>16. CASE InStep(b) /\ ~(end > 0) /\ Rest(b) = <<>>
  <2> DEFINE d == [c EXCEPT !.got = seen]
  <2>1. turn = Waits(d, <<>>, <<>>)
    BY <1>1, <1>16
  <2>2. /\ d \in Callers(n) /\ d.step = c.step /\ d.q = c.q /\ d.kind = c.kind
        /\ d.bound = c.bound /\ d.got = seen
    BY <1>10 DEF Callers
  <2> HIDE DEF d
  <2>3. GoodTurn(c, turn, n)
    BY <1>3, <2>1, <2>2, WaitsWell
  <2>4. PGGot(seen, sent)
    <3>1. ASSUME NEW m \in 1..Len(w), PGEnd(w[m]), NEW j \in 1..m,
                 \A k \in j..m : w[k].q = w[m].q, j <= Len(b) + 1
          PROVE  \E l \in 1..Len(sent) : PGEnd(sent[l]) /\ \A k \in 1..l : sent[k].q = w[m].q
      <4>1. m > Len(b)
        <5>1. m \notin 1..Len(b)
          BY <1>11, <1>16, <3>1
        <5>2. QED
          BY <1>4, <5>1
      <4>2. m - Len(b) \in 1..Len(sent) /\ (m - Len(b)) + Len(b) = m
        BY <1>4, <4>1
      <4>3. w[m] = sent[m - Len(b)]
        BY <1>4, <4>2
      <4>4. ASSUME NEW k \in 1..(m - Len(b)) PROVE sent[k].q = w[m].q
        <5>1. k \in 1..Len(sent) /\ k + Len(b) \in j..m
          BY <1>4, <3>1, <4>2
        <5>2. w[k + Len(b)] = sent[k] /\ w[k + Len(b)].q = w[m].q
          BY <1>4, <3>1, <5>1
        <5>3. QED
          BY <5>2
      <4>5. QED
        BY <3>1, <4>2, <4>3, <4>4
    <3>2. ASSUME NEW i \in 1..Len(seen)
          PROVE  /\ seen[i].t # "ReadyForQuery"
                 /\ \E l \in 1..Len(sent) :
                      PGEnd(sent[l]) /\ \A k \in 1..l : sent[k].q = seen[i].q
      <4>1. CASE i <= Len(c.got)
        <5>1. i \in 1..Len(c.got)
          BY <1>10, <4>1
        <5>2. seen[i] = c.got[i]
          BY <1>10, <5>1
        <5>3. /\ c.got[i].t # "ReadyForQuery"
              /\ \E m \in 1..Len(w) : PGEnd(w[m]) /\ \A k \in 1..m : w[k].q = c.got[i].q
          BY <1>2, <5>1 DEF PGGot
        <5>4. PICK m \in 1..Len(w) : PGEnd(w[m]) /\ \A k \in 1..m : w[k].q = c.got[i].q
          BY <5>3
        <5>5. 1 \in 1..m /\ 1 <= Len(b) + 1 /\ m \in 1..m
          BY <1>4
        <5>6. w[m].q = c.got[i].q /\ \A k \in 1..m : w[k].q = w[m].q
          BY <5>4, <5>5
        <5>12. \E l \in 1..Len(sent) : PGEnd(sent[l]) /\ \A k \in 1..l : sent[k].q = w[m].q
          BY <3>1, <5>4, <5>5, <5>6
        <5>7. QED
          BY <5>2, <5>3, <5>6, <5>12
      <4>2. CASE i > Len(c.got)
        <5> DEFINE j == i - Len(c.got)
        <5>1. i \in (Len(c.got) + 1)..(Len(c.got) + Len(read)) /\ j \in 1..Len(read)
          BY <1>10, <4>2
        <5>2. seen[i] = read[j]
          BY <1>10, <5>1
        <5> HIDE DEF j
        <5>3. j \in 1..Len(ms) /\ read[j] = ms[j]
          BY <1>9, <5>1
        <5>4. 2 * j \in 1..Len(b) /\ ms[j] = b[2 * j] /\ 2 * j \in 1..Len(w)
          BY <1>4, <1>6, <5>3
        <5>5. end = 0
          BY <1>6, <1>7, <1>16
        <5>6. ms[j].t # "ReadyForQuery"
          BY <1>7, <5>3, <5>5
        <5>7. PICK m \in (2 * j)..Len(w) :
                PGEnd(w[m]) /\ \A k \in (2 * j)..m : w[k].q = w[2 * j].q
          BY <1>2, <5>4 DEF PGClosed
        <5>8. m \in 1..Len(w) /\ 2 * j \in 1..m /\ 2 * j <= Len(b) + 1 /\ m \in (2 * j)..m
          BY <1>4, <5>4
        <5>12. w[m].q = w[2 * j].q /\ \A k \in (2 * j)..m : w[k].q = w[m].q
          BY <5>7, <5>8
        <5>9. \E l \in 1..Len(sent) : PGEnd(sent[l]) /\ \A k \in 1..l : sent[k].q = w[m].q
          BY <3>1, <5>7, <5>8, <5>12
        <5>10. w[2 * j] = seen[i]
          BY <1>4, <5>2, <5>3, <5>4
        <5>11. QED
          BY <5>2, <5>3, <5>6, <5>9, <5>10, <5>12
      <4>3. i <= Len(c.got) \/ i > Len(c.got)
        BY <1>10
      <4>4. QED
        BY <4>1, <4>2, <4>3
    <3>3. QED
      BY <3>2 DEF PGGot
  <2>5. PGStream(d, <<>> \o (sent \o <<>>))
    BY <1>4, <1>5, <2>2, <2>4 DEF PGStream
  <2>6. KeepsUp("pg", c, turn, sent)
    <3>1. Stream("pg", d, <<>> \o (sent \o <<>>))
      BY <2>5, PGIsStream
    <3>2. QED
      BY <2>1, <3>1, WaitsKeepUp
  <2>7. QED
    BY <2>3, <2>6 DEF turn
<1>17. QED
  BY <1>12, <1>14, <1>15, <1>16 DEF turn

LEMMA PGTurnKeepsUp ==
  ASSUME NEW n \in Nat, NEW c \in Callers(n), c.step # "none",
         NEW b \in Streams(n), NEW sent \in Streams(n), PGStream(c, b \o sent)
  PROVE  GoodTurn(c, PG!Reads(c, b), n) /\ KeepsUp("pg", c, PG!Reads(c, b), sent)
<1>1. CASE c.step = "auth"
  <2>1. PG!Reads(c, b) = PG!performAuth(c, b)
    BY <1>1 DEF PG!Reads
  <2>2. QED
    BY <1>1, <2>1, PGAuthKeepsUp
<1>2. CASE c.step # "auth"
  <2>1. PG!Reads(c, b) = PG!readMessages(c, b)
    BY <1>2 DEF PG!Reads
  <2>2. QED
    BY <1>2, <2>1, PGQueryKeepsUp
<1>3. QED
  BY <1>1, <1>2

\* What a request and a chunk have to keep, whatever the protocol.
LEMMA RequestKeeps ==
  ASSUME SessionInv, NEW kind \in CallKinds, NEW bound \in BOOLEAN,
         NEW step \in Steps \ {"none"}, NEW c, c = NextCall(kind, bound, step),
         NEW answer, Answers(Len(asked) + 1, answer) \in Streams(Len(asked) + 1),
         NEW turn,
         socket = "up" /\ Stream(protocol, NoCall, buffer \o net) =>
           /\ GoodTurn(c, turn, Len(asked) + 1)
           /\ KeepsUp(protocol, c, turn, net \o Answers(Len(asked) + 1, answer)),
         Asks(c, answer, turn), txn' \in Nat, protocol' = protocol
  PROVE  SessionInv'
<1>1. Session /\ Following
  BY DEF SessionInv
<1>2. Len(asked) \in Nat
  BY <1>1 DEF Session, FieldTypes
<1>3. c \in Callers(Len(asked) + 1) /\ c.q = Len(asked) + 1 /\ c.step # "none"
  <2> DEFINE n == Len(asked) + 1
  <2>1. n \in Nat /\ n \in 0..n
    BY <1>2
  <2>2. c = Call(n, kind, bound, step)
    BY DEF NextCall
  <2>3. step \in Steps /\ step # "none"
    OBVIOUS
  <2> SUFFICES c \in Callers(n) /\ c.q = n /\ c.step # "none"
    OBVIOUS
  <2> HIDE DEF n
  <2>4. QED
    BY <2>1, <2>2, <2>3, CallTyped
<1>4. c.q > 0
  BY <1>2, <1>3
<1>5. state = "ready" /\ call = NoCall
  BY DEF Asks
<1>6. socket = "up" /\ ~lost => Stream(protocol, NoCall, buffer \o net)
  BY <1>1, <1>5 DEF Following
<1>7. socket = "up" /\ ~lost =>
        /\ GoodTurn(c, turn, Len(asked) + 1)
        /\ KeepsUp(protocol, c, turn, net \o Answers(c.q, answer))
  BY <1>3, <1>6
<1>8. Answers(c.q, answer) \in Streams(Len(asked) + 1)
  BY <1>3
<1>9. Session'
  <2>1. socket = "up" /\ ~lost => GoodTurn(c, turn, Len(asked) + 1)
    BY <1>7
  <2>2. QED
    BY <1>1, <1>3, <1>8, <2>1, AsksHold
<1>10. Following'
  <2>1. socket = "up" /\ ~lost => KeepsUp(protocol, c, turn, net \o Answers(c.q, answer))
    BY <1>7
  <2>2. QED
    BY <1>4, <2>1, AsksFollow
<1>11. QED
  BY <1>9, <1>10 DEF SessionInv

LEMMA ChunkKeeps ==
  ASSUME SessionInv, NEW n \in 1..Len(net), NEW turn, NEW torn \in BOOLEAN,
         ASSUME call # NoCall, Stream(protocol, call, Arrived(n) \o Drop(net, n)),
                call.step # "none", Arrived(n) \in Streams(Len(asked)),
                Drop(net, n) \in Streams(Len(asked))
         PROVE  /\ GoodTurn(call, turn, Len(asked))
                /\ KeepsUp(protocol, call, turn, Drop(net, n)),
         Receives(n, turn, torn), protocol' = protocol,
         txn' \in Nat, txn' > 0 => state = "ready"
  PROVE  SessionInv'
<1>1. Session /\ Following
  BY DEF SessionInv
<1>2. /\ Len(asked) \in Nat /\ buffer \in Streams(Len(asked)) /\ net \in Streams(Len(asked))
      /\ state \in {"new", "connecting", "ready", "refused"}
  BY <1>1 DEF Session, FieldTypes
<1>3. /\ Arrived(n) \in Streams(Len(asked)) /\ Drop(net, n) \in Streams(Len(asked))
      /\ Arrived(n) \o Drop(net, n) = buffer \o net
  <2>1. n \in 0..Len(net)
    OBVIOUS
  <2>2. /\ buffer \o SubSeq(net, 1, n) \in Streams(Len(asked))
        /\ Drop(net, n) \in Streams(Len(asked))
        /\ ChunkJoins(buffer, net, n)
    BY <1>2, <2>1, ChunkTyped
  <2>3. Arrived(n) = buffer \o SubSeq(net, 1, n)
    BY DEF Arrived
  <2>4. Arrived(n) \o Drop(net, n) = buffer \o net
    BY <2>2, <2>3 DEF ChunkJoins
  <2>5. QED
    BY <2>2, <2>3, <2>4
<1>4. ASSUME call # NoCall
      PROVE  /\ GoodTurn(call, turn, Len(asked))
             /\ KeepsUp(protocol, call, turn, Drop(net, n))
  <2>1. call.step # "none" /\ state \in {"connecting", "ready"}
    BY <1>1, <1>2, <1>4 DEF Session, Suspended
  <2>2. socket = "up" /\ ~lost
    BY DEF Receives
  <2>3. Stream(protocol, call, buffer \o net)
    BY <1>1, <2>1, <2>2 DEF Following
  <2>4. QED
    BY <1>3, <1>4, <2>1, <2>3
<1>5. Session'
  BY <1>1, <1>4, ReceivesHold
<1>6. Following'
  BY <1>4, ReceivesFollow
<1>7. QED
  BY <1>5, <1>6 DEF SessionInv

LEMMA RejectKeeps ==
  ASSUME SessionInv, NEW how \in {"failed", "gone"}, Rejects(how), protocol' = protocol
  PROVE  SessionInv'
BY RejectsHold, RejectsFollow DEF SessionInv

LEMMA ConnectKeeps ==
  ASSUME SessionInv, NEW kind \in CallKinds, NEW step \in Steps \ {"none"},
         NEW greeting, \A n \in Nat : greeting \in Streams(n),
         Stream(protocol, Call(0, kind, FALSE, step), greeting), kind # "multi",
         Connects(kind, step, greeting), protocol' = protocol
  PROVE  SessionInv'
<1>1. Session /\ Following
  BY DEF SessionInv
<1>2. Len(asked) \in Nat
  BY <1>1 DEF Session, FieldTypes
<1>3. greeting \in Streams(Len(asked))
  BY <1>2
<1>4. Session'
  BY <1>1, <1>3, ConnectsHold
<1>5. Following'
  BY <1>3, ConnectsFollow
<1>6. QED
  BY <1>4, <1>5 DEF SessionInv

\* A stream, and an answer after it.
Associate(b, s, a, n) ==
  b \o (s \o a) = (b \o s) \o a /\ b \o s \in Streams(n) /\ s \o a \in Streams(n)

LEMMA StreamsAssociate ==
  ASSUME NEW n \in Nat, NEW b \in Streams(n), NEW s \in Streams(n), NEW a \in Streams(n)
  PROVE  Associate(b, s, a, n)
<1>1. b \in Seq(Pieces(n)) /\ s \in Seq(Pieces(n)) /\ a \in Seq(Pieces(n))
  BY DEF Streams
<1>2. b \o (s \o a) = (b \o s) \o a
  BY <1>1
<1>3. b \o s \in Streams(n) /\ s \o a \in Streams(n)
  BY <1>1, JoinHolds DEF Streams
<1>4. QED
  BY <1>2, <1>3 DEF Associate

LEMMA PGRequestKeeps ==
  ASSUME SessionInv, protocol = "pg", NEW kind \in PG!Kinds, NEW bound \in BOOLEAN,
         PG!Requests(kind, bound, "query", PG!Answer(kind, bound)),
         txn' = txn, protocol' = protocol
  PROVE  SessionInv'
<1> DEFINE n == Len(asked) + 1
           c == NextCall(kind, bound, "query")
           answer == PG!Answer(kind, bound)
           turn == PG!Reads(c, buffer)
           a == Answers(n, answer)
<1>1. Asks(c, answer, turn)
  BY PGShares DEF PG!Requests
<1>2. /\ Session /\ FieldTypes /\ Len(asked) \in Nat /\ n \in Nat /\ n \in 0..n
  BY DEF SessionInv, Session, FieldTypes
<1>3. kind \in CallKinds /\ "query" \in Steps \ {"none"} /\ "query" # "auth" /\ "query" # "none"
  BY Zenon DEF PG!Kinds, CallKinds, Steps
<1>4. buffer \in Streams(n) /\ net \in Streams(n)
  <2>1. Streams(Len(asked)) \subseteq Streams(n)
    BY <1>2, MoreCalls
  <2>2. QED
    BY <1>2, <2>1 DEF FieldTypes
<1>5. c = Call(n, kind, bound, "query")
  BY DEF NextCall
<1>6. answer \in Seq(Types) /\ answer # <<>> /\ answer[Len(answer)] = "ReadyForQuery"
  BY PGAnswersEnd
<1> HIDE DEF n, c, answer, turn
<1>7. c \in Callers(n) /\ c.step = "query" /\ c.got = <<>>
  BY <1>2, <1>3, <1>5, CallTyped
<1>8. a \in Streams(n) /\ PGClosed(a)
  BY <1>2, <1>6, AnswersHold, PGClosedAnswers DEF Streams
<1> HIDE DEF a
<1>9. ASSUME Stream("pg", NoCall, buffer \o net)
      PROVE  GoodTurn(c, turn, n) /\ KeepsUp("pg", c, turn, net \o a)
  <2>1. PGClosed(buffer \o net)
    <3>1. PGStream(NoCall, buffer \o net)
      BY <1>9, PGIsStream
    <3>2. NoCall.step # "auth"
      BY DEF NoCall, Call
    <3>3. QED
      BY <3>1, <3>2 DEF PGStream
  <2>2. buffer \o (net \o a) = (buffer \o net) \o a /\ buffer \o net \in Streams(n)
        /\ net \o a \in Streams(n)
    <3>1. Associate(buffer, net, a, n)
      BY <1>2, <1>4, <1>8, StreamsAssociate
    <3>2. QED
      BY <3>1 DEF Associate
  <2>3. PGClosed(buffer \o (net \o a))
    BY <1>8, <2>1, <2>2, PGClosedJoin DEF Streams
  <2>4. PGGot(c.got, buffer \o (net \o a))
    <3>1. Len(c.got) = 0
      BY <1>7
    <3>2. QED
      BY <3>1 DEF PGGot
  <2>5. PGStream(c, buffer \o (net \o a))
    BY <1>3, <1>7, <2>3, <2>4 DEF PGStream
  <2>6. c.step # "none"
    BY <1>3, <1>7
  <2>7. QED
    BY <1>2, <1>4, <1>7, <2>2, <2>5, <2>6, PGTurnKeepsUp DEF turn
<1>10. txn' \in Nat
  BY <1>2 DEF FieldTypes
<1>11. socket = "up" /\ Stream(protocol, NoCall, buffer \o net) =>
         /\ GoodTurn(c, turn, Len(asked) + 1)
         /\ KeepsUp(protocol, c, turn, net \o Answers(Len(asked) + 1, answer))
  BY <1>9 DEF n, a
<1>12. Answers(Len(asked) + 1, answer) \in Streams(Len(asked) + 1)
  BY <1>8 DEF a, n
<1>13. c = NextCall(kind, bound, "query")
  BY DEF c
<1>14. QED
  BY <1>1, <1>3, <1>10, <1>11, <1>12, <1>13, RequestKeeps

LEMMA PGChunkKeeps ==
  ASSUME SessionInv, protocol = "pg", PG!onData, protocol' = protocol
  PROVE  SessionInv'
<1>1. PICK n \in 1..Len(net) :
        PG!Receives(n, PG!Reads(call, PG!Arrived(n)), n < Len(net) /\ PG!Torn(net[n + 1]))
  BY DEF PG!onData
<1> DEFINE turn == PG!Reads(call, Arrived(n))
           torn == n < Len(net) /\ PG!Torn(net[n + 1])
<1>2. Receives(n, turn, torn)
  BY <1>1, PGShares
<1>3. txn' = txn
  BY DEF PG!onData
<1>4. torn \in BOOLEAN
  OBVIOUS
<1>5. /\ Len(asked) \in Nat /\ call \in Callers(Len(asked)) /\ txn \in Nat
      /\ (txn > 0 => state = "ready")
  BY DEF SessionInv, Session, FieldTypes, Suspended
<1> HIDE DEF turn, torn
<1>6. ASSUME call # NoCall, Stream(protocol, call, Arrived(n) \o Drop(net, n)),
             call.step # "none", Arrived(n) \in Streams(Len(asked)),
             Drop(net, n) \in Streams(Len(asked))
      PROVE  /\ GoodTurn(call, turn, Len(asked))
             /\ KeepsUp(protocol, call, turn, Drop(net, n))
  <2>1. PGStream(call, Arrived(n) \o Drop(net, n))
    BY <1>6, PGIsStream
  <2>2. QED
    BY <1>5, <1>6, <2>1, PGTurnKeepsUp DEF turn
<1>7. QED
  BY <1>2, <1>3, <1>4, <1>5, <1>6, ChunkKeeps, Zenon

LEMMA PGConnectKeeps ==
  ASSUME SessionInv, protocol = "pg", PG!connect, protocol' = protocol
  PROVE  SessionInv'
<1>1. PICK auth \in PG!Auths : PG!Connects(auth, "auth", PG!Answers(0, PG!Greeting(auth)))
  BY DEF PG!connect
<1> DEFINE g == Answers(0, PG!Greeting(auth))
           c == Call(0, auth, FALSE, "auth")
<1>2. Connects(auth, "auth", g)
  BY <1>1, PGShares
<1>3. auth \in CallKinds /\ "auth" \in Steps \ {"none"}
  BY Zenon DEF PG!Auths, CallKinds, Steps
<1>4. \A n \in Nat : g \in Streams(n)
  <2>1. ASSUME NEW n \in Nat PROVE g \in Streams(n)
    <3>1. CASE auth = "trust"
      BY <3>1, PGStartupAccepts DEF PG!Greeting
    <3>2. CASE auth # "trust"
      <4>1. \A t \in {"ErrorResponse", "AuthenticationMD5Password", "AuthenticationSASL"} :
              Answers(0, <<t>>) \in Streams(n)
        BY PGStartupAsks
      <4>2. \/ PG!Greeting(auth) = <<"AuthenticationSASL">>
            \/ PG!Greeting(auth) = <<"AuthenticationMD5Password">>
        BY <3>2 DEF PG!Greeting
      <4>3. QED
        BY <4>1, <4>2
    <3>3. QED
      BY <3>1, <3>2
  <2>2. QED
    BY <2>1
<1>5. PGStream(c, g)
  <2>1. c.step = "auth" /\ c.q = 0 /\ c.got = <<>> /\ c.kind = auth
    BY DEF Call
  <2>2. 0 \in Nat
    OBVIOUS
  <2> HIDE DEF c
  <2>3. OfCall(c.got, 0) /\ ~PGAccepted(c.got)
    <3>1. OfCall(<<>>, 0) /\ ~PGAccepted(<<>>)
      BY DEF OfCall, PGAccepted
    <3>2. QED
      BY <2>1, <3>1
  <2>4. CASE auth = "trust"
    <3>1. g = Answers(0, PG!Ready) /\ auth \notin {"denied", "no password"}
      BY <2>4 DEF PG!Greeting
    <3>2. OfCall(g, 0) /\ PGClosed(g)
      BY <2>2, <3>1, PGStartupAccepts, Zenon
    <3> HIDE DEF g
    <3>3. QED
      BY <2>1, <2>3, <3>1, <3>2, Zenon DEF PGStream
  <2>5. CASE auth # "trust"
    <3>1. \A t \in {"ErrorResponse", "AuthenticationMD5Password", "AuthenticationSASL"} :
            OfCall(Answers(0, <<t>>), 0) /\ ~PGAccepted(Answers(0, <<t>>))
      BY <2>2, PGStartupAsks
    <3>2. \/ PG!Greeting(auth) = <<"AuthenticationSASL">>
          \/ PG!Greeting(auth) = <<"AuthenticationMD5Password">>
      BY <2>5 DEF PG!Greeting
    <3>3. OfCall(g, 0) /\ ~PGAccepted(g)
      BY <3>1, <3>2
    <3> HIDE DEF g
    <3>4. QED
      BY <2>1, <2>3, <3>3, Zenon DEF PGStream
  <2>6. QED
    BY <2>4, <2>5
<1>6. Stream(protocol, c, g)
  BY <1>5, PGIsStream
<1> HIDE DEF g
<1>7. auth # "multi"
  BY Zenon DEF PG!Auths
<1>8. QED
  BY <1>2, <1>3, <1>4, <1>6, <1>7, ConnectKeeps

LEMMA PGKeeps ==
  ASSUME SessionInv, protocol = "pg", PG!Next, protocol' = protocol
  PROVE  SessionInv'
<1>1. CASE PG!connect
  BY <1>1, PGConnectKeeps
<1>2. CASE PG!query
  <2>1. PICK kind \in PG!Kinds :
          PG!Requests(kind, FALSE, "query", PG!Answer(kind, FALSE)) /\ txn' = txn
    BY <1>2 DEF PG!query
  <2>2. \A bound \in BOOLEAN :
          PG!Requests(kind, bound, "query", PG!Answer(kind, bound)) => SessionInv'
    BY <2>1, PGRequestKeeps
  <2>3. QED
    BY <2>1, <2>2
<1>3. CASE PG!queryParams
  <2>1. PICK kind \in PG!Kinds :
          PG!Requests(kind, TRUE, "query", PG!Answer(kind, TRUE)) /\ txn' = txn
    BY <1>3 DEF PG!queryParams
  <2>2. \A bound \in BOOLEAN :
          PG!Requests(kind, bound, "query", PG!Answer(kind, bound)) => SessionInv'
    BY <2>1, PGRequestKeeps
  <2>3. QED
    BY <2>1, <2>2
<1>4. CASE PG!onData
  BY <1>4, PGChunkKeeps
<1>5. CASE PG!onError \/ PG!onClose \/ PG!close
  <2>1. Rejects("failed") \/ Rejects("gone")
    BY <1>5, PGShares DEF PG!onError, PG!onClose, PG!close
  <2>2. "failed" \in {"failed", "gone"} /\ "gone" \in {"failed", "gone"}
    OBVIOUS
  <2>3. QED
    BY <2>1, <2>2, RejectKeeps
<1>6. QED
  BY <1>1, <1>2, <1>3, <1>4, <1>5 DEF PG!Next

-----------------------------------------------------------------------------
(* MySQL                                                                    *)

LEMMA MySQLCounts == \A S : MySQL!Cardinality(S) = Cardinality(S)
BY DEF MySQL!Cardinality, Cardinality

LEMMA MySQLShares ==
  /\ \A n, t, torn : MySQL!Receives(n, t, torn) <=> Receives(n, t, torn)
  /\ \A c, answer, t : MySQL!Asks(c, answer, t) <=> Asks(c, answer, t)
  /\ \A how : MySQL!Rejects(how) <=> Rejects(how)
  /\ \A kind, step, greeting :
       MySQL!Connects(kind, step, greeting) <=> Connects(kind, step, greeting)
  /\ \A n : MySQL!Arrived(n) = Arrived(n)
  /\ \A kind, bound, step : MySQL!NextCall(kind, bound, step) = NextCall(kind, bound, step)
  /\ \A q, ts : MySQL!Answers(q, ts) = Answers(q, ts)
BY DEF MySQL!Receives, Receives, MySQL!Asks, Asks, MySQL!Rejects, Rejects, MySQL!Connects,
       Connects, MySQL!Arrived, Arrived, MySQL!NextCall, NextCall, MySQL!Answers, Answers,
       MySQL!Turns, Turns, MySQL!Drop, Drop, MySQL!NoCall, NoCall, MySQL!Call, Call,
       MySQL!Fails, Fails, MySQL!Outcome, Outcome

LEMMA MySQLAuthReads ==
  ASSUME NEW c, NEW b
  PROVE  MySQL!readAuth(c, b) =
    LET ps == Messages(b)
    IN  IF ps = <<>> THEN Waits([c EXCEPT !.step = "auth"], b, <<>>)
        ELSE Ends(MySQL!parseResponse(ps, FALSE), <<>>)
BY DEF MySQL!readAuth, MySQL!Messages, Messages, MySQL!Ends, Ends, MySQL!Waits, Waits,
       MySQL!NoCall, NoCall, MySQL!Call, Call

LEMMA MySQLHandshakeReads ==
  ASSUME NEW c, NEW b
  PROVE  MySQL!readHandshake(c, b) =
    LET ps == Messages(b)
    IN  IF ps = <<>> THEN Waits(c, b, <<>>)
        ELSE IF ps[1].t = "ERR" THEN Ends(Fails("error"), Rest(b))
        ELSE [MySQL!readAuth(c, Rest(b)) EXCEPT !.more = Answers(0, MySQL!Verdict(c.kind))]
BY DEF MySQL!readHandshake, MySQL!Messages, Messages, MySQL!Ends, Ends, MySQL!Waits, Waits,
       MySQL!NoCall, NoCall, MySQL!Call, Call, MySQL!Fails, Fails, MySQL!Outcome, Outcome,
       MySQL!Rest, Rest, MySQL!Last, Last, MySQL!Answers, Answers

LEMMA MySQLResponseReads ==
  ASSUME NEW c, NEW b
  PROVE  MySQL!readResponse(c, b) =
    LET ps == Messages(b)
    IN  IF ps = <<>> THEN Waits(c, b, <<>>)
        ELSE IF MySQL!Misplaced(ps[1]) THEN Astray(c)
        ELSE Ends(MySQL!parseResponse(ps, c.bound), Rest(b))
BY DEF MySQL!readResponse, MySQL!Messages, Messages, MySQL!Ends, Ends, MySQL!Waits, Waits,
       MySQL!NoCall, NoCall, MySQL!Call, Call, MySQL!Fails, Fails, MySQL!Outcome, Outcome,
       MySQL!Rest, Rest, MySQL!Last, Last, MySQL!Astray, Astray

LEMMA MySQLPreparedReads ==
  ASSUME NEW c, NEW b
  PROVE  MySQL!readPrepared(c, b) =
    LET ps == c.got \o Messages(b)
        execute == [c EXCEPT !.step = "execute", !.got = <<>>]
    IN  IF ps = <<>> THEN Waits(c, b, <<>>)
        ELSE IF ps[1].t \in {"ERR", "OK", "EOF"} THEN Ends(Fails("error"), Rest(b))
        ELSE IF ps[1].t \notin {"prepareOK0", "prepareOK1"} THEN Astray(c)
        ELSE IF Len(ps) < MySQL!parsePrepareOK(ps[1])
             THEN Waits([c EXCEPT !.got = ps], Rest(b), <<>>)
        ELSE [MySQL!readResponse(execute, Rest(b))
                EXCEPT !.more = Answers(c.q, MySQL!Answer(c.kind))]
BY DEF MySQL!readPrepared, MySQL!Messages, Messages, MySQL!Ends, Ends, MySQL!Waits, Waits,
       MySQL!NoCall, NoCall, MySQL!Call, Call, MySQL!Fails, Fails, MySQL!Outcome, Outcome,
       MySQL!Rest, Rest, MySQL!Last, Last, MySQL!Astray, Astray, MySQL!Answers, Answers

LEMMA MySQLInStep == \A b : MySQL!InStep(b) <=> InStep(b)
BY DEF MySQL!InStep, InStep

LEMMA MySQLPrepares ==
  ASSUME NEW c, NEW b, MySQL!InStep(b), c.step = "prepare"
  PROVE  MySQL!Reads(c, b) = MySQL!readPrepared(c, b)
BY DEF MySQL!Reads

LEMMA MySQLAstray == \A c : MySQL!Astray(c) = Astray(c)
BY DEF MySQL!Astray, Astray, MySQL!Waits, Waits

LEMMA MySQLParses ==
  ASSUME NEW ps, NEW binary
  PROVE  MySQL!parseResponse(ps, binary) =
    CASE ps[1].t = "ERR" -> Outcome("error", 0, <<ps[1]>>)
      [] ps[1].t \in {"OK", "EOF"} -> Outcome("result", 0, <<ps[1]>>)
      [] ps[1].t = "count" /\ Len(ps) > 1 -> MySQL!parseResultSet(ps, binary)
      [] OTHER -> Fails("error")
BY DEF MySQL!parseResponse, MySQL!Fails, Fails, MySQL!Outcome, Outcome

LEMMA MySQLOutcome == \A status, rows, ms : MySQL!Outcome(status, rows, ms) = Outcome(status, rows, ms)
BY DEF MySQL!Outcome, Outcome

\* The answers of the server: a column count comes first, and an end after it.
MySQLFits(ts) ==
  /\ ts \in Seq(Types)
  /\ \A i \in 1..Len(ts) :
       ts[i] = "count" => i = 1 /\ Len(ts) >= 4 /\ ts[Len(ts)] \in {"ERR", "EOF"}

LEMMA MySQLAnswersFit ==
  ASSUME NEW kind
  PROVE  /\ MySQLFits(MySQL!Answer(kind)) /\ MySQLFits(MySQL!Prepared(kind))
         /\ MySQLFits(MySQL!Greeting(kind)) /\ MySQLFits(MySQL!Verdict(kind))
<1>1. /\ MySQLFits(<<"ERR">>) /\ MySQLFits(<<"OK">>) /\ MySQLFits(<<"handshake">>)
      /\ MySQLFits(<<"prepareOK0", "param">>)
      /\ MySQLFits(<<"prepareOK1", "param", "prepared column">>)
  <2>1. MySQLFits(<<"ERR">>) /\ MySQLFits(<<"OK">>)
    BY DEF MySQLFits, Types
  <2>2. MySQLFits(<<"handshake">>)
    BY DEF MySQLFits, Types
  <2>3. MySQLFits(<<"prepareOK0", "param">>)
    BY DEF MySQLFits, Types
  <2>4. MySQLFits(<<"prepareOK1", "param", "prepared column">>)
    <3> DEFINE ts == <<"prepareOK1", "param", "prepared column">>
    <3>1. ts \in Seq(Types)
      BY DEF Types
    <3>2. \A i \in 1..Len(ts) : ts[i] # "count"
      <4>1. /\ Len(ts) = 3 /\ ts[1] = "prepareOK1" /\ ts[2] = "param"
            /\ ts[3] = "prepared column"
        OBVIOUS
      <4> HIDE DEF ts
      <4>2. \A i \in 1..3 : i = 1 \/ i = 2 \/ i = 3
        OBVIOUS
      <4>3. QED
        BY <4>1, <4>2, Zenon
    <3>3. QED
      BY <3>1, <3>2, Zenon DEF MySQLFits
  <2>5. QED
    BY <2>1, <2>2, <2>3, <2>4, Zenon
<1>2. MySQLFits(<<"count", "column", "row", "row", "EOF">>)
  BY DEF MySQLFits, Types
<1>3. MySQLFits(<<"count", "column", "blank", "row", "EOF">>)
  BY DEF MySQLFits, Types
<1>4. MySQLFits(<<"count", "column", "row", "ERR">>)
  BY DEF MySQLFits, Types
<1>5. MySQLFits(MySQL!Answer(kind))
  BY <1>1, <1>2, <1>3, <1>4, Zenon DEF MySQL!Answer
<1>6. MySQLFits(MySQL!Prepared(kind))
  BY <1>1, Zenon DEF MySQL!Prepared
<1>7. MySQLFits(MySQL!Greeting(kind)) /\ MySQLFits(MySQL!Verdict(kind))
  BY <1>1, Zenon DEF MySQL!Greeting, MySQL!Verdict
<1>8. QED
  BY <1>5, <1>6, <1>7

LEMMA MySQLAnswersStream ==
  ASSUME NEW n \in Nat, NEW q \in 0..n, NEW ts, MySQLFits(ts)
  PROVE  Answers(q, ts) \in Streams(n) /\ MySQLStream(Answers(q, ts))
<1> DEFINE a == Answers(q, ts)
<1>1. ts \in Seq(Types) /\ Len(ts) \in Nat
  BY DEF MySQLFits
<1>2. /\ a \in Seq(Pieces(n)) /\ Len(a) = 2 * Len(ts)
      /\ \A k \in 1..(2 * Len(ts)) :
           /\ a[k].q = q /\ a[k].t = ts[(k + 1) \div 2]
           /\ a[k].half = IF k % 2 = 1 THEN 1 ELSE 2
  BY <1>1, AnswersHold
<1> HIDE DEF a
<1>3. ASSUME NEW j \in 1..Len(a), a[j].t = "count", a[j].half = 2
      PROVE  \E m \in (j + 6)..Len(a) :
               /\ a[m].t \in {"ERR", "EOF"} /\ a[m].half = 2
               /\ \A k \in j..m : a[k].q = a[j].q
  <2>1. j \in 1..(2 * Len(ts)) /\ (j + 1) \div 2 \in 1..Len(ts)
    BY <1>1, <1>2
  <2>2. ts[(j + 1) \div 2] = "count" /\ j % 2 # 1
    BY <1>2, <1>3, <2>1
  <2>3. (j + 1) \div 2 = 1 /\ Len(ts) >= 4 /\ ts[Len(ts)] \in {"ERR", "EOF"}
    BY <2>1, <2>2 DEF MySQLFits
  <2>4. j = 2
    BY <2>1, <2>2, <2>3
  <2> DEFINE m == 2 * Len(ts)
  <2>5. m \in (j + 6)..Len(a) /\ m \in 1..(2 * Len(ts)) /\ (m + 1) \div 2 = Len(ts) /\ m % 2 # 1
    BY <1>1, <1>2, <2>3, <2>4
  <2> HIDE DEF m
  <2>6. a[m].t \in {"ERR", "EOF"} /\ a[m].half = 2
    BY <1>2, <2>3, <2>5
  <2>7. \A k \in j..m : k \in 1..(2 * Len(ts))
    BY <1>1, <2>1, <2>5
  <2>8. \A k \in j..m : a[k].q = a[j].q
    BY <1>2, <2>1, <2>7
  <2>9. QED
    BY <2>5, <2>6, <2>8
<1>4. MySQLStream(a)
  BY <1>3 DEF MySQLStream
<1>5. QED
  BY <1>2, <1>4 DEF a, Streams

LEMMA MySQLStreamDrop ==
  ASSUME NEW S, NEW w \in Seq(S), NEW d \in 0..Len(w), MySQLStream(w)
  PROVE  MySQLStream(Drop(w, d))
<1>4. /\ Len(Drop(w, d)) = Len(w) - d
      /\ \A i \in 1..(Len(w) - d) : Drop(w, d)[i] = w[i + d]
  BY DropHolds
<1>5. Len(w) \in Nat
  OBVIOUS
<1> DEFINE r == Drop(w, d)
<1>1. /\ Len(r) = Len(w) - d /\ Len(w) \in Nat
      /\ \A i \in 1..(Len(w) - d) : r[i] = w[i + d]
  BY <1>4, <1>5
<1> HIDE DEF r
<1>2. ASSUME NEW j \in 1..Len(r), r[j].t = "count", r[j].half = 2
      PROVE  \E m \in (j + 6)..Len(r) :
               /\ r[m].t \in {"ERR", "EOF"} /\ r[m].half = 2
               /\ \A k \in j..m : r[k].q = r[j].q
  <2>1. j + d \in 1..Len(w) /\ r[j] = w[j + d]
    BY <1>1
  <2>2. PICK m \in ((j + d) + 6)..Len(w) :
          /\ w[m].t \in {"ERR", "EOF"} /\ w[m].half = 2
          /\ \A k \in (j + d)..m : w[k].q = w[j + d].q
    BY <1>2, <2>1 DEF MySQLStream
  <2>3. m - d \in (j + 6)..Len(r) /\ r[m - d] = w[m]
    <3>1. m - d \in 1..(Len(w) - d) /\ (m - d) + d = m /\ m - d >= j + 6
      BY <1>1, <2>1
    <3>2. QED
      BY <1>1, <3>1
  <2>4. ASSUME NEW k \in j..(m - d) PROVE r[k].q = r[j].q
    <3>1. k \in 1..(Len(w) - d) /\ k + d \in (j + d)..m
      BY <1>1, <2>1
    <3>2. r[k] = w[k + d] /\ w[k + d].q = w[j + d].q
      BY <1>1, <2>2, <3>1
    <3>3. QED
      BY <2>1, <3>2
  <2>5. QED
    BY <2>2, <2>3, <2>4
<1>3. QED
  BY <1>2 DEF MySQLStream, r

LEMMA MySQLStreamJoin ==
  ASSUME NEW S, NEW a \in Seq(S), NEW b \in Seq(S), MySQLStream(a), MySQLStream(b)
  PROVE  MySQLStream(a \o b)
<1> DEFINE w == a \o b
<1>1. /\ Len(w) = Len(a) + Len(b) /\ Len(a) \in Nat /\ Len(b) \in Nat
      /\ \A i \in 1..Len(a) : w[i] = a[i]
      /\ \A i \in 1..Len(b) : w[i + Len(a)] = b[i]
  BY JoinHolds
<1> HIDE DEF w
<1>2. ASSUME NEW j \in 1..Len(w), w[j].t = "count", w[j].half = 2
      PROVE  \E m \in (j + 6)..Len(w) :
               /\ w[m].t \in {"ERR", "EOF"} /\ w[m].half = 2
               /\ \A k \in j..m : w[k].q = w[j].q
  <2>1. CASE j <= Len(a)
    <3>1. j \in 1..Len(a) /\ w[j] = a[j]
      BY <1>1, <2>1
    <3>2. PICK m \in (j + 6)..Len(a) :
            /\ a[m].t \in {"ERR", "EOF"} /\ a[m].half = 2
            /\ \A k \in j..m : a[k].q = a[j].q
      BY <1>2, <3>1 DEF MySQLStream
    <3>3. m \in (j + 6)..Len(w) /\ m \in 1..Len(a) /\ w[m] = a[m]
      BY <1>1, <3>1
    <3>4. \A k \in j..m : k \in 1..Len(a) /\ w[k] = a[k]
      BY <1>1, <3>1
    <3>5. QED
      BY <3>1, <3>2, <3>3, <3>4
  <2>2. CASE j > Len(a)
    <3> DEFINE i == j - Len(a)
    <3>1. i \in 1..Len(b) /\ i + Len(a) = j
      BY <1>1, <2>2
    <3> HIDE DEF i
    <3>2. w[j] = b[i]
      BY <1>1, <3>1
    <3>3. PICK m \in (i + 6)..Len(b) :
            /\ b[m].t \in {"ERR", "EOF"} /\ b[m].half = 2
            /\ \A k \in i..m : b[k].q = b[i].q
      BY <1>2, <3>1, <3>2 DEF MySQLStream
    <3>4. m \in 1..Len(b) /\ m + Len(a) \in (j + 6)..Len(w) /\ w[m + Len(a)] = b[m]
      BY <1>1, <3>1
    <3>5. ASSUME NEW k \in j..(m + Len(a)) PROVE w[k].q = w[j].q
      <4>1. k - Len(a) \in i..m /\ k - Len(a) \in 1..Len(b)
            /\ (k - Len(a)) + Len(a) = k
        BY <1>1, <3>1
      <4>2. w[k] = b[k - Len(a)] /\ b[k - Len(a)].q = b[i].q
        BY <1>1, <3>3, <4>1
      <4>3. QED
        BY <3>2, <4>2
    <3>6. QED
      BY <3>3, <3>4, <3>5
  <2>3. QED
    BY <1>1, <2>1, <2>2
<1>3. QED
  BY <1>2 DEF MySQLStream, w

\* parseResultSet() takes nothing from behind the first end it comes to.
LEMMA MySQLRowsEnd ==
  ASSUME NEW n \in Nat, NEW ps \in Streams(n), NEW binary \in BOOLEAN
  PROVE  \E read \in SUBSET (1..Len(ps)), r \in Nat :
           /\ MySQL!parseResultSet(ps, binary) = Outcome("result", r, [i \in read |-> ps[i]])
           /\ \A m \in 4..Len(ps) : ps[m].t \in {"ERR", "EOF"} => read \subseteq 1..m
<1> DEFINE start == IF Len(ps) > 2 /\ ps[3].t = "EOF" THEN 3 ELSE 2
           Terminates(i) ==
             \/ ps[i].t \in {"ERR", "EOF", "blank"}
             \/ ps[i].t = "row" /\ binary /\ i = Len(ps)
           ends == {i \in (start + 1)..Len(ps) : Terminates(i)}
           rows == {i \in (start + 1)..Len(ps) : \A e \in ends : i < e}
           read == {i \in 1..Len(ps) : \A e \in ends : i <= e}
<1>1. MySQL!parseResultSet(ps, binary)
        = Outcome("result", Cardinality(rows), [i \in read |-> ps[i]])
  BY MySQLCounts, MySQLOutcome DEF MySQL!parseResultSet
<1>2. start \in {2, 3} /\ Len(ps) \in Nat
  BY DEF Streams
<1> HIDE DEF start
<1>3. Cardinality(rows) \in Nat
  <2>1. rows \subseteq (start + 1)..Len(ps)
    OBVIOUS
  <2>2. IsFiniteSet((start + 1)..Len(ps))
    BY <1>2, FS_Interval
  <2> HIDE DEF rows
  <2>3. QED
    BY <2>1, <2>2, FS_Subset, FS_CardinalityType
<1>4. read \in SUBSET (1..Len(ps))
  OBVIOUS
<1>5. ASSUME NEW m \in 4..Len(ps), ps[m].t \in {"ERR", "EOF"} PROVE read \subseteq 1..m
  <2>1. m \in (start + 1)..Len(ps)
    BY <1>2
  <2>2. Terminates(m)
    BY <1>5
  <2>3. m \in ends
    BY <2>1, <2>2
  <2> HIDE DEF ends
  <2>4. \A i \in read : i \in 1..Len(ps) /\ i <= m
    BY <2>3
  <2>5. QED
    BY <1>2, <2>4
<1> HIDE DEF rows, read
<1>6. QED
  BY <1>1, <1>3, <1>4, <1>5

LEMMA MySQLParsed ==
  ASSUME NEW n \in Nat, NEW ps \in Streams(n), Len(ps) > 0, NEW binary \in BOOLEAN
  PROVE  /\ MySQL!parseResponse(ps, binary) \in Outcomes(n)
         /\ (\/ ~(ps[1].t = "count" /\ Len(ps) > 1)
             \/ \A k \in 1..Len(ps) : ps[k].q = ps[1].q
             \/ \E m \in 4..Len(ps) :
                  ps[m].t \in {"ERR", "EOF"} /\ \A k \in 1..m : ps[k].q = ps[1].q)
            => Cardinality(MySQL!parseResponse(ps, binary).of) <= 1
<1> DEFINE o == MySQL!parseResponse(ps, binary)
<1>1. /\ Len(ps) \in Nat /\ 1 \in 1..Len(ps)
      /\ \A i \in 1..Len(ps) : ps[i] \in Pieces(n) /\ ps[i].q \in 0..n
  <2>1. ps \in Seq(Pieces(n))
    BY DEF Streams
  <2>2. \A e \in Pieces(n) : e.q \in 0..n
    BY DEF Pieces
  <2>3. QED
    BY <2>1, <2>2
<1>2. "error" \in Statuses /\ "result" \in Statuses /\ 0 \in Nat
  BY DEF Statuses
<1>3. \A status \in Statuses :
        /\ Outcome(status, 0, <<ps[1]>>) \in Outcomes(n)
        /\ Cardinality(Outcome(status, 0, <<ps[1]>>).of) <= 1
  <2>1. ASSUME NEW status \in Statuses
        PROVE  /\ Outcome(status, 0, <<ps[1]>>) \in Outcomes(n)
               /\ Cardinality(Outcome(status, 0, <<ps[1]>>).of) <= 1
    <3> DEFINE ms == <<ps[1]>>
    <3>1. DOMAIN ms = {1} /\ \A i \in {1} : ms[i] = ps[1]
      OBVIOUS
    <3>2. \A i \in {1} : ms[i].q \in 0..n
      BY <1>1, <3>1
    <3> HIDE DEF ms
    <3>3. /\ Outcome(status, 0, ms) \in Outcomes(n)
          /\ Outcome(status, 0, ms).of = {ms[i].q : i \in {1}}
      BY <1>2, <3>1, <3>2, OutcomeTyped
    <3>4. {ms[i].q : i \in {1}} = {ms[1].q}
      OBVIOUS
    <3>5. Cardinality({ms[1].q}) <= 1
      <4>1. \A x, y \in {ms[1].q} : x = y
        OBVIOUS
      <4>2. QED
        BY <4>1, AtMostOne
    <3>6. Outcome(status, 0, ms) \in Outcomes(n) /\ Cardinality(Outcome(status, 0, ms).of) <= 1
      BY <3>3, <3>4, <3>5
    <3>7. QED
      BY <3>6 DEF ms
  <2>2. QED
    BY <2>1
<1>4. CASE ps[1].t = "ERR"
  <2>1. o = Outcome("error", 0, <<ps[1]>>)
    BY <1>4, MySQLParses
  <2>2. QED
    BY <1>2, <1>3, <2>1
<1>5. CASE ps[1].t \in {"OK", "EOF"}
  <2>1. o = Outcome("result", 0, <<ps[1]>>)
    BY <1>5, MySQLParses
  <2>2. QED
    BY <1>2, <1>3, <2>1
<1>6. CASE ps[1].t = "count" /\ Len(ps) > 1
  <2>1. o = MySQL!parseResultSet(ps, binary)
    BY <1>6, MySQLParses
  <2> HIDE DEF o
  <2>2. PICK read \in SUBSET (1..Len(ps)), r \in Nat :
          /\ o = Outcome("result", r, [i \in read |-> ps[i]])
          /\ \A m \in 4..Len(ps) : ps[m].t \in {"ERR", "EOF"} => read \subseteq 1..m
    BY <2>1, MySQLRowsEnd
  <2> DEFINE ms == [i \in read |-> ps[i]]
  <2>3. DOMAIN ms = read /\ \A i \in read : ms[i] = ps[i] /\ ms[i].q \in 0..n
    BY <1>1
  <2>4. o = Outcome("result", r, ms)
    BY <2>2
  <2> HIDE DEF ms
  <2>5. o \in Outcomes(n) /\ o.of = {ms[i].q : i \in read}
    <3>1. DOMAIN ms = read /\ \A i \in read : ms[i].q \in 0..n
      BY <2>3
    <3>2. "result" \in Statuses /\ r \in Nat
      BY <1>2
    <3>5. \A I, f : DOMAIN f = I /\ (\A i \in I : f[i].q \in 0..n) =>
            /\ Outcome("result", r, f) \in Outcomes(n)
            /\ Outcome("result", r, f).of = {f[i].q : i \in I}
      BY <3>2, OutcomeTyped
    <3>3. /\ Outcome("result", r, ms) \in Outcomes(n)
          /\ Outcome("result", r, ms).of = {ms[i].q : i \in read}
      BY <3>1, <3>5
    <3>4. QED
      BY <2>4, <3>3
  <2>6. ASSUME \A i \in read : ps[i].q = ps[1].q PROVE Cardinality(o.of) <= 1
    <3>1. \A x, y \in {ms[i].q : i \in read} : x = y
      BY <2>3, <2>6
    <3>2. QED
      BY <2>5, <3>1, AtMostOne
  <2>7. ASSUME \A k \in 1..Len(ps) : ps[k].q = ps[1].q PROVE Cardinality(o.of) <= 1
    BY <2>6, <2>7
  <2>8. ASSUME NEW m \in 4..Len(ps), ps[m].t \in {"ERR", "EOF"},
               \A k \in 1..m : ps[k].q = ps[1].q
        PROVE  Cardinality(o.of) <= 1
    BY <2>2, <2>6, <2>8
  <2>9. QED
    BY <1>6, <2>5, <2>7, <2>8 DEF o
<1>7. CASE /\ ps[1].t \notin {"ERR", "OK", "EOF"}
           /\ ~(ps[1].t = "count" /\ Len(ps) > 1)
  <2>1. o = Fails("error")
    BY <1>7, MySQLParses
  <2>2. Fails("error") \in Outcomes(n) /\ Cardinality(Fails("error").of) <= 1
    BY <1>2, FailsWell
  <2>3. QED
    BY <2>1, <2>2
<1>8. QED
  BY <1>4, <1>5, <1>6, <1>7

LEMMA MySQLIsStream == \A c, w : Stream("mysql", c, w) <=> MySQLStream(w)
BY DEF Stream

\* What is not a whole packet is not read.
LEMMA RestUnread ==
  ASSUME NEW S, NEW b \in Seq(S)
  PROVE  Messages(Rest(b)) = <<>>
<1>1. Rest(b) \in Seq(S) /\ Len(Rest(b)) = Len(b) % 2 /\ Len(b) \in Nat
  BY RestHolds
<1>2. Len(Rest(b)) \div 2 = 0
  BY <1>1
<1>3. Messages(Rest(b)) \in Seq(S) /\ Len(Messages(Rest(b))) = 0
  BY <1>1, <1>2, MessagesHold
<1>4. QED
  BY <1>3, EmptySeq

LEMMA MySQLPacketsParsed ==
  ASSUME NEW n \in Nat, NEW b \in Streams(n), NEW sent \in Streams(n), MySQLStream(b \o sent),
         InStep(b), Messages(b) # <<>>, NEW binary \in BOOLEAN
  PROVE  /\ MySQL!parseResponse(Messages(b), binary) \in Outcomes(n)
         /\ Cardinality(MySQL!parseResponse(Messages(b), binary).of) <= 1
<1> DEFINE w == b \o sent
           ps == Messages(b)
<1>1. /\ Len(w) = Len(b) + Len(sent) /\ Len(b) \in Nat /\ Len(sent) \in Nat
      /\ \A i \in 1..Len(b) : w[i] = b[i]
  BY JoinHolds DEF Streams
<1>2. /\ ps \in Streams(n) /\ Len(ps) = Len(b) \div 2 /\ Len(b) \div 2 \in Nat
      /\ \A i \in 1..(Len(b) \div 2) : 2 * i \in 1..Len(b) /\ ps[i] = b[2 * i]
  BY MessagesHold DEF Streams
<1>3. MySQLStream(w)
  OBVIOUS
<1>4. ps # <<>>
  OBVIOUS
<1> HIDE DEF w, ps
<1>5. Len(ps) > 0
  <2>1. Len(ps) # 0
    BY <1>2, <1>4, EmptySeq DEF Streams
  <2>2. QED
    BY <1>2, <2>1
<1>6. ASSUME ps[1].t = "count"
      PROVE  \/ \A k \in 1..Len(ps) : ps[k].q = ps[1].q
             \/ \E m \in 4..Len(ps) :
                  ps[m].t \in {"ERR", "EOF"} /\ \A k \in 1..m : ps[k].q = ps[1].q
  <2>1. 2 \in 1..Len(b) /\ ps[1] = b[2] /\ w[2] = b[2] /\ 2 \in 1..Len(w)
    <3>1. 1 \in 1..(Len(b) \div 2)
      BY <1>2, <1>5
    <3>2. 2 * 1 \in 1..Len(b) /\ ps[1] = b[2 * 1]
      BY <1>2, <3>1
    <3>3. 2 * 1 = 2
      OBVIOUS
    <3>4. QED
      BY <1>1, <3>2, <3>3
  <2>2. b[2].half = 2
    <3>1. 2 % 2 # 1
      OBVIOUS
    <3>2. QED
      BY <2>1, <3>1 DEF InStep
  <2>3. PICK m \in (2 + 6)..Len(w) :
          /\ w[m].t \in {"ERR", "EOF"} /\ w[m].half = 2
          /\ \A k \in 2..m : w[k].q = w[2].q
    BY <1>3, <1>6, <2>1, <2>2 DEF MySQLStream
  <2>4. ASSUME NEW k \in 1..Len(ps), 2 * k <= m PROVE ps[k].q = ps[1].q
    <3>1. 2 * k \in 1..Len(b) /\ ps[k] = b[2 * k]
      BY <1>2
    <3>2. w[2 * k] = b[2 * k] /\ 2 * k \in 2..m
      BY <1>1, <2>4, <3>1
    <3>3. QED
      BY <2>1, <2>3, <3>1, <3>2
  <2>5. CASE m <= Len(b)
    <3>1. m \in 1..Len(b) /\ w[m] = b[m]
      BY <1>1, <2>5
    <3>2. m % 2 # 1
      BY <2>3, <3>1 DEF InStep
    <3> DEFINE l == m \div 2
    <3>3. l \in 4..Len(ps) /\ 2 * l = m /\ l \in 1..(Len(b) \div 2)
      BY <1>1, <1>2, <3>1, <3>2
    <3> HIDE DEF l
    <3>4. ps[l] = b[m]
      BY <1>2, <3>3
    <3>5. ps[l].t \in {"ERR", "EOF"}
      BY <2>3, <3>1, <3>4
    <3>6. \A k \in 1..l : k \in 1..Len(ps) /\ 2 * k <= m
      BY <1>2, <3>3
    <3>7. \A k \in 1..l : ps[k].q = ps[1].q
      BY <2>4, <3>6
    <3>8. QED
      BY <3>3, <3>5, <3>7
  <2>6. CASE m > Len(b)
    <3>1. \A k \in 1..Len(ps) : 2 * k <= m
      BY <1>1, <1>2, <2>6
    <3>2. QED
      BY <2>4, <3>1
  <2>7. QED
    BY <1>1, <2>5, <2>6
<1>7. \/ ~(ps[1].t = "count" /\ Len(ps) > 1)
      \/ \A k \in 1..Len(ps) : ps[k].q = ps[1].q
      \/ \E m \in 4..Len(ps) :
           ps[m].t \in {"ERR", "EOF"} /\ \A k \in 1..m : ps[k].q = ps[1].q
  BY <1>6
<1>8. /\ MySQL!parseResponse(ps, binary) \in Outcomes(n)
      /\ Cardinality(MySQL!parseResponse(ps, binary).of) <= 1
  BY <1>2, <1>5, <1>7, MySQLParsed
<1>9. QED
  BY <1>8 DEF ps

\* What a step writes goes out although the step that follows it already waits.
LEMMA WaitsMore ==
  ASSUME NEW d, NEW rest, NEW more
  PROVE  [Waits(d, rest, <<>>) EXCEPT !.more = more] = Waits(d, rest, more)
<1>1. \A none, l : [[call |-> d, rest |-> rest, more |-> none, ends |-> none, lost |-> l]
                      EXCEPT !.more = more]
                   = [call |-> d, rest |-> rest, more |-> more, ends |-> none, lost |-> l]
  OBVIOUS
<1>2. QED
  BY <1>1 DEF Waits

\* Whatever the step, a result set is not read beyond the answer it begins.
LEMMA MySQLTurnKeepsUp ==
  ASSUME NEW n \in Nat, NEW c \in Callers(n), c.step # "none",
         NEW b \in Streams(n), NEW sent \in Streams(n), MySQLStream(b \o sent)
  PROVE  GoodTurn(c, MySQL!Reads(c, b), n) /\ KeepsUp("mysql", c, MySQL!Reads(c, b), sent)
<1> DEFINE w == b \o sent
           ps == Messages(b)
           Good(t) == GoodTurn(c, t, n) /\ KeepsUp("mysql", c, t, sent)
<1>1. /\ w \in Streams(n) /\ sent = Drop(w, Len(b)) /\ Len(b) \in 0..Len(w)
      /\ <<>> \o sent = sent /\ sent \o <<>> = sent
      /\ Rest(b) \o sent = Drop(w, 2 * (Len(b) \div 2))
      /\ 2 * (Len(b) \div 2) \in 0..Len(w)
  <2>1. b \in Seq(Pieces(n)) /\ sent \in Seq(Pieces(n))
    BY DEF Streams
  <2>2. QED
    BY <2>1, SentHolds DEF Streams
<1>2. MySQLStream(sent) /\ MySQLStream(Rest(b) \o sent) /\ MySQLStream(b \o sent)
  <2>1. w \in Seq(Pieces(n)) /\ Len(b) \in 0..Len(w) /\ 2 * (Len(b) \div 2) \in 0..Len(w)
    BY <1>1 DEF Streams
  <2>2. MySQLStream(w)
    OBVIOUS
  <2> HIDE DEF w
  <2>3. MySQLStream(Drop(w, Len(b))) /\ MySQLStream(Drop(w, 2 * (Len(b) \div 2)))
    BY <2>1, <2>2, MySQLStreamDrop
  <2>4. QED
    BY <1>1, <2>2, <2>3 DEF w
<1>3. Rest(b) \in Streams(n) /\ <<>> \in Streams(n) /\ Messages(Rest(b)) = <<>>
  BY RestHolds, RestUnread DEF Streams
<1>4. c.q \in 0..n /\ c.kind \in CallKinds /\ c.bound \in BOOLEAN /\ c.got \in Streams(n)
  BY DEF Callers
<1>5. ps \in Streams(n)
  BY MessagesHold DEF Streams
<1> HIDE DEF w, ps
<1>6. ASSUME NEW o \in Outcomes(n), Cardinality(o.of) <= 1, NEW rest \in {<<>>, Rest(b)}
      PROVE  Good(Ends(o, rest))
  <2>1. rest \in Streams(n)
    BY <1>3
  <2>2. GoodTurn(c, Ends(o, rest), n)
    BY <1>6, <2>1, EndsWell
  <2>3. Stream("mysql", NoCall, rest \o sent)
    BY <1>1, <1>2, MySQLIsStream
  <2>4. KeepsUp("mysql", c, Ends(o, rest), sent)
    BY <2>3, EndsKeepUp DEF Streams
  <2>5. QED
    BY <2>2, <2>4
<1>7. ASSUME NEW d \in Callers(n), d.step # "none", d.q = c.q, d.kind = c.kind,
             d.bound = c.bound, NEW rest \in {b, Rest(b)}, NEW more \in Streams(n),
             MySQLStream(more)
      PROVE  Good(Waits(d, rest, more))
  <2>1. rest \in Streams(n)
    BY <1>3
  <2>2. GoodTurn(c, Waits(d, rest, more), n)
    BY <1>7, <2>1, WaitsWell
  <2>3. MySQLStream(rest \o sent)
    BY <1>2
  <2>4. rest \o (sent \o more) = (rest \o sent) \o more /\ rest \o sent \in Streams(n)
    <3>1. \A x, y, z \in Streams(n) : Associate(x, y, z, n)
      BY StreamsAssociate
    <3>2. Associate(rest, sent, more, n)
      BY <2>1, <3>1
    <3>3. QED
      BY <3>2 DEF Associate
  <2>5. MySQLStream((rest \o sent) \o more)
    BY <1>7, <2>3, <2>4, MySQLStreamJoin DEF Streams
  <2>6. Stream("mysql", d, rest \o (sent \o more))
    BY <2>4, <2>5, MySQLIsStream
  <2>7. KeepsUp("mysql", c, Waits(d, rest, more), sent)
    BY <2>6, WaitsKeepUp
  <2>8. QED
    BY <2>2, <2>7
<1>8. MySQLStream(<<>>)
  BY DEF MySQLStream
<1>9. Good(Astray(c))
  <2>1. GoodTurn(c, Astray(c), n) /\ Astray(c).lost = TRUE
    BY AstrayIsLost
  <2>2. QED
    BY <2>1, LostKeepsUp
<1>10. "error" \in Statuses /\ Fails("error") \in Outcomes(n) /\ Cardinality(Fails("error").of) <= 1
  <2>1. "error" \in Statuses
    BY DEF Statuses
  <2>2. QED
    BY <2>1, FailsWell
<1>11. Good(Ends(Fails("error"), Rest(b)))
  BY <1>6, <1>10
<1>12. \A kind : /\ Answers(c.q, MySQL!Answer(kind)) \in Streams(n)
                 /\ MySQLStream(Answers(c.q, MySQL!Answer(kind)))
  BY <1>4, MySQLAnswersFit, MySQLAnswersStream
<1>13. \A kind : /\ Answers(0, MySQL!Verdict(kind)) \in Streams(n)
                 /\ MySQLStream(Answers(0, MySQL!Verdict(kind)))
  <2>1. 0 \in 0..n
    OBVIOUS
  <2>2. QED
    BY <2>1, MySQLAnswersFit, MySQLAnswersStream
<1>14. ASSUME InStep(b), ps # <<>>, NEW binary \in BOOLEAN
       PROVE  /\ MySQL!parseResponse(ps, binary) \in Outcomes(n)
              /\ Cardinality(MySQL!parseResponse(ps, binary).of) <= 1
  BY <1>2, <1>14, MySQLPacketsParsed DEF ps
<1>15. /\ c.step # "none" /\ c \in Callers(n)
       /\ \A step \in {"auth", "execute"} :
            /\ [c EXCEPT !.step = step] \in Callers(n)
            /\ [c EXCEPT !.step = step, !.got = <<>>] \in Callers(n)
  BY <1>3 DEF Callers, Steps
<1> HIDE DEF Good
<1> DEFINE turn == MySQL!Reads(c, b)
<1>16. CASE ~InStep(b)
  <2>1. turn = Astray(c)
    BY <1>16, MySQLInStep, MySQLAstray DEF MySQL!Reads
  <2>2. QED
    BY <1>9, <2>1 DEF Good
<1>17. CASE InStep(b) /\ c.step = "auth"
  <2>1. turn = MySQL!readAuth(c, b)
    BY <1>17, MySQLInStep DEF MySQL!Reads
  <2>2. turn = IF ps = <<>> THEN Waits([c EXCEPT !.step = "auth"], b, <<>>)
               ELSE Ends(MySQL!parseResponse(ps, FALSE), <<>>)
    BY <2>1, MySQLAuthReads DEF ps
  <2>3. CASE ps = <<>>
    <3> DEFINE d == [c EXCEPT !.step = "auth"]
    <3>1. d \in Callers(n) /\ d.q = c.q /\ d.kind = c.kind /\ d.bound = c.bound /\ d.step = "auth"
      BY <1>15 DEF Callers
    <3>2. turn = Waits(d, b, <<>>)
      BY <2>2, <2>3
    <3> HIDE DEF d, turn
    <3>3. Good(Waits(d, b, <<>>))
      BY <1>3, <1>7, <1>8, <3>1
    <3>4. QED
      BY <3>2, <3>3 DEF Good, turn
  <2>4. CASE ps # <<>>
    <3>1. \A binary \in BOOLEAN : Good(Ends(MySQL!parseResponse(ps, binary), <<>>))
      <4>1. ASSUME NEW binary \in BOOLEAN
            PROVE  Good(Ends(MySQL!parseResponse(ps, binary), <<>>))
        BY <1>6, <1>14, <1>17, <2>4
      <4>2. QED
        BY <4>1
    <3>2. turn = Ends(MySQL!parseResponse(ps, FALSE), <<>>)
      BY <2>2, <2>4
    <3> HIDE DEF turn
    <3>3. QED
      BY <3>1, <3>2 DEF Good, turn
  <2>5. QED
    BY <2>3, <2>4
<1>18. CASE InStep(b) /\ c.step = "handshake"
  <2>1. turn = MySQL!readHandshake(c, b)
    BY <1>18, MySQLInStep DEF MySQL!Reads
  <2>2. turn = IF ps = <<>> THEN Waits(c, b, <<>>)
               ELSE IF ps[1].t = "ERR" THEN Ends(Fails("error"), Rest(b))
               ELSE [MySQL!readAuth(c, Rest(b)) EXCEPT !.more = Answers(0, MySQL!Verdict(c.kind))]
    BY <2>1, MySQLHandshakeReads DEF ps
  <2> HIDE DEF turn
  <2>3. CASE ps = <<>>
    BY <1>3, <1>7, <1>8, <1>15, <2>2, <2>3 DEF Good, turn
  <2>4. CASE ps # <<>> /\ ps[1].t = "ERR"
    BY <1>11, <2>2, <2>4 DEF Good, turn
  <2>5. CASE ps # <<>> /\ ps[1].t # "ERR"
    <3> DEFINE d == [c EXCEPT !.step = "auth"]
               more == Answers(0, MySQL!Verdict(c.kind))
    <3>1. d \in Callers(n) /\ d.q = c.q /\ d.kind = c.kind /\ d.bound = c.bound /\ d.step = "auth"
      BY <1>15 DEF Callers
    <3>2. more \in Streams(n) /\ MySQLStream(more)
      BY <1>13
    <3>3. turn = [MySQL!readAuth(c, Rest(b)) EXCEPT !.more = more]
      BY <2>2, <2>5
    <3>4. MySQL!readAuth(c, Rest(b)) = Waits(d, Rest(b), <<>>)
      BY <1>3, MySQLAuthReads
    <3> HIDE DEF d, more
    <3>5. turn = Waits(d, Rest(b), more)
      BY <3>3, <3>4, WaitsMore
    <3>6. Good(Waits(d, Rest(b), more))
      BY <1>7, <3>1, <3>2
    <3>7. QED
      BY <3>5, <3>6 DEF Good, turn
  <2>6. QED
    BY <2>3, <2>4, <2>5
<1>19. CASE InStep(b) /\ c.step = "prepare"
  <2>0. MySQL!InStep(b)
    BY <1>19, MySQLInStep
  <2> DEFINE all == c.got \o ps
             execute == [c EXCEPT !.step = "execute", !.got = <<>>]
             more == Answers(c.q, MySQL!Answer(c.kind))
  <2>1. turn = MySQL!readPrepared(c, b)
    <3>1. c.step = "prepare"
      BY <1>19, Zenon
    <3>2. QED
      BY <2>0, <3>1, MySQLPrepares
  <2>2. turn = IF all = <<>> THEN Waits(c, b, <<>>)
               ELSE IF all[1].t \in {"ERR", "OK", "EOF"} THEN Ends(Fails("error"), Rest(b))
               ELSE IF all[1].t \notin {"prepareOK0", "prepareOK1"} THEN Astray(c)
               ELSE IF Len(all) < MySQL!parsePrepareOK(all[1])
                    THEN Waits([c EXCEPT !.got = all], Rest(b), <<>>)
               ELSE [MySQL!readResponse(execute, Rest(b)) EXCEPT !.more = more]
    BY <2>1, MySQLPreparedReads, Zenon DEF ps
  <2>3. all \in Streams(n)
    BY <1>4, <1>5, JoinHolds DEF Streams
  <2> HIDE DEF turn, all
  <2>4. CASE all = <<>>
    BY <1>3, <1>7, <1>8, <1>15, <2>2, <2>4 DEF Good, turn
  <2>5. CASE all # <<>> /\ all[1].t \in {"ERR", "OK", "EOF"}
    BY <1>11, <2>2, <2>5 DEF Good, turn
  <2>6. CASE all # <<>> /\ all[1].t \notin {"ERR", "OK", "EOF", "prepareOK0", "prepareOK1"}
    BY <1>9, <2>2, <2>6 DEF Good, turn
  <2>7. CASE /\ all # <<>> /\ all[1].t \in {"prepareOK0", "prepareOK1"}
             /\ Len(all) < MySQL!parsePrepareOK(all[1])
    <3> DEFINE d == [c EXCEPT !.got = all]
    <3>1. d \in Callers(n) /\ d.q = c.q /\ d.kind = c.kind /\ d.bound = c.bound /\ d.step = c.step
      BY <2>3 DEF Callers
    <3>2. turn = Waits(d, Rest(b), <<>>)
      BY <2>2, <2>7
    <3> HIDE DEF d
    <3>3. Good(Waits(d, Rest(b), <<>>))
      BY <1>3, <1>7, <1>8, <1>15, <3>1
    <3>4. QED
      BY <3>2, <3>3 DEF Good, turn
  <2>8. CASE /\ all # <<>> /\ all[1].t \in {"prepareOK0", "prepareOK1"}
             /\ ~(Len(all) < MySQL!parsePrepareOK(all[1]))
    <3>1. /\ execute \in Callers(n) /\ execute.q = c.q /\ execute.kind = c.kind
          /\ execute.bound = c.bound /\ execute.step = "execute"
      BY <1>15 DEF Callers
    <3>2. more \in Streams(n) /\ MySQLStream(more)
      BY <1>12
    <3>3. turn = [MySQL!readResponse(execute, Rest(b)) EXCEPT !.more = more]
      BY <2>2, <2>8
    <3> HIDE DEF execute, more
    <3>4. MySQL!readResponse(execute, Rest(b)) = Waits(execute, Rest(b), <<>>)
      BY <1>3, MySQLResponseReads
    <3>5. turn = Waits(execute, Rest(b), more)
      BY <3>3, <3>4, WaitsMore
    <3>6. Good(Waits(execute, Rest(b), more))
      BY <1>7, <3>1, <3>2
    <3>7. QED
      BY <3>5, <3>6 DEF Good, turn
  <2>9. QED
    BY <2>4, <2>5, <2>6, <2>7, <2>8
<1>20. CASE InStep(b) /\ c.step \notin {"handshake", "auth", "prepare"}
  <2>1. turn = MySQL!readResponse(c, b)
    BY <1>20, MySQLInStep DEF MySQL!Reads
  <2>2. turn = IF ps = <<>> THEN Waits(c, b, <<>>)
               ELSE IF MySQL!Misplaced(ps[1]) THEN Astray(c)
               ELSE Ends(MySQL!parseResponse(ps, c.bound), Rest(b))
    BY <2>1, MySQLResponseReads DEF ps
  <2> HIDE DEF turn
  <2>3. CASE ps = <<>>
    BY <1>3, <1>7, <1>8, <1>15, <2>2, <2>3 DEF Good, turn
  <2>4. CASE ps # <<>> /\ MySQL!Misplaced(ps[1])
    BY <1>9, <2>2, <2>4 DEF Good, turn
  <2>5. CASE ps # <<>> /\ ~MySQL!Misplaced(ps[1])
    <3>1. Good(Ends(MySQL!parseResponse(ps, c.bound), Rest(b)))
      BY <1>4, <1>6, <1>14, <1>20, <2>5
    <3>2. QED
      BY <2>2, <2>5, <3>1 DEF Good, turn
  <2>6. QED
    BY <2>3, <2>4, <2>5
<1>21. QED
  BY <1>16, <1>17, <1>18, <1>19, <1>20

\* A request, whose answer goes behind what the connection still holds.
LEMMA RequestFollows ==
  ASSUME SessionInv, NEW kind \in CallKinds, NEW bound \in BOOLEAN,
         NEW step \in Steps \ {"none"}, NEW c, c = NextCall(kind, bound, step),
         NEW answer, Answers(Len(asked) + 1, answer) \in Streams(Len(asked) + 1),
         NEW turn,
         Stream(protocol, NoCall, buffer \o net) =>
           Stream(protocol, c, (buffer \o net) \o Answers(Len(asked) + 1, answer)),
         ASSUME Len(asked) + 1 \in Nat, c \in Callers(Len(asked) + 1), c.step # "none",
                buffer \in Streams(Len(asked) + 1),
                net \o Answers(Len(asked) + 1, answer) \in Streams(Len(asked) + 1),
                Stream(protocol, c, buffer \o (net \o Answers(Len(asked) + 1, answer)))
         PROVE  /\ GoodTurn(c, turn, Len(asked) + 1)
                /\ KeepsUp(protocol, c, turn, net \o Answers(Len(asked) + 1, answer)),
         Asks(c, answer, turn), txn' \in Nat, protocol' = protocol
  PROVE  SessionInv'
<1> DEFINE n == Len(asked) + 1
           a == Answers(n, answer)
<1>1. /\ FieldTypes /\ Len(asked) \in Nat /\ n \in Nat /\ n \in 0..n
  BY DEF SessionInv, Session, FieldTypes
<1>2. buffer \in Streams(n) /\ net \in Streams(n)
  <2>1. Streams(Len(asked)) \subseteq Streams(n)
    BY <1>1, MoreCalls
  <2>2. QED
    BY <1>1, <2>1 DEF FieldTypes
<1>3. c \in Callers(n) /\ c.step = step /\ c.q = n
  <2>1. c = Call(n, kind, bound, step) /\ step \in Steps
    BY DEF NextCall
  <2> HIDE DEF n
  <2>2. QED
    BY <1>1, <2>1, CallTyped
<1>4. a \in Streams(n)
  OBVIOUS
<1> HIDE DEF n, a
<1>5. buffer \o (net \o a) = (buffer \o net) \o a /\ net \o a \in Streams(n)
  <2>1. n \in Nat /\ buffer \in Streams(n) /\ net \in Streams(n) /\ a \in Streams(n)
    BY <1>1, <1>2, <1>4
  <2>2. Associate(buffer, net, a, n)
    BY <2>1, StreamsAssociate
  <2>3. QED
    BY <2>2 DEF Associate
<1>6. ASSUME Stream(protocol, NoCall, buffer \o net)
      PROVE  GoodTurn(c, turn, n) /\ KeepsUp(protocol, c, turn, net \o a)
  <2>1. Stream(protocol, c, (buffer \o net) \o a)
    BY <1>6 DEF n, a
  <2>2. Stream(protocol, c, buffer \o (net \o a))
    BY <1>5, <2>1
  <2>3. c.step # "none"
    BY <1>3
  <2>4. QED
    BY <1>1, <1>2, <1>3, <1>5, <2>2, <2>3 DEF n, a
<1>7. socket = "up" /\ Stream(protocol, NoCall, buffer \o net) =>
        /\ GoodTurn(c, turn, Len(asked) + 1)
        /\ KeepsUp(protocol, c, turn, net \o Answers(Len(asked) + 1, answer))
  BY <1>6 DEF n, a
<1>8. QED
  BY <1>7, RequestKeeps

LEMMA MySQLRequestKeeps ==
  ASSUME SessionInv, protocol = "mysql", NEW kind \in CallKinds, NEW bound \in BOOLEAN,
         NEW step \in Steps \ {"none"}, NEW answer, MySQLFits(answer),
         MySQL!Requests(kind, bound, step, answer), txn' = txn, protocol' = protocol
  PROVE  SessionInv'
<1> DEFINE n == Len(asked) + 1
           c == NextCall(kind, bound, step)
           turn == MySQL!Reads(c, buffer)
           a == Answers(n, answer)
<1>1. Asks(c, answer, turn)
  BY MySQLShares DEF MySQL!Requests
<1>2. /\ FieldTypes /\ Len(asked) \in Nat /\ n \in Nat /\ n \in 0..n /\ txn' \in Nat
      /\ buffer \in Streams(Len(asked)) /\ net \in Streams(Len(asked))
  BY DEF SessionInv, Session, FieldTypes
<1> HIDE DEF c, turn, n
<1>3. a \in Streams(n) /\ MySQLStream(a)
  BY <1>2, MySQLAnswersStream
<1> HIDE DEF a
<1>4. Stream(protocol, NoCall, buffer \o net) => Stream(protocol, c, (buffer \o net) \o a)
  <2>1. ASSUME MySQLStream(buffer \o net) PROVE MySQLStream((buffer \o net) \o a)
    <3>1. Streams(Len(asked)) \subseteq Streams(n)
      BY <1>2, MoreCalls DEF n
    <3>2. buffer \in Seq(Pieces(n)) /\ net \in Seq(Pieces(n))
      BY <1>2, <3>1 DEF Streams
    <3>3. buffer \o net \in Seq(Pieces(n))
      BY <3>2, JoinHolds
    <3>4. QED
      BY <1>3, <2>1, <3>3, MySQLStreamJoin DEF Streams
  <2>2. QED
    BY <2>1, MySQLIsStream
<1>5. ASSUME n \in Nat, c \in Callers(n), c.step # "none", buffer \in Streams(n),
             net \o a \in Streams(n), Stream(protocol, c, buffer \o (net \o a))
      PROVE  GoodTurn(c, turn, n) /\ KeepsUp(protocol, c, turn, net \o a)
  <2>1. MySQLStream(buffer \o (net \o a))
    BY <1>5, MySQLIsStream
  <2>2. QED
    BY <1>5, <2>1, MySQLTurnKeepsUp DEF turn
<1>6. c = NextCall(kind, bound, step)
  BY DEF c
<1>7. Answers(Len(asked) + 1, answer) \in Streams(Len(asked) + 1)
  BY <1>3 DEF a, n
<1>8. Stream(protocol, NoCall, buffer \o net) =>
        Stream(protocol, c, (buffer \o net) \o Answers(Len(asked) + 1, answer))
  BY <1>4 DEF a, n
<1>9. ASSUME Len(asked) + 1 \in Nat, c \in Callers(Len(asked) + 1), c.step # "none",
             buffer \in Streams(Len(asked) + 1),
             net \o Answers(Len(asked) + 1, answer) \in Streams(Len(asked) + 1),
             Stream(protocol, c, buffer \o (net \o Answers(Len(asked) + 1, answer)))
      PROVE  /\ GoodTurn(c, turn, Len(asked) + 1)
             /\ KeepsUp(protocol, c, turn, net \o Answers(Len(asked) + 1, answer))
  BY <1>5, <1>9 DEF a, n
<1>10. QED
  BY <1>1, <1>2, <1>6, <1>7, <1>8, <1>9, RequestFollows, Zenon

LEMMA MySQLChunkKeeps ==
  ASSUME SessionInv, protocol = "mysql", MySQL!onData, protocol' = protocol
  PROVE  SessionInv'
<1>1. PICK n \in 1..Len(net) :
        MySQL!Receives(n, MySQL!Reads(call, MySQL!Arrived(n)),
                       n < Len(net) /\ MySQL!Torn(net[n + 1]))
  BY DEF MySQL!onData
<1> DEFINE turn == MySQL!Reads(call, Arrived(n))
           torn == n < Len(net) /\ MySQL!Torn(net[n + 1])
<1>2. Receives(n, turn, torn)
  BY <1>1, MySQLShares
<1>3. txn' = txn
  BY DEF MySQL!onData
<1>4. torn \in BOOLEAN
  OBVIOUS
<1>5. /\ Len(asked) \in Nat /\ call \in Callers(Len(asked)) /\ txn \in Nat
      /\ (txn > 0 => state = "ready")
  BY DEF SessionInv, Session, FieldTypes, Suspended
<1> HIDE DEF turn, torn
<1>6. ASSUME call # NoCall, Stream(protocol, call, Arrived(n) \o Drop(net, n)),
             call.step # "none", Arrived(n) \in Streams(Len(asked)),
             Drop(net, n) \in Streams(Len(asked))
      PROVE  /\ GoodTurn(call, turn, Len(asked))
             /\ KeepsUp(protocol, call, turn, Drop(net, n))
  <2>1. MySQLStream(Arrived(n) \o Drop(net, n))
    BY <1>6, MySQLIsStream
  <2>2. QED
    BY <1>5, <1>6, <2>1, MySQLTurnKeepsUp DEF turn
<1>7. QED
  BY <1>2, <1>3, <1>4, <1>5, <1>6, ChunkKeeps, Zenon

LEMMA MySQLKeeps ==
  ASSUME SessionInv, protocol = "mysql", MySQL!Next, protocol' = protocol
  PROVE  SessionInv'
<1>1. CASE MySQL!connect
  <2>1. PICK auth \in MySQL!Auths :
          MySQL!Connects(auth, "handshake", MySQL!Answers(0, MySQL!Greeting(auth)))
    BY <1>1 DEF MySQL!connect
  <2> DEFINE g == Answers(0, MySQL!Greeting(auth))
  <2>2. Connects(auth, "handshake", g)
    BY <2>1, MySQLShares
  <2>3. auth \in CallKinds /\ "handshake" \in Steps \ {"none"}
    BY Zenon DEF MySQL!Auths, CallKinds, Steps
  <2>4. \A n \in Nat : g \in Streams(n) /\ MySQLStream(g)
    <3>1. ASSUME NEW n \in Nat PROVE g \in Streams(n) /\ MySQLStream(g)
      <4>1. 0 \in 0..n
        OBVIOUS
      <4>2. QED
        BY <4>1, MySQLAnswersFit, MySQLAnswersStream
    <3>2. QED
      BY <3>1
  <2>5. 0 \in Nat
    OBVIOUS
  <2> HIDE DEF g
  <2>6. Stream(protocol, Call(0, auth, FALSE, "handshake"), g)
    BY <2>4, <2>5, MySQLIsStream
  <2>7. auth # "multi"
    BY Zenon DEF MySQL!Auths
  <2>8. QED
    BY <2>2, <2>3, <2>4, <2>6, <2>7, ConnectKeeps
<1>2. \A kind \in MySQL!Kinds, bound \in BOOLEAN, step \in {"query", "prepare"} :
        /\ MySQL!Requests(kind, bound, step, MySQL!Answer(kind)) /\ txn' = txn => SessionInv'
        /\ MySQL!Requests(kind, bound, step, MySQL!Prepared(kind)) /\ txn' = txn => SessionInv'
  <2>1. ASSUME NEW kind \in MySQL!Kinds, NEW bound \in BOOLEAN, NEW step \in {"query", "prepare"},
               NEW answer, MySQLFits(answer),
               MySQL!Requests(kind, bound, step, answer), txn' = txn
        PROVE  SessionInv'
    <3>1. kind \in CallKinds /\ step \in Steps \ {"none"}
      BY Zenon DEF MySQL!Kinds, CallKinds, Steps
    <3>2. QED
      BY <2>1, <3>1, MySQLRequestKeeps
  <2>2. QED
    BY <2>1, MySQLAnswersFit
<1>3. "query" \in {"query", "prepare"} /\ "prepare" \in {"query", "prepare"}
  OBVIOUS
<1>4. CASE MySQL!query
  <2>1. PICK kind \in MySQL!Kinds :
          MySQL!Requests(kind, FALSE, "query", MySQL!Answer(kind)) /\ txn' = txn
    BY <1>4 DEF MySQL!query
  <2>2. \A bound \in BOOLEAN :
          MySQL!Requests(kind, bound, "query", MySQL!Answer(kind)) => SessionInv'
    BY <1>2, <1>3, <2>1
  <2>3. QED
    BY <2>1, <2>2
<1>5. CASE MySQL!executePrepared
  <2>1. PICK kind \in MySQL!Kinds :
          MySQL!Requests(kind, TRUE, "prepare", MySQL!Prepared(kind)) /\ txn' = txn
    BY <1>5 DEF MySQL!executePrepared
  <2>2. \A bound \in BOOLEAN :
          MySQL!Requests(kind, bound, "prepare", MySQL!Prepared(kind)) => SessionInv'
    BY <1>2, <1>3, <2>1
  <2>3. QED
    BY <2>1, <2>2
<1>6. CASE MySQL!onData
  BY <1>6, MySQLChunkKeeps
<1>7. CASE MySQL!onError \/ MySQL!onClose \/ MySQL!close
  <2>1. Rejects("failed") \/ Rejects("gone")
    BY <1>7, MySQLShares DEF MySQL!onError, MySQL!onClose, MySQL!close
  <2>2. "failed" \in {"failed", "gone"} /\ "gone" \in {"failed", "gone"}
    OBVIOUS
  <2>3. QED
    BY <2>1, <2>2, RejectKeeps
<1>8. QED
  BY <1>1, <1>4, <1>5, <1>6, <1>7 DEF MySQL!Next

-----------------------------------------------------------------------------
(* Redis                                                                    *)

LEMMA RedisCounts == \A S : Redis!Cardinality(S) = Cardinality(S)
BY DEF Redis!Cardinality, Cardinality

LEMMA RedisShares ==
  /\ \A n, t, torn : Redis!Receives(n, t, torn) <=> Receives(n, t, torn)
  /\ \A c, answer, t : Redis!Asks(c, answer, t) <=> Asks(c, answer, t)
  /\ \A how : Redis!Rejects(how) <=> Rejects(how)
  /\ \A kind, step, greeting :
       Redis!Connects(kind, step, greeting) <=> Connects(kind, step, greeting)
  /\ \A n : Redis!Arrived(n) = Arrived(n)
  /\ \A kind, bound, step : Redis!NextCall(kind, bound, step) = NextCall(kind, bound, step)
  /\ \A q, ts : Redis!Answers(q, ts) = Answers(q, ts)
  /\ Redis!NoCall = NoCall
  /\ \A q, kind, bound, step : Redis!Call(q, kind, bound, step) = Call(q, kind, bound, step)
  /\ \A status : Redis!Fails(status) = Fails(status)
BY DEF Redis!Receives, Receives, Redis!Asks, Asks, Redis!Rejects, Rejects, Redis!Connects,
       Connects, Redis!Arrived, Arrived, Redis!NextCall, NextCall, Redis!Answers, Answers,
       Redis!Turns, Turns, Redis!Drop, Drop, Redis!NoCall, NoCall, Redis!Call, Call,
       Redis!Fails, Fails, Redis!Outcome, Outcome

LEMMA RedisReads ==
  ASSUME NEW c, NEW b
  PROVE  Redis!Reads(c, b) =
    IF b = <<>> THEN Waits(c, b, <<>>)
    ELSE IF ~InStep(b) THEN Astray(c)
    ELSE LET v == Redis!readValue(b)
         IN  CASE v.type = "null" -> [Ends(Fails("error"), <<>>) EXCEPT !.lost = TRUE]
               [] v.type = "short" /\ c.step = "first" -> Astray(c)
               [] v.type = "short" -> [Ends(Fails("short"), <<>>) EXCEPT !.lost = TRUE]
               [] OTHER -> Redis!Takes(c, v, Drop(b, v.n))
BY DEF Redis!Reads, Redis!Ends, Ends, Redis!Waits, Waits, Redis!NoCall, NoCall, Redis!Call,
       Call, Redis!Fails, Fails, Redis!Outcome, Outcome, Redis!Astray, Astray,
       Redis!InStep, InStep, Redis!Drop, Drop

LEMMA RedisReadsValue ==
  ASSUME NEW b
  PROVE  Redis!readValue(b) =
    LET ms == Messages(b)
        parts == Redis!Parts(b[1].t)
    IN  CASE Len(ms) >= parts ->
               [type |-> b[1].t, ms |-> SubSeq(ms, 1, parts), n |-> 2 * parts]
          [] Len(ms) = parts - 1 /\ parts > 1 -> [type |-> "short", ms |-> ms, n |-> Len(b)]
          [] OTHER -> [type |-> "null", ms |-> ms, n |-> Len(b)]
BY DEF Redis!readValue, Redis!Messages, Messages

LEMMA RedisTakes ==
  ASSUME NEW c, NEW v, NEW rest
  PROVE  Redis!Takes(c, v, rest) =
    LET seen == c.got \o v.ms
        next == [c EXCEPT !.step = "last", !.got = seen]
    IN  IF v.type = "-" /\ (c.q = 0 \/ c.kind \in {"exec", "discard"})
        THEN Ends(Outcome("error", 0, seen), rest)
        ELSE IF c.step = "first"
             THEN Waits(next, rest, Answers(c.q, Redis!Reply(c.kind)))
        ELSE Ends(Outcome("result", Redis!Rows(v) + Count(c.got, "*"), seen), rest)
BY RedisCounts
   DEF Redis!Takes, Redis!Ends, Ends, Redis!Waits, Waits, Redis!NoCall, NoCall, Redis!Call,
       Call, Redis!Outcome, Outcome, Redis!Count, Count, Redis!Answers, Answers

LEMMA RedisIsStream == \A c, w : Stream("redis", c, w) <=> RedisStream(c, w)
BY DEF Stream

\* A reply is one value, however many parts that has.
LEMMA RedisReplyFits ==
  ASSUME NEW n \in Nat, NEW q \in 0..n, NEW kind
  PROVE  /\ Answers(q, Redis!Reply(kind)) \in Streams(n)
         /\ Answers(q, Redis!Reply(kind)) # <<>>
         /\ Len(Answers(q, Redis!Reply(kind)))
              = 2 * Redis!Parts(Answers(q, Redis!Reply(kind))[1].t)
         /\ OfCall(Answers(q, Redis!Reply(kind)), q)
<1> DEFINE ts == Redis!Reply(kind)
           a == Answers(q, ts)
<1>1. ts \in {<<"*", "$", "body", "$", "body">>, <<"$", "body">>, <<"-">>, <<"*0">>, <<"+">>}
  BY DEF Redis!Reply, Redis!Array
<1>2. ts \in Seq(Types) /\ Len(ts) \in Nat \ {0} /\ Len(ts) = Redis!Parts(ts[1])
  <2> HIDE DEF ts
  <2>1. CASE ts = <<"*", "$", "body", "$", "body">>
    BY <2>1 DEF Types, Redis!Parts
  <2>2. CASE ts = <<"$", "body">>
    BY <2>2 DEF Types, Redis!Parts
  <2>3. CASE ts = <<"-">>
    BY <2>3 DEF Types, Redis!Parts
  <2>4. CASE ts = <<"*0">>
    BY <2>4 DEF Types, Redis!Parts
  <2>5. CASE ts = <<"+">>
    BY <2>5 DEF Types, Redis!Parts
  <2>6. QED
    BY <1>1, <2>1, <2>2, <2>3, <2>4, <2>5
<1> HIDE DEF ts
<1>3. /\ a \in Seq(Pieces(n)) /\ Len(a) = 2 * Len(ts)
      /\ \A k \in 1..(2 * Len(ts)) : a[k].q = q /\ a[k].t = ts[(k + 1) \div 2]
  BY <1>2, AnswersHold
<1> HIDE DEF a
<1>4. 1 \in 1..(2 * Len(ts)) /\ (1 + 1) \div 2 = 1 /\ 2 * Len(ts) # 0
  BY <1>2
<1>5. a[1].t = ts[1]
  BY <1>3, <1>4
<1>6. OfCall(a, q)
  BY <1>3 DEF OfCall
<1>7. a # <<>>
  BY <1>3, <1>4, EmptySeq
<1>8. Len(a) = 2 * Redis!Parts(a[1].t)
  BY <1>2, <1>3, <1>5
<1>9. QED
  BY <1>3, <1>6, <1>7, <1>8 DEF a, ts, Streams

LEMMA EndsLost ==
  ASSUME NEW n \in Nat, NEW c, NEW status \in Statuses
  PROVE  /\ GoodTurn(c, [Ends(Fails(status), <<>>) EXCEPT !.lost = TRUE], n)
         /\ [Ends(Fails(status), <<>>) EXCEPT !.lost = TRUE].lost = TRUE
<1>1. Fails(status) \in Outcomes(n) /\ Cardinality(Fails(status).of) <= 1
  BY FailsWell
<1>2. <<>> \in Streams(n)
  BY DEF Streams
<1>3. QED
  BY <1>1, <1>2 DEF Ends, GoodTurn

\* A call that has read the pieces of its own answer is told of that alone.
LEMMA OwnOutcome ==
  ASSUME NEW n \in Nat, NEW status \in Statuses, NEW rows \in Nat, NEW ms \in Streams(n),
         NEW q, OfCall(ms, q)
  PROVE  /\ Outcome(status, rows, ms) \in Outcomes(n)
         /\ Cardinality(Outcome(status, rows, ms).of) <= 1
<1>1. DOMAIN ms = 1..Len(ms) /\ \A i \in 1..Len(ms) : ms[i].q \in 0..n
  <2>1. ms \in Seq(Pieces(n))
    BY DEF Streams
  <2>2. \A e \in Pieces(n) : e.q \in 0..n
    BY DEF Pieces
  <2>3. QED
    BY <2>1, <2>2
<1>2. /\ Outcome(status, rows, ms) \in Outcomes(n)
      /\ Outcome(status, rows, ms).of = {ms[i].q : i \in 1..Len(ms)}
  BY <1>1, OutcomeTyped
<1>3. \A x, y \in {ms[i].q : i \in 1..Len(ms)} : x = y
  BY DEF OfCall
<1>4. Cardinality({ms[i].q : i \in 1..Len(ms)}) <= 1
  BY <1>3, AtMostOne
<1>5. QED
  BY <1>2, <1>4

\* #readResponse(): a value that is read whole is all that the server has sent.
LEMMA RedisTurnKeepsUp ==
  ASSUME NEW n \in Nat, NEW c \in Callers(n), c.step # "none",
         NEW b \in Streams(n), NEW sent \in Streams(n), RedisStream(c, b \o sent)
  PROVE  GoodTurn(c, Redis!Reads(c, b), n) /\ KeepsUp("redis", c, Redis!Reads(c, b), sent)
<1> DEFINE w == b \o sent
           ms == Messages(b)
           v == Redis!readValue(b)
           turn == Redis!Reads(c, b)
           Good(t) == GoodTurn(c, t, n) /\ KeepsUp("redis", c, t, sent)
<1>1. NoCall.step = "none"
  BY DEF NoCall, Call
<1>2. /\ w # <<>> /\ Len(w) = 2 * Redis!Parts(w[1].t)
      /\ OfCall(w, c.q) /\ OfCall(c.got, c.q)
      /\ c.q = 0 => c.kind \in {"done", "fails"}
  BY <1>1 DEF RedisStream
<1>3. /\ w \in Streams(n) /\ Len(w) = Len(b) + Len(sent) /\ Len(b) \in Nat /\ Len(sent) \in Nat
      /\ \A i \in 1..Len(b) : w[i] = b[i]
      /\ <<>> \o sent = sent /\ sent \o <<>> = sent
  <2>1. b \in Seq(Pieces(n)) /\ sent \in Seq(Pieces(n))
    BY DEF Streams
  <2>2. QED
    BY <2>1, SentHolds DEF Streams
<1>4. OfCall(b, c.q)
  BY <1>2, OfCallJoin DEF Streams
<1>5. /\ ms \in Streams(n) /\ Len(ms) = Len(b) \div 2 /\ Len(b) \div 2 \in Nat
      /\ OfCall(ms, c.q)
  BY <1>4, MessagesHold, OfCallMessages DEF Streams
<1>6. c.q \in 0..n /\ c.kind \in CallKinds /\ c.got \in Streams(n) /\ <<>> \in Streams(n)
  BY DEF Callers, Streams
<1>7. c \in Callers(n) /\ c.step # "none" /\ b \in Streams(n)
  OBVIOUS
<1>8. turn = IF b = <<>> THEN Waits(c, b, <<>>)
             ELSE IF ~InStep(b) THEN Astray(c)
             ELSE CASE v.type = "null" -> [Ends(Fails("error"), <<>>) EXCEPT !.lost = TRUE]
                    [] v.type = "short" /\ c.step = "first" -> Astray(c)
                    [] v.type = "short" -> [Ends(Fails("short"), <<>>) EXCEPT !.lost = TRUE]
                    [] OTHER -> Redis!Takes(c, v, Drop(b, v.n))
  BY RedisReads
<1>9. v = CASE Len(ms) >= Redis!Parts(b[1].t) ->
                 [type |-> b[1].t, ms |-> SubSeq(ms, 1, Redis!Parts(b[1].t)),
                  n |-> 2 * Redis!Parts(b[1].t)]
            [] Len(ms) = Redis!Parts(b[1].t) - 1 /\ Redis!Parts(b[1].t) > 1 ->
                 [type |-> "short", ms |-> ms, n |-> Len(b)]
            [] OTHER -> [type |-> "null", ms |-> ms, n |-> Len(b)]
  BY RedisReadsValue
<1> HIDE DEF w, ms, v, turn
<1>10. CASE b = <<>>
  <2>1. turn = Waits(c, b, <<>>)
    BY <1>8, <1>10
  <2>2. GoodTurn(c, Waits(c, b, <<>>), n)
    BY <1>6, <1>7, WaitsWell
  <2>3. Stream("redis", c, b \o (sent \o <<>>))
    <3>1. RedisStream(c, w)
      BY DEF w
    <3>2. b \o (sent \o <<>>) = w
      BY <1>3 DEF w
    <3>3. QED
      BY <3>1, <3>2, RedisIsStream
  <2>4. KeepsUp("redis", c, Waits(c, b, <<>>), sent)
    BY <2>3, WaitsKeepUp
  <2>5. QED
    BY <2>1, <2>2, <2>4 DEF turn
<1>11. CASE b # <<>> /\ ~InStep(b)
  <2>1. turn = Astray(c)
    BY <1>8, <1>11
  <2>2. GoodTurn(c, Astray(c), n) /\ Astray(c).lost = TRUE
    BY AstrayIsLost
  <2>3. QED
    BY <2>1, <2>2, LostKeepsUp DEF turn
<1>12. CASE b # <<>> /\ InStep(b) /\ v.type \in {"null", "short"}
  <2>1. \/ turn = Astray(c)
        \/ \E status \in {"error", "short"} :
             turn = [Ends(Fails(status), <<>>) EXCEPT !.lost = TRUE]
    BY <1>8, <1>12
  <2>2. ASSUME turn = Astray(c)
        PROVE  GoodTurn(c, turn, n) /\ turn.lost = TRUE
    BY <2>2, AstrayIsLost
  <2>3. ASSUME \E status \in {"error", "short"} :
                 turn = [Ends(Fails(status), <<>>) EXCEPT !.lost = TRUE]
        PROVE  GoodTurn(c, turn, n) /\ turn.lost = TRUE
    <3>1. PICK status \in {"error", "short"} :
            turn = [Ends(Fails(status), <<>>) EXCEPT !.lost = TRUE]
      BY <2>3
    <3>2. status \in Statuses
      BY DEF Statuses
    <3>3. GoodTurn(c, turn, n) /\ turn.lost = TRUE
      BY <3>1, <3>2, EndsLost
    <3>4. QED
      BY <3>3
  <2>4. GoodTurn(c, turn, n) /\ turn.lost = TRUE
    BY <2>1, <2>2, <2>3
  <2>5. QED
    BY <2>4, LostKeepsUp DEF turn
<1>13. CASE b # <<>> /\ InStep(b) /\ v.type \notin {"null", "short"}
  <2>1. turn = Redis!Takes(c, v, Drop(b, v.n))
    BY <1>8, <1>13
  <2> DEFINE parts == Redis!Parts(b[1].t)
  <2>2. parts \in {1, 2, 5}
    BY DEF Redis!Parts
  <2>3. Len(ms) >= parts /\ v = [type |-> b[1].t, ms |-> SubSeq(ms, 1, parts), n |-> 2 * parts]
    BY <1>9, <1>13
  <2>4. Len(w) = 2 * parts
    <3>1. 1 \in 1..Len(b)
      <4>1. Len(b) # 0
        BY <1>13, EmptySeq DEF Streams
      <4>2. QED
        BY <1>3, <4>1
    <3>2. w[1] = b[1]
      BY <1>3, <3>1
    <3>3. QED
      BY <1>2, <3>2
  <2> HIDE DEF parts
  <2>5. Len(sent) = 0 /\ Len(b) = 2 * parts /\ Len(ms) = parts
    BY <1>3, <1>5, <2>2, <2>3, <2>4
  <2>6. sent = <<>>
    BY <2>5, EmptySeq DEF Streams
  <2>7. v.ms = ms /\ v.type = b[1].t /\ v.n = Len(b)
    <3>1. SubSeq(ms, 1, Len(ms)) = ms
      BY <1>5, SubSeqFull DEF Streams
    <3>2. QED
      BY <2>3, <2>5, <3>1
  <2>8. Drop(b, v.n) = <<>>
    BY <2>7, DropAll DEF Streams
  <2> DEFINE seen == c.got \o ms
             next == [c EXCEPT !.step = "last", !.got = seen]
             more == Answers(c.q, Redis!Reply(c.kind))
  <2>9. turn = IF v.type = "-" /\ (c.q = 0 \/ c.kind \in {"exec", "discard"})
               THEN Ends(Outcome("error", 0, seen), <<>>)
               ELSE IF c.step = "first" THEN Waits(next, <<>>, more)
               ELSE Ends(Outcome("result", Redis!Rows(v) + Count(c.got, "*"), seen), <<>>)
    BY <2>1, <2>7, <2>8, RedisTakes, Zenon
  <2>10. seen \in Streams(n) /\ OfCall(seen, c.q)
    BY <1>2, <1>5, <1>6, JoinHolds, OfCallJoin DEF Streams
  <2>11. Redis!Rows(v) + Count(c.got, "*") \in Nat
    <3>1. Count(c.got, "*") \in Nat
      BY <1>6, CountIsNatural DEF Streams
    <3>2. Redis!Rows(v) \in {0, 1}
      BY DEF Redis!Rows
    <3>3. QED
      BY <3>1, <3>2
  <2>12. ASSUME NEW status \in Statuses, NEW rows \in Nat
         PROVE  /\ GoodTurn(c, Ends(Outcome(status, rows, seen), <<>>), n)
                /\ KeepsUp("redis", c, Ends(Outcome(status, rows, seen), <<>>), sent)
    <3> HIDE DEF seen
    <3>1. /\ Outcome(status, rows, seen) \in Outcomes(n)
          /\ Cardinality(Outcome(status, rows, seen).of) <= 1
      BY <2>10, OwnOutcome
    <3>2. GoodTurn(c, Ends(Outcome(status, rows, seen), <<>>), n)
      BY <1>6, <3>1, EndsWell
    <3>3. Stream("redis", NoCall, <<>> \o sent)
      <4>1. <<>> \o sent = <<>>
        BY <1>3, <2>6
      <4>2. QED
        BY <4>1, RedisIsStream DEF RedisStream
    <3>4. QED
      BY <3>2, <3>3, EndsKeepUp DEF Streams
  <2>13. /\ GoodTurn(c, Waits(next, <<>>, more), n)
         /\ KeepsUp("redis", c, Waits(next, <<>>, more), sent)
    <3>1. /\ more \in Streams(n) /\ more # <<>>
          /\ Len(more) = 2 * Redis!Parts(more[1].t) /\ OfCall(more, c.q)
      BY <1>6, RedisReplyFits
    <3> HIDE DEF seen
    <3>2. /\ next \in Callers(n) /\ next.q = c.q /\ next.kind = c.kind /\ next.bound = c.bound
          /\ next.step = "last" /\ next.got = seen
      BY <2>10 DEF Callers, Steps
    <3> HIDE DEF next, more
    <3>3. GoodTurn(c, Waits(next, <<>>, more), n)
      BY <1>6, <3>1, <3>2, WaitsWell
    <3>4. <<>> \o (sent \o more) = more
      BY <2>6, <3>1, ConcatEmptySeq DEF Streams
    <3>5. RedisStream(next, more)
      <4>1. next # NoCall
        BY <1>1, <3>2
      <4>2. QED
        BY <1>2, <2>10, <3>1, <3>2, <4>1 DEF RedisStream
    <3>6. Stream("redis", next, <<>> \o (sent \o more))
      BY <3>4, <3>5, RedisIsStream
    <3>7. QED
      BY <3>3, <3>6, WaitsKeepUp
  <2>14. "error" \in Statuses /\ "result" \in Statuses /\ 0 \in Nat
    BY DEF Statuses
  <2> HIDE DEF seen, next, more
  <2>15. QED
    BY <2>9, <2>11, <2>12, <2>13, <2>14 DEF turn
<1>14. QED
  BY <1>10, <1>11, <1>12, <1>13 DEF turn

LEMMA RedisRequestKeeps ==
  ASSUME SessionInv, protocol = "redis", NEW kind \in CallKinds, NEW bound \in BOOLEAN,
         NEW step \in {"first", "last"}, NEW k,
         Redis!Requests(kind, bound, step, Redis!Reply(k)), txn' \in Nat, protocol' = protocol
  PROVE  SessionInv'
<1> DEFINE n == Len(asked) + 1
           c == NextCall(kind, bound, step)
           answer == Redis!Reply(k)
           turn == Redis!Reads(c, buffer)
           a == Answers(n, answer)
<1>1. Asks(c, answer, turn)
  BY RedisShares DEF Redis!Requests
<1>2. Len(asked) \in Nat /\ n \in Nat /\ n \in 0..n /\ n > 0
  BY DEF SessionInv, Session, FieldTypes
<1>3. step \in Steps \ {"none"}
  BY DEF Steps
<1>4. c = Call(n, kind, bound, step)
  BY DEF NextCall
<1> HIDE DEF c, turn, n
<1>5. /\ a \in Streams(n) /\ a # <<>> /\ Len(a) = 2 * Redis!Parts(a[1].t)
      /\ OfCall(a, n)
  BY <1>2, RedisReplyFits
<1>6. c.q = n /\ c.step = step /\ c.got = <<>>
  BY <1>2, <1>3, <1>4, CallTyped
<1> HIDE DEF a
<1>7. Stream(protocol, NoCall, buffer \o net) => Stream(protocol, c, (buffer \o net) \o a)
  <2>1. ASSUME RedisStream(NoCall, buffer \o net)
        PROVE  RedisStream(c, (buffer \o net) \o a)
    <3>1. buffer \o net = <<>>
      BY <2>1 DEF RedisStream
    <3>2. <<>> \o a = a
      BY <1>5, ConcatEmptySeq DEF Streams
    <3>3. OfCall(c.got, c.q)
      BY <1>6 DEF OfCall
    <3>4. OfCall(a, c.q) /\ c.q # 0
      BY <1>2, <1>5, <1>6
    <3>5. c # NoCall
      BY <1>6 DEF NoCall, Call
    <3>6. RedisStream(c, a)
      BY <1>5, <3>3, <3>4, <3>5 DEF RedisStream
    <3>7. QED
      BY <3>1, <3>2, <3>6
  <2>2. QED
    BY <2>1, RedisIsStream
<1>8. ASSUME n \in Nat, c \in Callers(n), c.step # "none", buffer \in Streams(n),
             net \o a \in Streams(n), Stream(protocol, c, buffer \o (net \o a))
      PROVE  GoodTurn(c, turn, n) /\ KeepsUp(protocol, c, turn, net \o a)
  <2>1. RedisStream(c, buffer \o (net \o a))
    BY <1>8, RedisIsStream
  <2>2. QED
    BY <1>8, <2>1, RedisTurnKeepsUp DEF turn
<1>9. c = NextCall(kind, bound, step)
  BY DEF c
<1>10. Answers(Len(asked) + 1, answer) \in Streams(Len(asked) + 1)
  BY <1>5 DEF a, n
<1>11. Stream(protocol, NoCall, buffer \o net) =>
         Stream(protocol, c, (buffer \o net) \o Answers(Len(asked) + 1, answer))
  BY <1>7 DEF a, n
<1> HIDE DEF answer
<1>12. ASSUME Len(asked) + 1 \in Nat, c \in Callers(Len(asked) + 1), c.step # "none",
              buffer \in Streams(Len(asked) + 1),
              net \o Answers(Len(asked) + 1, answer) \in Streams(Len(asked) + 1),
              Stream(protocol, c, buffer \o (net \o Answers(Len(asked) + 1, answer)))
       PROVE  /\ GoodTurn(c, turn, Len(asked) + 1)
              /\ KeepsUp(protocol, c, turn, net \o Answers(Len(asked) + 1, answer))
  BY <1>8, <1>12 DEF a, n
<1>13. QED
  BY <1>1, <1>3, <1>9, <1>10, <1>11, <1>12, RequestFollows, Zenon

\* multi() opens the transaction when its reply arrives, which is on a connection
\* that is ready.
LEMMA RedisChunkKeeps ==
  ASSUME SessionInv, protocol = "redis", Redis!onData, protocol' = protocol
  PROVE  SessionInv'
<1>1. PICK n \in 1..Len(net) :
        Redis!Receives(n, Redis!Reads(call, Redis!Arrived(n)),
                       n < Len(net) /\ Redis!Torn(net[n + 1]))
  BY DEF Redis!onData
<1> DEFINE turn == Redis!Reads(call, Arrived(n))
           torn == n < Len(net) /\ Redis!Torn(net[n + 1])
<1>2. Receives(n, turn, torn)
  BY <1>1, RedisShares
<1>3. torn \in BOOLEAN
  OBVIOUS
<1>4. /\ Len(asked) \in Nat /\ call \in Callers(Len(asked)) /\ txn \in Nat
      /\ (txn > 0 => state = "ready")
      /\ state \in {"new", "connecting", "ready", "refused"}
  BY DEF SessionInv, Session, FieldTypes, Suspended
<1> HIDE DEF turn, torn
<1>5. ASSUME call # NoCall, Stream(protocol, call, Arrived(n) \o Drop(net, n)),
             call.step # "none", Arrived(n) \in Streams(Len(asked)),
             Drop(net, n) \in Streams(Len(asked))
      PROVE  /\ GoodTurn(call, turn, Len(asked))
             /\ KeepsUp(protocol, call, turn, Drop(net, n))
  <2>1. RedisStream(call, Arrived(n) \o Drop(net, n))
    BY <1>5, RedisIsStream
  <2>2. QED
    BY <1>4, <1>5, <2>1, RedisTurnKeepsUp DEF turn
<1>6. txn' = txn \/ (txn' = 1 /\ call.kind = "multi")
  BY DEF Redis!onData
<1>7. call.kind = "multi" => state = "ready"
  <2>1. SUFFICES ASSUME call.kind = "multi" PROVE state = "ready"
    OBVIOUS
  <2>2. call # NoCall
    BY <2>1 DEF NoCall, Call
  <2>3. state \in {"connecting", "ready"} /\ (state = "connecting" => call.q = 0)
    BY <1>4, <2>2 DEF SessionInv, Session, Suspended
  <2>4. socket = "up" /\ ~lost
    BY <1>2 DEF Receives
  <2>5. RedisStream(call, buffer \o net)
    <3>1. Stream("redis", call, buffer \o net)
      BY <2>3, <2>4 DEF SessionInv, Following
    <3>2. QED
      BY <3>1, RedisIsStream
  <2>6. call.q # 0
    BY <2>1, <2>2, <2>5 DEF RedisStream
  <2>7. QED
    BY <2>3, <2>6
<1>8. txn' \in Nat /\ (txn' > 0 => state = "ready")
  BY <1>4, <1>6, <1>7
<1>9. QED
  BY <1>2, <1>3, <1>5, <1>8, ChunkKeeps, Zenon

\* A command between MULTI and EXEC ends at once, and is not sent.
LEMMA RedisQueuedKeeps ==
  ASSUME SessionInv, protocol = "redis", Redis!queued, protocol' = protocol
  PROVE  SessionInv'
<1> DEFINE n == Len(asked) + 1
<1>1. PICK kind \in Redis!Kinds : asked' = Append(asked, [kind |-> kind, bound |-> FALSE])
  BY DEF Redis!queued
<1>2. /\ state = "ready" /\ call = NoCall /\ told' = Append(told, Fails("queued"))
      /\ txn' = txn + 1 /\ UNCHANGED <<state, socket, net, buffer, call, whole, lost>>
  BY RedisShares DEF Redis!queued
<1>3. kind \in CallKinds /\ "queued" \in Statuses
  BY Zenon DEF Redis!Kinds, CallKinds, Statuses
<1>4. Session /\ FieldTypes /\ Len(asked) \in Nat
  BY DEF SessionInv, Session, FieldTypes
<1>5. /\ asked' \in Seq(Requested) /\ Len(asked') = n
      /\ Streams(Len(asked)) \subseteq Streams(n) /\ Callers(Len(asked)) \subseteq Callers(n)
      /\ told \in Seq(Outcomes(n))
  <2>1. \A bound \in BOOLEAN :
          asked' = Append(asked, [kind |-> kind, bound |-> bound]) =>
            /\ asked' \in Seq(Requested) /\ Len(asked') = Len(asked) + 1
            /\ Streams(Len(asked)) \subseteq Streams(Len(asked) + 1)
            /\ Callers(Len(asked)) \subseteq Callers(Len(asked) + 1)
            /\ told \in Seq(Outcomes(Len(asked) + 1))
    BY <1>3, <1>4, RequestTyped
  <2>2. QED
    BY <1>1, <2>1
<1>6. n \in Nat /\ Len(told) = n - 1 /\ NoCall.q = 0
      /\ \A i \in 1..Len(told) : told[i].of \subseteq 0..i /\ Apart(told[i])
  BY <1>2, <1>4 DEF Session, ToldInOrder, NoCall, Call
<1> HIDE DEF n
<1>7. /\ told' \in Seq(Outcomes(n)) /\ Len(told') = n
      /\ \A i \in 1..n : told'[i].of \subseteq 0..i /\ Apart(told'[i])
  <2>1. Fails("queued") \in Outcomes(n) /\ Apart(Fails("queued"))
    BY <1>3, <1>6, FailsApart
  <2>2. QED
    BY <1>2, <1>5, <1>6, <2>1, ToldNext
<1>8. FieldTypes'
  <2>1. txn' \in Nat
    BY <1>2, <1>4 DEF FieldTypes
  <2>2. buffer' \in Streams(n) /\ net' \in Streams(n) /\ call' \in Callers(n)
    BY <1>2, <1>4, <1>5 DEF FieldTypes
  <2>3. QED
    BY <1>2, <1>4, <1>5, <1>7, <2>1, <2>2 DEF FieldTypes
<1>9. Suspended'
  BY <1>2 DEF Suspended
<1>10. ToldInOrder'
  BY <1>2, <1>5, <1>6, <1>7 DEF ToldInOrder
<1>11. Following'
  BY <1>2 DEF SessionInv, Following
<1>12. QED
  BY <1>8, <1>9, <1>10, <1>11 DEF SessionInv, Session

\* EXEC on a socket that has failed waits for the close callback.
LEMMA RedisWaitingExecKeeps ==
  ASSUME SessionInv, protocol = "redis", Redis!exec, socket = "failed", protocol' = protocol
  PROVE  SessionInv'
<1> DEFINE n == Len(asked) + 1
<1>1. /\ txn > 0 /\ txn' = 0 /\ call = NoCall
      /\ asked' = Append(asked, [kind |-> "exec", bound |-> FALSE])
      /\ call' = Call(Len(asked'), "exec", FALSE, "last")
      /\ UNCHANGED <<state, socket, net, buffer, told, whole, lost>>
  BY RedisShares DEF Redis!exec
<1>2. Session /\ FieldTypes /\ Len(asked) \in Nat /\ state = "ready"
  BY <1>1 DEF SessionInv, Session, FieldTypes, Suspended
<1>3. "exec" \in CallKinds /\ "last" \in Steps /\ "last" # "none"
  BY DEF CallKinds, Steps
<1>4. n \in Nat /\ n \in 0..n /\ n > 0
  BY <1>2
<1>5. \E bound \in BOOLEAN :
        /\ asked' = Append(asked, [kind |-> "exec", bound |-> bound])
        /\ call' = Call(Len(asked'), "exec", bound, "last")
  BY <1>1
<1>6. PICK bound \in BOOLEAN :
        /\ asked' = Append(asked, [kind |-> "exec", bound |-> bound])
        /\ call' = Call(Len(asked'), "exec", bound, "last")
  BY <1>5
<1>7. /\ asked' \in Seq(Requested) /\ Len(asked') = n
      /\ asked'[n] = [kind |-> "exec", bound |-> bound]
      /\ Streams(Len(asked)) \subseteq Streams(n)
      /\ told \in Seq(Outcomes(n))
  <2>1. /\ asked' \in Seq(Requested) /\ Len(asked') = Len(asked) + 1
        /\ asked'[Len(asked) + 1] = [kind |-> "exec", bound |-> bound]
        /\ Streams(Len(asked)) \subseteq Streams(Len(asked) + 1)
        /\ told \in Seq(Outcomes(Len(asked) + 1))
    BY <1>2, <1>3, <1>6, RequestTyped
  <2>2. QED
    BY <2>1
<1>8. Len(told) = n - 1 /\ NoCall.q = 0
      /\ \A i \in 1..Len(told) : told[i].of \subseteq 0..i /\ Apart(told[i])
  BY <1>1, <1>2 DEF Session, ToldInOrder, NoCall, Call
<1>9. call' = Call(n, "exec", bound, "last")
  BY <1>6, <1>7
<1> HIDE DEF n
<1>10. /\ call' \in Callers(n) /\ call'.q = n /\ call'.kind = "exec" /\ call'.bound = bound
       /\ call'.step = "last"
  <2> DEFINE kind == "exec"
             step == "last"
  <2>1. kind \in CallKinds /\ step \in Steps
    BY <1>3
  <2>2. call' = Call(n, kind, bound, step)
    BY <1>9
  <2> SUFFICES /\ call' \in Callers(n) /\ call'.q = n /\ call'.kind = kind
               /\ call'.bound = bound /\ call'.step = step
    OBVIOUS
  <2> DEFINE made == Call(n, kind, bound, step)
  <2> HIDE DEF kind, step
  <2>3. /\ made \in Callers(n) /\ made.q = n /\ made.kind = kind
        /\ made.bound = bound /\ made.step = step
    BY <1>4, <2>1, CallTyped
  <2>4. call' = made
    BY <2>2
  <2> HIDE DEF made
  <2>5. QED
    BY <2>3, <2>4
<1>11. FieldTypes'
  <2>1. buffer' \in Streams(n) /\ net' \in Streams(n)
    BY <1>1, <1>2, <1>7 DEF FieldTypes
  <2>2. QED
    BY <1>1, <1>2, <1>7, <1>10, <2>1 DEF FieldTypes
<1>12. Suspended'
  BY <1>1, <1>2, <1>4, <1>7, <1>10 DEF Suspended
<1>13. ToldInOrder'
  BY <1>1, <1>4, <1>7, <1>8, <1>10 DEF ToldInOrder
<1>14. Following'
  BY <1>1, <1>2 DEF SessionInv, Following
<1>15. QED
  BY <1>11, <1>12, <1>13, <1>14 DEF SessionInv, Session

LEMMA ReadyKeeps ==
  ASSUME SessionInv, Stream(protocol, NoCall, <<>>), state = "new", state' = "ready",
         socket' = "up", UNCHANGED <<net, buffer, call, asked, told, txn, whole, lost>>,
         protocol' = protocol
  PROVE  SessionInv'
<1>1. Session /\ Following
  BY DEF SessionInv
<1>2. Session'
  BY <1>1, ReadyHolds
<1>3. call = NoCall /\ buffer = <<>> /\ net = <<>>
  BY <1>1 DEF Session, Suspended, Following
<1>4. buffer' \o net' = <<>> /\ call' = NoCall
  BY <1>3
<1>5. Stream(protocol', call', buffer' \o net')
  BY <1>4
<1>6. Following'
  BY <1>1, <1>5 DEF Following
<1>7. QED
  BY <1>2, <1>6 DEF SessionInv

LEMMA RedisConnectKeeps ==
  ASSUME SessionInv, protocol = "redis", Redis!connect, protocol' = protocol
  PROVE  SessionInv'
<1>1. CASE \E kind \in {"fails", "done"}, step \in {"first", "last"} :
             Redis!Connects(kind, step, Redis!Answers(0, Redis!Reply(kind)))
  <2>1. PICK kind \in {"fails", "done"}, step \in {"first", "last"} :
          Redis!Connects(kind, step, Redis!Answers(0, Redis!Reply(kind)))
    BY <1>1
  <2> DEFINE g == Answers(0, Redis!Reply(kind))
  <2>2. Connects(kind, step, g)
    BY <2>1, RedisShares
  <2>3. kind \in CallKinds /\ step \in Steps \ {"none"} /\ step # "none"
    BY Zenon DEF CallKinds, Steps
  <2>4. ASSUME NEW n \in Nat
        PROVE  /\ g \in Streams(n) /\ g # <<>> /\ Len(g) = 2 * Redis!Parts(g[1].t)
               /\ OfCall(g, 0)
    <3>1. 0 \in 0..n
      OBVIOUS
    <3>2. QED
      BY <3>1, RedisReplyFits
  <2>5. /\ g # <<>> /\ Len(g) = 2 * Redis!Parts(g[1].t) /\ OfCall(g, 0)
    <3>1. 0 \in Nat
      OBVIOUS
    <3>2. QED
      BY <2>4, <3>1
  <2> HIDE DEF g
  <2>6. \A bound \in BOOLEAN : RedisStream(Call(0, kind, bound, step), g)
    <3>1. ASSUME NEW bound \in BOOLEAN PROVE RedisStream(Call(0, kind, bound, step), g)
      <4> DEFINE c == Call(0, kind, bound, step)
      <4>1. c.q = 0 /\ c.kind = kind /\ c.got = <<>> /\ c.step = step
        BY DEF Call
      <4>2. c # NoCall
        BY <2>3, <4>1 DEF NoCall, Call
      <4>3. OfCall(<<>>, 0)
        BY DEF OfCall
      <4> HIDE DEF c
      <4>4. RedisStream(c, g)
        BY <2>5, <4>1, <4>2, <4>3 DEF RedisStream
      <4>5. QED
        BY <4>4 DEF c
    <3>2. QED
      BY <3>1
  <2>7. Stream(protocol, Call(0, kind, FALSE, step), g)
    BY <2>6, RedisIsStream
  <2>8. \A n \in Nat : g \in Streams(n)
    BY <2>4
  <2>9. kind # "multi"
    OBVIOUS
  <2>10. QED
    BY <2>2, <2>3, <2>7, <2>8, <2>9, ConnectKeeps
<1>2. CASE /\ state = "new" /\ state' = "ready" /\ socket' = "up"
           /\ UNCHANGED <<net, buffer, call, asked, told, txn, whole, lost>>
  <2>1. Stream(protocol, NoCall, <<>>)
    BY RedisIsStream DEF RedisStream
  <2>2. QED
    BY <1>2, <2>1, ReadyKeeps
<1>3. Redis!connect =>
        \/ \E kind \in {"fails", "done"}, step \in {"first", "last"} :
             Redis!Connects(kind, step, Redis!Answers(0, Redis!Reply(kind)))
        \/ /\ state = "new" /\ state' = "ready" /\ socket' = "up"
           /\ UNCHANGED <<net, buffer, call, asked, told, txn, whole, lost>>
  <2>1. ASSUME NEW auth, NEW kind, kind = IF auth = "denied" THEN "fails" ELSE "done",
               NEW step, step = IF auth = "auth, select" THEN "first" ELSE "last",
               Redis!Connects(kind, step, Redis!Answers(0, Redis!Reply(kind)))
        PROVE  \E kk \in {"fails", "done"}, ss \in {"first", "last"} :
                 Redis!Connects(kk, ss, Redis!Answers(0, Redis!Reply(kk)))
    <3>1. kind \in {"fails", "done"} /\ step \in {"first", "last"}
      BY <2>1, Zenon
    <3>2. QED
      BY <2>1, <3>1, Zenon
  <2>2. QED
    BY <2>1, Zenon DEF Redis!connect
<1>4. QED
  BY <1>1, <1>2, <1>3

LEMMA RedisKeeps ==
  ASSUME SessionInv, protocol = "redis", Redis!Next, protocol' = protocol
  PROVE  SessionInv'
<1>1. txn \in Nat /\ 0 \in Nat
  BY DEF SessionInv, Session, FieldTypes
<1>2. \A kind \in CallKinds, bound \in BOOLEAN, step \in {"first", "last"} : \A k :
        Redis!Requests(kind, bound, step, Redis!Reply(k)) /\ txn' \in Nat => SessionInv'
  BY RedisRequestKeeps
<1>3. Redis!Kinds \subseteq CallKinds /\ {"multi", "exec", "discard"} \subseteq CallKinds
      /\ {"rows", "fails"} \subseteq CallKinds /\ "last" \in {"first", "last"}
      /\ "first" \in {"first", "last"}
  BY DEF Redis!Kinds, CallKinds
<1>4. CASE Redis!sendCommand
  <2>1. PICK kind \in Redis!Kinds : Redis!Requests(kind, FALSE, "last", Redis!Reply(kind))
    BY <1>4 DEF Redis!sendCommand
  <2>2. txn' \in Nat
    BY <1>1, <1>4 DEF Redis!sendCommand
  <2>3. \A bound \in BOOLEAN :
          Redis!Requests(kind, bound, "last", Redis!Reply(kind)) => SessionInv'
    BY <1>2, <1>3, <2>2
  <2>4. QED
    BY <2>1, <2>3
<1>5. CASE Redis!executePipeline
  <2>1. PICK kind \in {"rows", "fails"} :
          Redis!Requests(kind, TRUE, "first", Redis!Reply(kind))
    BY <1>5 DEF Redis!executePipeline
  <2>2. txn' \in Nat
    BY <1>1, <1>5 DEF Redis!executePipeline
  <2>3. \A bound \in BOOLEAN :
          Redis!Requests(kind, bound, "first", Redis!Reply(kind)) => SessionInv'
    BY <1>2, <1>3, <2>2
  <2>4. QED
    BY <2>1, <2>3
<1>6. ASSUME NEW kind \in {"multi", "exec", "discard"}, NEW k, txn' \in Nat,
             Redis!Requests(kind, FALSE, "last", Redis!Reply(k))
      PROVE  SessionInv'
  <2>1. \A bound \in BOOLEAN :
          Redis!Requests(kind, bound, "last", Redis!Reply(k)) => SessionInv'
    BY <1>2, <1>3, <1>6
  <2>2. QED
    BY <1>6, <2>1
<1>7. "multi" \in {"multi", "exec", "discard"} /\ "exec" \in {"multi", "exec", "discard"}
      /\ "discard" \in {"multi", "exec", "discard"}
  OBVIOUS
<1>8. CASE Redis!multi
  <2>1. txn' \in Nat /\ Redis!Requests("multi", FALSE, "last", Redis!Reply("done"))
    BY <1>1, <1>8 DEF Redis!multi
  <2>2. QED
    BY <1>6, <1>7, <2>1
<1>9. CASE Redis!discard
  <2>1. txn' \in Nat /\ Redis!Requests("discard", FALSE, "last", Redis!Reply("done"))
    BY <1>1, <1>9 DEF Redis!discard
  <2>2. QED
    BY <1>6, <1>7, <2>1
<1>10. CASE Redis!exec
  <2>1. CASE socket = "failed"
    BY <1>10, <2>1, RedisWaitingExecKeeps
  <2>2. CASE socket # "failed"
    <3>1. txn' \in Nat /\ Redis!Requests("exec", FALSE, "last", Redis!Reply("exec"))
      BY <1>1, <1>10, <2>2 DEF Redis!exec
    <3>2. QED
      BY <1>6, <1>7, <3>1
  <2>3. QED
    BY <2>1, <2>2
<1>11. CASE Redis!connect \/ Redis!queued \/ Redis!onData
  BY <1>11, RedisConnectKeeps, RedisQueuedKeeps, RedisChunkKeeps
<1>12. CASE Redis!onError \/ Redis!onClose \/ Redis!close
  <2>1. Rejects("failed") \/ Rejects("gone")
    BY <1>12, RedisShares DEF Redis!onError, Redis!onClose, Redis!close
  <2>2. "failed" \in {"failed", "gone"} /\ "gone" \in {"failed", "gone"}
    OBVIOUS
  <2>3. QED
    BY <2>1, <2>2, RejectKeeps
<1>13. QED
  BY <1>4, <1>5, <1>8, <1>9, <1>10, <1>11, <1>12 DEF Redis!Next

-----------------------------------------------------------------------------
(* MongoDB                                                                  *)

LEMMA MongoShares ==
  /\ \A n, t, torn : Mongo!Receives(n, t, torn) <=> Receives(n, t, torn)
  /\ \A c, answer, t : Mongo!Asks(c, answer, t) <=> Asks(c, answer, t)
  /\ \A how : Mongo!Rejects(how) <=> Rejects(how)
  /\ \A kind, step, greeting :
       Mongo!Connects(kind, step, greeting) <=> Connects(kind, step, greeting)
  /\ \A n : Mongo!Arrived(n) = Arrived(n)
  /\ \A kind, bound, step : Mongo!NextCall(kind, bound, step) = NextCall(kind, bound, step)
  /\ \A q, ts : Mongo!Answers(q, ts) = Answers(q, ts)
  /\ Mongo!NoCall = NoCall
BY DEF Mongo!Receives, Receives, Mongo!Asks, Asks, Mongo!Rejects, Rejects, Mongo!Connects,
       Connects, Mongo!Arrived, Arrived, Mongo!NextCall, NextCall, Mongo!Answers, Answers,
       Mongo!Turns, Turns, Mongo!Drop, Drop, Mongo!NoCall, NoCall, Mongo!Call, Call,
       Mongo!Fails, Fails, Mongo!Outcome, Outcome

LEMMA MongoReads ==
  ASSUME NEW c, NEW b
  PROVE  Mongo!Reads(c, b) = IF InStep(b) THEN Mongo!execute(c, b) ELSE Astray(c)
BY DEF Mongo!Reads, Mongo!Waits, Waits, Mongo!Astray, Astray, Mongo!InStep, InStep

LEMMA MongoExecute ==
  ASSUME NEW c, NEW b
  PROVE  Mongo!execute(c, b) =
    IF c.got # <<>> THEN Mongo!readBody(c, b)
    ELSE IF Len(b) < 2 THEN Waits(c, b, <<>>)
    ELSE IF b[2].t = "bad header" THEN Ends(Fails("error"), Drop(b, 2))
    ELSE Mongo!readBody([c EXCEPT !.got = <<b[2]>>], Drop(b, 2))
BY DEF Mongo!execute, Mongo!Ends, Ends, Mongo!Waits, Waits, Mongo!NoCall, NoCall, Mongo!Call,
       Call, Mongo!Fails, Fails, Mongo!Outcome, Outcome, Mongo!Drop, Drop

LEMMA MongoReadBody ==
  ASSUME NEW c, NEW b
  PROVE  Mongo!readBody(c, b) =
    IF Len(b) < 2 THEN Waits(c, b, <<>>) ELSE Mongo!Replies(c, b[2], Drop(b, 2))
BY DEF Mongo!readBody, Mongo!Waits, Waits, Mongo!Drop, Drop

LEMMA MongoReplies ==
  ASSUME NEW c, NEW m, NEW rest
  PROVE  Mongo!Replies(c, m, rest) =
    LET seen == Append(c.got, m)
    IN  IF m.t = "fails" THEN Ends(Outcome("error", 0, seen), rest)
        ELSE IF c.step = "saslStart"
        THEN Waits([c EXCEPT !.step = "saslContinue", !.got = <<>>], rest,
                   Answers(0, Mongo!Reply(IF c.kind = "denied" THEN "fails" ELSE "done")))
        ELSE IF c.step = "saslContinue" /\ c.kind = "impostor" THEN Ends(Fails("error"), rest)
        ELSE Ends(Outcome("result", Mongo!Rows(m), seen), rest)
BY DEF Mongo!Replies, Mongo!Ends, Ends, Mongo!Waits, Waits, Mongo!NoCall, NoCall, Mongo!Call,
       Call, Mongo!Fails, Fails, Mongo!Outcome, Outcome, Mongo!Answers, Answers

LEMMA MongoIsStream == \A c, w : Stream("mongodb", c, w) <=> MongoStream(c, w)
BY DEF Stream

\* A reply is a header and a body, or a header that announces none.
LEMMA MongoReplyFits ==
  ASSUME NEW n \in Nat, NEW q \in 0..n, NEW kind
  PROVE  /\ Answers(q, Mongo!Reply(kind)) \in Streams(n)
         /\ Len(Answers(q, Mongo!Reply(kind))) \in {2, 4}
         /\ Len(Answers(q, Mongo!Reply(kind))) = 2
              <=> Answers(q, Mongo!Reply(kind))[2].t = "bad header"
         /\ OfCall(Answers(q, Mongo!Reply(kind)), q)
<1> DEFINE ts == Mongo!Reply(kind)
           a == Answers(q, ts)
           bad == "bad header"
           bodies == {"rows", "pages", "done", "fails"}
<1>1. ts = <<bad>> \/ \E body \in bodies : ts = <<"header", body>>
  BY Zenon DEF Mongo!Reply
<1>2. bad \in Types /\ "header" \in Types /\ bodies \subseteq Types /\ bad # "header"
  BY DEF Types
<1> HIDE DEF ts, bad, bodies
<1>3. ts \in Seq(Types) /\ Len(ts) \in {1, 2} /\ (Len(ts) = 1 <=> ts[1] = bad)
  <2>1. CASE ts = <<bad>>
    BY <1>2, <2>1
  <2>2. CASE \E body \in bodies : ts = <<"header", body>>
    <3>1. PICK body \in Types : ts = <<"header", body>>
      BY <1>2, <2>2
    <3>2. QED
      BY <1>2, <3>1
  <2>3. QED
    BY <1>1, <2>1, <2>2
<1>4. /\ a \in Seq(Pieces(n)) /\ Len(a) = 2 * Len(ts)
      /\ \A k \in 1..(2 * Len(ts)) : a[k].q = q /\ a[k].t = ts[(k + 1) \div 2]
  BY <1>3, AnswersHold
<1> HIDE DEF a
<1>5. 2 \in 1..(2 * Len(ts)) /\ (2 + 1) \div 2 = 1
  BY <1>3
<1>6. a[2].t = ts[1]
  BY <1>4, <1>5
<1>7. OfCall(a, q)
  BY <1>4 DEF OfCall
<1>8. Len(a) \in {2, 4} /\ (Len(a) = 2 <=> Len(ts) = 1)
  <2>1. Len(ts) \in {1, 2} /\ Len(a) = 2 * Len(ts)
    BY <1>4, <1>3
  <2>2. \A k \in {1, 2} : 2 * k \in {2, 4} /\ (2 * k = 2 <=> k = 1)
    OBVIOUS
  <2>3. QED
    BY <2>1, <2>2
<1>9. QED
  BY <1>3, <1>4, <1>6, <1>7, <1>8, Zenon DEF a, ts, bad, Streams

\* What a call that has read the header c.got does with the body of the same reply;
\* d is the call before it has read that.
LEMMA MongoBodyKeepsUp ==
  ASSUME NEW n \in Nat, NEW c \in Callers(n), c.step # "none", c.got # <<>>,
         NEW d, d.q = c.q, d.kind = c.kind, d.bound = c.bound,
         NEW b \in Streams(n), NEW sent \in Streams(n), MongoStream(c, b \o sent)
  PROVE  /\ GoodTurn(d, Mongo!readBody(c, b), n)
         /\ KeepsUp("mongodb", d, Mongo!readBody(c, b), sent)
<1> DEFINE w == b \o sent
           turn == Mongo!readBody(c, b)
<1>1. NoCall.step = "none"
  BY DEF NoCall, Call
<1>2. /\ Len(w) = 2 /\ OfCall(w, c.q) /\ OfCall(c.got, c.q)
      /\ (c.step = "saslStart" => c.q = 0)
  BY <1>1 DEF MongoStream
<1>3. /\ Len(w) = Len(b) + Len(sent) /\ Len(b) \in Nat /\ Len(sent) \in Nat
      /\ <<>> \o sent = sent /\ sent \o <<>> = sent
  <2>1. b \in Seq(Pieces(n)) /\ sent \in Seq(Pieces(n))
    BY DEF Streams
  <2>2. QED
    BY <2>1, SentHolds
<1>4. OfCall(b, c.q)
  BY <1>2, OfCallJoin DEF Streams
<1>5. c.q \in 0..n /\ c.kind \in CallKinds /\ c.got \in Streams(n) /\ <<>> \in Streams(n)
  BY DEF Callers, Streams
<1>6. turn = IF Len(b) < 2 THEN Waits(c, b, <<>>) ELSE Mongo!Replies(c, b[2], Drop(b, 2))
  BY MongoReadBody
<1> HIDE DEF w, turn
<1>7. CASE Len(b) < 2
  <2>1. turn = Waits(c, b, <<>>)
    BY <1>6, <1>7
  <2>2. GoodTurn(d, Waits(c, b, <<>>), n)
    BY <1>5, WaitsWell
  <2>3. Stream("mongodb", c, b \o (sent \o <<>>))
    <3>1. MongoStream(c, w)
      BY DEF w
    <3>2. b \o (sent \o <<>>) = w
      BY <1>3 DEF w
    <3>3. QED
      BY <3>1, <3>2, MongoIsStream
  <2>4. KeepsUp("mongodb", d, Waits(c, b, <<>>), sent)
    BY <2>3, WaitsKeepUp
  <2>5. QED
    BY <2>1, <2>2, <2>4 DEF turn
<1>8. CASE ~(Len(b) < 2)
  <2>1. Len(b) = 2 /\ Len(sent) = 0
    <3>1. Len(w) = 2 /\ Len(w) = Len(b) + Len(sent) /\ Len(b) \in Nat /\ Len(sent) \in Nat
      BY <1>2, <1>3
    <3>2. \A l, k, m \in Nat : l = 2 /\ l = k + m /\ ~(k < 2) => k = 2 /\ m = 0
      OBVIOUS
    <3>3. QED
      BY <1>8, <3>1, <3>2
  <2>2. sent = <<>> /\ Drop(b, 2) = <<>>
    <3>1. sent = <<>>
      BY <2>1, EmptySeq DEF Streams
    <3>2. Drop(b, Len(b)) = <<>>
      BY DropAll DEF Streams
    <3>3. QED
      BY <2>1, <3>1, <3>2
  <2> DEFINE seen == Append(c.got, b[2])
             more == Answers(0, Mongo!Reply(IF c.kind = "denied" THEN "fails" ELSE "done"))
             next(none) == [c EXCEPT !.step = "saslContinue", !.got = none]
  <2>3. turn = IF b[2].t = "fails" THEN Ends(Outcome("error", 0, seen), <<>>)
               ELSE IF c.step = "saslStart" THEN Waits(next(<<>>), <<>>, more)
               ELSE IF c.step = "saslContinue" /\ c.kind = "impostor"
               THEN Ends(Fails("error"), <<>>)
               ELSE Ends(Outcome("result", Mongo!Rows(b[2]), seen), <<>>)
    BY <1>6, <1>8, <2>2, MongoReplies, Zenon
  <2>4. seen \in Streams(n) /\ OfCall(seen, c.q)
    <3>1. 2 \in 1..Len(b) /\ b \in Seq(Pieces(n))
      BY <2>1 DEF Streams
    <3>2. b[2] \in Pieces(n) /\ b[2].q = c.q
      BY <1>4, <3>1 DEF OfCall
    <3> DEFINE e == b[2]
               g == c.got
    <3>3. g \in Seq(Pieces(n)) /\ e \in Pieces(n) /\ e.q = c.q /\ OfCall(g, c.q)
      BY <1>2, <1>5, <3>2 DEF Streams
    <3> HIDE DEF e, g
    <3>4. /\ Append(g, e) \in Seq(Pieces(n)) /\ Len(Append(g, e)) = Len(g) + 1 /\ Len(g) \in Nat
          /\ \A i \in 1..Len(g) : Append(g, e)[i] = g[i]
          /\ Append(g, e)[Len(g) + 1] = e
      BY <3>3
    <3>5. OfCall(Append(g, e), c.q)
      <4>1. ASSUME NEW i \in 1..Len(Append(g, e)) PROVE Append(g, e)[i].q = c.q
        <5>1. CASE i = Len(g) + 1
          BY <3>3, <3>4, <5>1
        <5>2. CASE i # Len(g) + 1
          <6>1. i \in 1..Len(g)
            BY <3>4, <5>2
          <6>2. QED
            BY <3>3, <3>4, <6>1 DEF OfCall
        <5>3. QED
          BY <5>1, <5>2
      <4>2. QED
        BY <4>1 DEF OfCall
    <3>6. QED
      BY <3>4, <3>5 DEF e, g, Streams
  <2>5. Mongo!Rows(b[2]) \in Nat /\ 0 \in Nat /\ "error" \in Statuses /\ "result" \in Statuses
    BY DEF Mongo!Rows, Statuses
  <2>6. Stream("mongodb", NoCall, <<>> \o sent)
    <3>1. <<>> \o sent = <<>>
      BY <1>3, <2>2
    <3>2. QED
      BY <3>1, MongoIsStream, Zenon DEF MongoStream
  <2>7. ASSUME NEW o \in Outcomes(n), Cardinality(o.of) <= 1
        PROVE  GoodTurn(d, Ends(o, <<>>), n) /\ KeepsUp("mongodb", d, Ends(o, <<>>), sent)
    <3>1. GoodTurn(d, Ends(o, <<>>), n)
      BY <1>5, <2>7, EndsWell
    <3>2. QED
      BY <2>6, <3>1, EndsKeepUp DEF Streams
  <2>8. ASSUME NEW status \in Statuses, NEW rows \in Nat
        PROVE  /\ GoodTurn(d, Ends(Outcome(status, rows, seen), <<>>), n)
               /\ KeepsUp("mongodb", d, Ends(Outcome(status, rows, seen), <<>>), sent)
    <3> HIDE DEF seen
    <3>1. /\ Outcome(status, rows, seen) \in Outcomes(n)
          /\ Cardinality(Outcome(status, rows, seen).of) <= 1
      BY <2>4, OwnOutcome
    <3>2. QED
      BY <2>7, <3>1
  <2>9. /\ GoodTurn(d, Ends(Fails("error"), <<>>), n)
        /\ KeepsUp("mongodb", d, Ends(Fails("error"), <<>>), sent)
    <3>1. Fails("error") \in Outcomes(n) /\ Cardinality(Fails("error").of) <= 1
      BY <2>5, FailsWell
    <3>2. QED
      BY <2>7, <3>1
  <2>10. c.step = "saslStart" =>
           /\ GoodTurn(d, Waits(next(<<>>), <<>>, more), n)
           /\ KeepsUp("mongodb", d, Waits(next(<<>>), <<>>, more), sent)
    <3> SUFFICES ASSUME c.step = "saslStart"
                 PROVE  /\ GoodTurn(d, Waits(next(<<>>), <<>>, more), n)
                        /\ KeepsUp("mongodb", d, Waits(next(<<>>), <<>>, more), sent)
      OBVIOUS
    <3>1. c.q = 0 /\ 0 \in 0..n
      BY <1>2, <1>5
    <3>2. /\ more \in Streams(n) /\ Len(more) \in {2, 4} /\ OfCall(more, c.q)
          /\ (Len(more) = 2 <=> more[2].t = "bad header")
      BY <3>1, MongoReplyFits, Zenon
    <3>3. \A none \in Streams(n) :
            /\ next(none) \in Callers(n) /\ next(none).q = c.q /\ next(none).kind = c.kind
            /\ next(none).bound = c.bound /\ next(none).step = "saslContinue"
            /\ next(none).got = none
      BY DEF Callers, Steps
    <3>4. PICK none \in Streams(n) : none = <<>>
      BY <1>5
    <3> DEFINE x == next(none)
    <3>5. /\ x \in Callers(n) /\ x.q = c.q /\ x.kind = c.kind /\ x.bound = c.bound
          /\ x.step = "saslContinue" /\ x.got = <<>>
      BY <3>3, <3>4, Zenon
    <3>6. x = next(<<>>)
      BY <3>4
    <3> HIDE DEF x, more, next
    <3>7. GoodTurn(d, Waits(x, <<>>, more), n)
      <4>1. x.q = d.q /\ x.kind = d.kind /\ x.bound = d.bound /\ x.step # "none"
        BY <3>5
      <4>2. QED
        BY <1>5, <3>2, <3>5, <4>1, WaitsWell, Zenon
    <3>8. <<>> \o (sent \o more) = more
      BY <2>2, <3>2, ConcatEmptySeq, Zenon DEF Streams
    <3>9. MongoStream(x, more)
      <4>1. x # NoCall
        BY <1>1, <3>5
      <4>2. OfCall(x.got, x.q)
        BY <3>5 DEF OfCall
      <4>3. QED
        BY <3>2, <3>5, <4>1, <4>2, Zenon DEF MongoStream
    <3>10. Stream("mongodb", x, <<>> \o (sent \o more))
      BY <3>8, <3>9, MongoIsStream
    <3>11. KeepsUp("mongodb", d, Waits(x, <<>>, more), sent)
      BY <3>10, WaitsKeepUp
    <3>12. QED
      BY <3>6, <3>7, <3>11
  <2> HIDE DEF seen, next, more
  <2>11. QED
    BY <2>3, <2>5, <2>8, <2>9, <2>10 DEF turn
<1>9. QED
  BY <1>7, <1>8 DEF turn

\* #readBytes(): a call waits for the header and then for the body of one reply.
LEMMA MongoTurnKeepsUp ==
  ASSUME NEW n \in Nat, NEW c \in Callers(n), c.step # "none",
         NEW b \in Streams(n), NEW sent \in Streams(n), MongoStream(c, b \o sent)
  PROVE  /\ GoodTurn(c, Mongo!Reads(c, b), n)
         /\ KeepsUp("mongodb", c, Mongo!Reads(c, b), sent)
<1> DEFINE w == b \o sent
           turn == Mongo!Reads(c, b)
           bad == "bad header"
<1>1. NoCall.step = "none"
  BY DEF NoCall, Call
<1>2. /\ OfCall(w, c.q) /\ OfCall(c.got, c.q)
      /\ c.got = <<>> => Len(w) \in {2, 4} /\ (Len(w) = 2 <=> w[2].t = bad)
      /\ c.step = "saslStart" => c.q = 0
  BY <1>1, Zenon DEF MongoStream
<1>3. /\ w \in Streams(n) /\ Len(w) = Len(b) + Len(sent) /\ Len(b) \in Nat /\ Len(sent) \in Nat
      /\ \A i \in 1..Len(b) : w[i] = b[i]
      /\ <<>> \o sent = sent /\ sent \o <<>> = sent
  <2>1. b \in Seq(Pieces(n)) /\ sent \in Seq(Pieces(n))
    BY DEF Streams
  <2>2. QED
    BY <2>1, SentHolds DEF Streams
<1>4. OfCall(b, c.q) /\ OfCall(sent, c.q)
  BY <1>2, OfCallJoin, Zenon DEF Streams
<1>5. <<>> \in Streams(n) /\ "error" \in Statuses
  BY DEF Streams, Statuses
<1>6. turn = IF InStep(b)
             THEN IF c.got # <<>> THEN Mongo!readBody(c, b)
                  ELSE IF Len(b) < 2 THEN Waits(c, b, <<>>)
                  ELSE IF b[2].t = bad THEN Ends(Fails("error"), Drop(b, 2))
                  ELSE Mongo!readBody([c EXCEPT !.got = <<b[2]>>], Drop(b, 2))
             ELSE Astray(c)
  BY MongoReads, MongoExecute, Zenon
<1> HIDE DEF w, turn, bad
<1>7. CASE ~InStep(b)
  <2>1. turn = Astray(c)
    BY <1>6, <1>7
  <2>2. GoodTurn(c, Astray(c), n) /\ Astray(c).lost = TRUE
    BY AstrayIsLost
  <2>3. QED
    BY <2>1, <2>2, LostKeepsUp DEF turn
<1>8. CASE InStep(b) /\ c.got # <<>>
  <2>1. turn = Mongo!readBody(c, b)
    BY <1>6, <1>8
  <2>2. /\ GoodTurn(c, Mongo!readBody(c, b), n)
        /\ KeepsUp("mongodb", c, Mongo!readBody(c, b), sent)
    BY <1>8, MongoBodyKeepsUp
  <2>3. QED
    BY <2>1, <2>2 DEF turn
<1>9. CASE InStep(b) /\ c.got = <<>> /\ Len(b) < 2
  <2>1. turn = Waits(c, b, <<>>)
    BY <1>6, <1>9
  <2>2. GoodTurn(c, Waits(c, b, <<>>), n)
    BY <1>5, WaitsWell
  <2>3. Stream("mongodb", c, b \o (sent \o <<>>))
    <3>1. MongoStream(c, w)
      BY DEF w
    <3>2. b \o (sent \o <<>>) = w
      BY <1>3 DEF w
    <3>3. QED
      BY <3>1, <3>2, MongoIsStream
  <2>4. KeepsUp("mongodb", c, Waits(c, b, <<>>), sent)
    BY <2>3, WaitsKeepUp
  <2>5. QED
    BY <2>1, <2>2, <2>4 DEF turn
<1>10. CASE InStep(b) /\ c.got = <<>> /\ ~(Len(b) < 2)
  <2>1. /\ w[2] = b[2] /\ 2 \in 0..Len(b) /\ 2 \in 1..Len(b)
    BY <1>3, <1>10
  <2>2. Len(w) \in {2, 4} /\ (Len(w) = 2 <=> b[2].t = bad)
    BY <1>2, <1>10, <2>1
  <2>3. CASE b[2].t = bad
    <3>1. Len(b) = 2 /\ Len(sent) = 0
      <4>1. Len(w) = 2 /\ Len(w) = Len(b) + Len(sent) /\ Len(b) \in Nat /\ Len(sent) \in Nat
        BY <1>3, <2>2, <2>3
      <4>2. \A l, k, m \in Nat : l = 2 /\ l = k + m /\ ~(k < 2) => k = 2 /\ m = 0
        OBVIOUS
      <4>3. QED
        BY <1>10, <4>1, <4>2
    <3>2. sent = <<>> /\ Drop(b, 2) = <<>>
      <4>1. sent = <<>>
        BY <3>1, EmptySeq DEF Streams
      <4>2. Drop(b, Len(b)) = <<>>
        BY DropAll DEF Streams
      <4>3. QED
        BY <3>1, <4>1, <4>2
    <3>3. turn = Ends(Fails("error"), <<>>)
      BY <1>6, <1>10, <2>3, <3>2
    <3>4. Fails("error") \in Outcomes(n) /\ Cardinality(Fails("error").of) <= 1
      BY <1>5, FailsWell
    <3>5. GoodTurn(c, Ends(Fails("error"), <<>>), n)
      BY <1>5, <3>4, EndsWell
    <3>6. Stream("mongodb", NoCall, <<>> \o sent)
      <4>1. <<>> \o sent = <<>>
        BY <1>3, <3>2
      <4>2. QED
        BY <4>1, MongoIsStream, Zenon DEF MongoStream
    <3>7. KeepsUp("mongodb", c, Ends(Fails("error"), <<>>), sent)
      BY <3>6, EndsKeepUp DEF Streams
    <3>8. QED
      BY <3>3, <3>5, <3>7 DEF turn
  <2>4. CASE b[2].t # bad
    <3> DEFINE e == <<b[2]>>
               x == [c EXCEPT !.got = e]
               d == Drop(b, 2)
    <3>1. turn = Mongo!readBody(x, d)
      BY <1>6, <1>10, <2>4
    <3>2. b[2] \in Pieces(n) /\ b[2].q = c.q
      BY <1>4, <2>1 DEF OfCall, Streams
    <3>3. e \in Streams(n) /\ e # <<>> /\ OfCall(e, c.q)
      <4>1. <<b[2]>> \in Seq(Pieces(n)) /\ <<b[2]>> # <<>>
        BY <3>2
      <4>2. OfCall(<<b[2]>>, c.q)
        BY <3>2 DEF OfCall
      <4>3. QED
        BY <4>1, <4>2 DEF Streams
    <3> HIDE DEF e
    <3>4. /\ x \in Callers(n) /\ x.q = c.q /\ x.kind = c.kind /\ x.bound = c.bound
          /\ x.step = c.step /\ x.got = e
      BY <3>3 DEF Callers
    <3>5. d \in Streams(n) /\ Len(d) = Len(b) - 2 /\ OfCall(d, c.q)
      BY <1>4, <2>1, DropHolds, OfCallDrop DEF Streams
    <3> HIDE DEF x, d
    <3>6. Len(d \o sent) = 2 /\ OfCall(d \o sent, c.q)
      <4>1. d \in Seq(Pieces(n)) /\ sent \in Seq(Pieces(n))
        BY <3>5 DEF Streams
      <4>2. OfCall(d \o sent, c.q)
        BY <1>4, <3>5, <4>1, OfCallJoin
      <4>3. Len(d \o sent) = Len(d) + Len(sent)
        BY <4>1, JoinHolds
      <4>4. Len(w) = 4 /\ Len(w) = Len(b) + Len(sent) /\ Len(b) \in Nat /\ Len(sent) \in Nat
        BY <1>3, <2>2, <2>4
      <4>5. \A l, k, m \in Nat : l = 4 /\ l = k + m => (k - 2) + m = 2
        OBVIOUS
      <4>6. Len(d \o sent) = 2
        <5>1. Len(d \o sent) = (Len(b) - 2) + Len(sent)
          BY <3>5, <4>3
        <5>2. (Len(b) - 2) + Len(sent) = 2
          BY <4>4, <4>5
        <5>3. QED
          BY <5>1, <5>2
      <4>7. QED
        BY <4>2, <4>6
    <3>7. x # NoCall
      BY <1>1, <3>4
    <3>8. MongoStream(x, d \o sent)
      BY <1>2, <3>3, <3>4, <3>6, <3>7, Zenon DEF MongoStream
    <3>9. /\ GoodTurn(c, Mongo!readBody(x, d), n)
          /\ KeepsUp("mongodb", c, Mongo!readBody(x, d), sent)
      BY <3>3, <3>4, <3>5, <3>8, MongoBodyKeepsUp
    <3>10. QED
      BY <3>1, <3>9 DEF turn
  <2>5. QED
    BY <2>3, <2>4
<1>11. QED
  BY <1>7, <1>8, <1>9, <1>10

LEMMA MongoRequestKeeps ==
  ASSUME SessionInv, protocol = "mongodb", NEW kind \in CallKinds, NEW bound \in BOOLEAN,
         NEW k, Mongo!Requests(kind, bound, "execute", Mongo!Reply(k)),
         txn' = txn, protocol' = protocol
  PROVE  SessionInv'
<1> DEFINE n == Len(asked) + 1
           c == NextCall(kind, bound, "execute")
           answer == Mongo!Reply(k)
           turn == Mongo!Reads(c, buffer)
           a == Answers(n, answer)
<1>1. Asks(c, answer, turn)
  BY MongoShares DEF Mongo!Requests
<1>2. Len(asked) \in Nat /\ n \in Nat /\ n \in 0..n /\ n > 0 /\ txn' \in Nat
  BY DEF SessionInv, Session, FieldTypes
<1>3. "execute" \in Steps \ {"none"} /\ "execute" # "none" /\ "execute" # "saslStart"
  BY DEF Steps
<1>4. c = Call(n, kind, bound, "execute")
  BY DEF NextCall
<1> HIDE DEF c, turn, n
<1>5. /\ a \in Streams(n) /\ Len(a) \in {2, 4} /\ (Len(a) = 2 <=> a[2].t = "bad header")
      /\ OfCall(a, n)
  BY <1>2, MongoReplyFits, Zenon
<1>6. c.q = n /\ c.step = "execute" /\ c.got = <<>>
  BY <1>2, <1>3, <1>4, CallTyped
<1> HIDE DEF a
<1>7. Stream(protocol, NoCall, buffer \o net) => Stream(protocol, c, (buffer \o net) \o a)
  <2>1. ASSUME MongoStream(NoCall, buffer \o net)
        PROVE  MongoStream(c, (buffer \o net) \o a)
    <3>1. buffer \o net = <<>>
      BY <2>1 DEF MongoStream
    <3>2. <<>> \o a = a
      BY <1>5, ConcatEmptySeq, Zenon DEF Streams
    <3>3. OfCall(c.got, c.q)
      BY <1>6 DEF OfCall
    <3>4. OfCall(a, c.q) /\ c.step # "saslStart"
      BY <1>3, <1>5, <1>6, Zenon
    <3>5. c # NoCall
      BY <1>6 DEF NoCall, Call
    <3>6. MongoStream(c, a)
      BY <1>5, <1>6, <3>3, <3>4, <3>5, Zenon DEF MongoStream
    <3>7. QED
      BY <3>1, <3>2, <3>6
  <2>2. QED
    BY <2>1, MongoIsStream
<1>8. ASSUME n \in Nat, c \in Callers(n), c.step # "none", buffer \in Streams(n),
             net \o a \in Streams(n), Stream(protocol, c, buffer \o (net \o a))
      PROVE  GoodTurn(c, turn, n) /\ KeepsUp(protocol, c, turn, net \o a)
  <2>1. MongoStream(c, buffer \o (net \o a))
    BY <1>8, MongoIsStream
  <2>2. QED
    BY <1>8, <2>1, MongoTurnKeepsUp DEF turn
<1>9. c = NextCall(kind, bound, "execute")
  BY DEF c
<1>10. Answers(Len(asked) + 1, answer) \in Streams(Len(asked) + 1)
  BY <1>5, Zenon DEF a, n
<1>11. Stream(protocol, NoCall, buffer \o net) =>
         Stream(protocol, c, (buffer \o net) \o Answers(Len(asked) + 1, answer))
  BY <1>7 DEF a, n
<1> HIDE DEF answer
<1>12. ASSUME Len(asked) + 1 \in Nat, c \in Callers(Len(asked) + 1), c.step # "none",
              buffer \in Streams(Len(asked) + 1),
              net \o Answers(Len(asked) + 1, answer) \in Streams(Len(asked) + 1),
              Stream(protocol, c, buffer \o (net \o Answers(Len(asked) + 1, answer)))
       PROVE  /\ GoodTurn(c, turn, Len(asked) + 1)
              /\ KeepsUp(protocol, c, turn, net \o Answers(Len(asked) + 1, answer))
  BY <1>8, <1>12 DEF a, n
<1>13. QED
  BY <1>1, <1>2, <1>3, <1>9, <1>10, <1>11, <1>12, RequestFollows, Zenon

LEMMA MongoChunkKeeps ==
  ASSUME SessionInv, protocol = "mongodb", Mongo!onData, protocol' = protocol
  PROVE  SessionInv'
<1>1. PICK n \in 1..Len(net) :
        Mongo!Receives(n, Mongo!Reads(call, Mongo!Arrived(n)),
                       n < Len(net) /\ Mongo!Torn(net[n + 1]))
  BY DEF Mongo!onData
<1> DEFINE turn == Mongo!Reads(call, Arrived(n))
           torn == n < Len(net) /\ Mongo!Torn(net[n + 1])
<1>2. Receives(n, turn, torn)
  BY <1>1, MongoShares
<1>3. txn' = txn
  BY DEF Mongo!onData
<1>4. torn \in BOOLEAN
  OBVIOUS
<1>5. /\ Len(asked) \in Nat /\ call \in Callers(Len(asked)) /\ txn \in Nat
      /\ (txn > 0 => state = "ready")
  BY DEF SessionInv, Session, FieldTypes, Suspended
<1> HIDE DEF turn, torn
<1>6. ASSUME call # NoCall, Stream(protocol, call, Arrived(n) \o Drop(net, n)),
             call.step # "none", Arrived(n) \in Streams(Len(asked)),
             Drop(net, n) \in Streams(Len(asked))
      PROVE  /\ GoodTurn(call, turn, Len(asked))
             /\ KeepsUp(protocol, call, turn, Drop(net, n))
  <2>1. MongoStream(call, Arrived(n) \o Drop(net, n))
    BY <1>6, MongoIsStream
  <2>2. QED
    BY <1>5, <1>6, <2>1, MongoTurnKeepsUp DEF turn
<1>7. QED
  BY <1>2, <1>3, <1>4, <1>5, <1>6, ChunkKeeps, Zenon

LEMMA MongoConnectKeeps ==
  ASSUME SessionInv, protocol = "mongodb", Mongo!connect, protocol' = protocol
  PROVE  SessionInv'
<1>1. CASE \E auth \in Mongo!Auths :
             Mongo!Connects(auth, "saslStart", Mongo!Answers(0, Mongo!Reply("done")))
  <2>1. PICK auth \in Mongo!Auths :
          Mongo!Connects(auth, "saslStart", Mongo!Answers(0, Mongo!Reply("done")))
    BY <1>1
  <2> DEFINE g == Answers(0, Mongo!Reply("done"))
  <2>2. Connects(auth, "saslStart", g)
    BY <2>1, MongoShares
  <2>3. auth \in CallKinds /\ "saslStart" \in Steps \ {"none"} /\ "saslStart" # "none"
    BY Zenon DEF Mongo!Auths, CallKinds, Steps
  <2>4. ASSUME NEW n \in Nat
        PROVE  /\ g \in Streams(n) /\ Len(g) \in {2, 4} /\ (Len(g) = 2 <=> g[2].t = "bad header")
               /\ OfCall(g, 0)
    <3>1. 0 \in 0..n
      OBVIOUS
    <3>2. QED
      BY <3>1, MongoReplyFits, Zenon
  <2>5. /\ Len(g) \in {2, 4} /\ (Len(g) = 2 <=> g[2].t = "bad header") /\ OfCall(g, 0)
    <3>1. 0 \in Nat
      OBVIOUS
    <3>2. QED
      BY <2>4, <3>1, Zenon
  <2> HIDE DEF g
  <2>6. \A bound \in BOOLEAN : MongoStream(Call(0, auth, bound, "saslStart"), g)
    <3>1. ASSUME NEW bound \in BOOLEAN
          PROVE  MongoStream(Call(0, auth, bound, "saslStart"), g)
      <4> DEFINE c == Call(0, auth, bound, "saslStart")
      <4>1. c.q = 0 /\ c.got = <<>> /\ c.step = "saslStart"
        BY DEF Call
      <4>2. c # NoCall
        BY <2>3, <4>1 DEF NoCall, Call
      <4> HIDE DEF c
      <4>3. OfCall(<<>>, 0)
        BY DEF OfCall
      <4>4. OfCall(c.got, c.q) /\ OfCall(g, c.q)
        BY <2>5, <4>1, <4>3, Zenon
      <4>5. MongoStream(c, g)
        BY <2>5, <4>1, <4>2, <4>4, Zenon DEF MongoStream
      <4>6. QED
        BY <4>5 DEF c
    <3>2. QED
      BY <3>1
  <2>7. Stream(protocol, Call(0, auth, FALSE, "saslStart"), g)
    BY <2>6, MongoIsStream
  <2>8. \A n \in Nat : g \in Streams(n)
    BY <2>4, Zenon
  <2>9. auth # "multi"
    BY Zenon DEF Mongo!Auths
  <2>10. QED
    BY <2>2, <2>3, <2>7, <2>8, <2>9, ConnectKeeps
<1>2. CASE /\ state = "new" /\ state' = "ready" /\ socket' = "up"
           /\ UNCHANGED <<net, buffer, call, asked, told, txn, whole, lost>>
  <2>1. Stream(protocol, NoCall, <<>>)
    BY MongoIsStream, Zenon DEF MongoStream
  <2>2. QED
    BY <1>2, <2>1, ReadyKeeps
<1>3. QED
  BY <1>1, <1>2 DEF Mongo!connect

\* startTransaction() changes only the number of the object's own transaction.
LEMMA MongoStartsKeeps ==
  ASSUME SessionInv, protocol = "mongodb", Mongo!startTransaction, protocol' = protocol
  PROVE  SessionInv'
<1>1. /\ state = "ready" /\ txn' = txn + 1
      /\ UNCHANGED <<state, socket, net, buffer, call, asked, told, whole, lost>>
  BY DEF Mongo!startTransaction
<1>2. FieldTypes'
  BY <1>1 DEF SessionInv, Session, FieldTypes
<1>3. Suspended'
  BY <1>1 DEF SessionInv, Session, Suspended
<1>4. ToldInOrder'
  BY <1>1 DEF SessionInv, Session, ToldInOrder
<1>5. Following'
  BY <1>1 DEF SessionInv, Following
<1>6. QED
  BY <1>2, <1>3, <1>4, <1>5 DEF SessionInv, Session

LEMMA MongoKeeps ==
  ASSUME SessionInv, protocol = "mongodb", Mongo!Next, protocol' = protocol
  PROVE  SessionInv'
<1>1. \A kind \in CallKinds, bound \in BOOLEAN : \A k :
        Mongo!Requests(kind, bound, "execute", Mongo!Reply(k)) /\ txn' = txn => SessionInv'
  BY MongoRequestKeeps
<1>2. CASE Mongo!executeCommand
  <2>1. PICK kind \in Mongo!Kinds :
          Mongo!Requests(kind, FALSE, "execute", Mongo!Reply(kind)) /\ txn' = txn
    BY <1>2 DEF Mongo!executeCommand
  <2>2. kind \in CallKinds
    BY Zenon DEF Mongo!Kinds, CallKinds
  <2>3. \A bound \in BOOLEAN :
          Mongo!Requests(kind, bound, "execute", Mongo!Reply(kind)) => SessionInv'
    BY <1>1, <2>1, <2>2
  <2>4. QED
    BY <2>1, <2>3
<1>3. CASE Mongo!endTransaction
  <2>1. PICK kind \in {"commitTransaction", "abortTransaction"} :
          Mongo!Requests(kind, FALSE, "execute", Mongo!Reply("fails")) /\ txn' = txn
    BY <1>3 DEF Mongo!endTransaction
  <2>2. kind \in CallKinds
    BY Zenon DEF CallKinds
  <2>3. \A bound \in BOOLEAN :
          Mongo!Requests(kind, bound, "execute", Mongo!Reply("fails")) => SessionInv'
    BY <1>1, <2>1, <2>2
  <2>4. QED
    BY <2>1, <2>3
<1>4. CASE Mongo!connect \/ Mongo!startTransaction \/ Mongo!onData
  BY <1>4, MongoConnectKeeps, MongoStartsKeeps, MongoChunkKeeps
<1>5. CASE Mongo!onError \/ Mongo!onClose \/ Mongo!close
  <2>1. Rejects("failed") \/ Rejects("gone")
    BY <1>5, MongoShares DEF Mongo!onError, Mongo!onClose, Mongo!close
  <2>2. "failed" \in {"failed", "gone"} /\ "gone" \in {"failed", "gone"}
    OBVIOUS
  <2>3. QED
    BY <2>1, <2>2, RejectKeeps
<1>6. QED
  BY <1>2, <1>3, <1>4, <1>5 DEF Mongo!Next

-----------------------------------------------------------------------------
(* The theorems                                                             *)

\* A connection that has not been opened has sent nothing.
LEMMA SessionsBegin == SessionsInit => SessionInv
<1>1. SUFFICES ASSUME SessionsInit PROVE SessionInv
  OBVIOUS
<1>2. Init /\ protocol \in Protocols
  BY <1>1 DEF SessionsInit
<1>3. Session
  BY <1>2, InitHolds
<1>4. Following
  BY <1>2 DEF Init, Following
<1>5. QED
  BY <1>3, <1>4 DEF SessionInv

\* A reader that is lost tells a call of what may be made of any answers so far.
LEMMA GarbledApart ==
  ASSUME NEW n \in Nat
  PROVE  Garbled(n) \in Outcomes(n) /\ Apart(Garbled(n))
BY DEF Garbled, Outcomes, Statuses, Apart

LEMMA LostKeeps ==
  ASSUME SessionInv, LostReads, protocol' = protocol
  PROVE  SessionInv'
<1> DEFINE n == Len(asked)
<1>1. /\ lost /\ call # NoCall /\ call' = NoCall
      /\ state' \in IF state = "connecting" THEN {"ready", "refused"} ELSE {state}
      /\ told' = IF call.q > 0 THEN Append(told, Garbled(call.q)) ELSE told
      /\ UNCHANGED <<socket, net, buffer, asked, whole, lost>>
      /\ txn' \in IF call.kind = "multi" THEN {txn, 1} ELSE {txn}
  BY DEF LostReads, Misreads
<1>2. FieldTypes /\ Suspended /\ ToldInOrder
  BY DEF SessionInv, Session
<1>3. n \in Nat /\ NoCall \in Callers(n) /\ NoCall.q = 0 /\ call.q \in 0..n
  BY <1>2, NoCallTyped DEF FieldTypes, NoCall, Call, Callers
<1>4. \/ state = "connecting" /\ call.q = 0 /\ call.kind # "multi"
      \/ state = "ready" /\ call.q = n /\ n > 0
  BY <1>1, <1>2 DEF FieldTypes, Suspended
<1>5. told' \in Seq(Outcomes(n)) /\ ToldInOrder'
  <2>1. CASE call.q > 0
    <3>1. told' = Append(told, Garbled(n)) /\ Len(told) = n - 1 /\ call.q = n
      BY <1>1, <1>2, <1>4, <2>1 DEF ToldInOrder
    <3>2. Garbled(n) \in Outcomes(n) /\ Apart(Garbled(n))
      BY <1>3, GarbledApart
    <3>3. told \in Seq(Outcomes(n))
      BY <1>2 DEF FieldTypes
    <3>4. \A i \in 1..Len(told) : told[i].of \subseteq 0..i /\ Apart(told[i])
      BY <1>2 DEF ToldInOrder
    <3>5. /\ told' \in Seq(Outcomes(n)) /\ Len(told') = n
          /\ \A i \in 1..n : told'[i].of \subseteq 0..i /\ Apart(told'[i])
      <4> HIDE DEF n
      <4>1. QED
        BY <1>3, <3>1, <3>2, <3>3, <3>4, ToldNext
    <3>6. Len(told') = Len(asked') - (IF call'.q > 0 THEN 1 ELSE 0)
      BY <1>1, <1>3, <3>5
    <3>7. QED
      BY <3>5, <3>6 DEF ToldInOrder
  <2>2. CASE call.q = 0
    BY <1>1, <1>2, <1>3, <2>2 DEF ToldInOrder, FieldTypes
  <2>3. QED
    BY <1>3, <2>1, <2>2
<1>6. FieldTypes'
  <2>1. txn' \in Nat /\ state' \in {"new", "connecting", "ready", "refused"}
    BY <1>1, <1>2 DEF FieldTypes
  <2>2. QED
    BY <1>1, <1>2, <1>3, <1>5, <2>1 DEF FieldTypes
<1>7. Suspended'
  <2>1. state' \in {"ready", "refused"} /\ (txn' > 0 => state' = "ready")
    BY <1>1, <1>2, <1>4 DEF Suspended
  <2>2. QED
    BY <1>1, <2>1 DEF Suspended
<1>8. Following'
  <2>1. state' # "new" /\ lost'
    BY <1>1, <1>4
  <2>2. QED
    BY <2>1 DEF SessionInv, Following
<1>9. QED
  BY <1>5, <1>6, <1>7, <1>8 DEF SessionInv, Session

\* Whatever the protocol, a step of the connection keeps its reader where the
\* server believes it is, or says that it is lost.
LEMMA SessionsGoOn ==
  SessionInv /\ [SessionsNext]_<<vars, protocol>> => SessionInv'
<1>1. SUFFICES ASSUME SessionInv, [SessionsNext]_<<vars, protocol>> PROVE SessionInv'
  OBVIOUS
<1>2. CASE SessionsNext
  <2>1. protocol' = protocol
    BY <1>2 DEF SessionsNext
  <2>2. CASE protocol = "pg" /\ PG!Next
    BY <1>1, <2>1, <2>2, PGKeeps
  <2>3. CASE protocol = "mysql" /\ MySQL!Next
    BY <1>1, <2>1, <2>3, MySQLKeeps
  <2>4. CASE protocol = "redis" /\ Redis!Next
    BY <1>1, <2>1, <2>4, RedisKeeps
  <2>5. CASE protocol = "mongodb" /\ Mongo!Next
    BY <1>1, <2>1, <2>5, MongoKeeps
  <2>6. CASE LostReads
    BY <1>1, <2>1, <2>6, LostKeeps
  <2>7. QED
    BY <1>2, <2>2, <2>3, <2>4, <2>5, <2>6 DEF SessionsNext
<1>3. CASE UNCHANGED <<vars, protocol>>
  <2>1. /\ UNCHANGED <<state, socket, net, buffer, call, asked, told, txn, whole, lost>>
        /\ protocol' = protocol
    BY <1>3 DEF vars
  <2>2. FieldTypes'
    BY <1>1, <2>1 DEF SessionInv, Session, FieldTypes
  <2>3. Suspended'
    BY <1>1, <2>1 DEF SessionInv, Session, Suspended
  <2>4. ToldInOrder'
    BY <1>1, <2>1 DEF SessionInv, Session, ToldInOrder
  <2>5. Following'
    BY <1>1, <2>1 DEF SessionInv, Following
  <2>6. QED
    BY <2>2, <2>3, <2>4, <2>5 DEF SessionInv, Session
<1>4. QED
  BY <1>1, <1>2, <1>3

LEMMA SessionIsTyped == SessionInv => TypeOK
<1>1. SUFFICES ASSUME SessionInv PROVE TypeOK
  OBVIOUS
<1>2. FieldTypes /\ Suspended /\ ToldInOrder
  BY <1>1 DEF SessionInv, Session
<1>3. call.q = (IF state = "ready" /\ call # NoCall THEN Len(asked) ELSE 0)
  <2>1. NoCall.q = 0
    BY DEF NoCall, Call
  <2>2. state \in {"new", "connecting", "ready", "refused"}
    BY <1>2 DEF FieldTypes
  <2>3. QED
    BY <1>2, <2>1, <2>2 DEF Suspended
<1>4. ASSUME NEW i \in DOMAIN told
      PROVE  told[i].status \in Statuses /\ told[i].rows \in Nat /\ told[i].of \subseteq 0..i
  <2>1. told \in Seq(Outcomes(Len(asked)))
    BY <1>2 DEF FieldTypes
  <2>2. i \in 1..Len(told) /\ told[i] \in Outcomes(Len(asked))
    BY <2>1
  <2>3. told[i].of \subseteq 0..i
    BY <1>2, <2>2 DEF ToldInOrder
  <2>4. QED
    BY <2>2, <2>3 DEF Outcomes
<1>5. QED
  BY <1>2, <1>3, <1>4 DEF TypeOK, FieldTypes, ToldInOrder

LEMMA SessionIsApart == SessionInv => OneAnswerEach
<1>1. SUFFICES ASSUME SessionInv, NEW i \in DOMAIN told PROVE Apart(told[i])
  BY DEF OneAnswerEach
<1>2. told \in Seq(Outcomes(Len(asked)))
  BY <1>1 DEF SessionInv, Session, FieldTypes
<1>3. i \in 1..Len(told)
  BY <1>2
<1>4. QED
  BY <1>1, <1>3 DEF SessionInv, Session, ToldInOrder

(* A suspended call is the one that was made last, every earlier one has been   *)
(* told once, and of no later call's answer: for all four drivers and for any  *)
(* number of calls, wherever the network cuts the stream.                     *)
THEOREM SessionsTypeCorrect == Spec => []TypeOK
<1>1. QED
  BY SessionsBegin, SessionsGoOn, SessionIsTyped, PTL DEF Spec

(* No result is put together from the answers to two calls as long as the bytes  *)
(* are read as the messages they are, though it may be another call's answer.    *)
(* The PostgreSQL and MySQL readers take every message that has arrived; where    *)
(* those may belong to two answers, the result is made of the first of them      *)
(* alone.  A result made of bytes read as something they are not is "garbled",    *)
(* and of those nothing is said.                                              *)
THEOREM AnswersAreNotMixed == Spec => []OneAnswerEach
<1>1. QED
  BY SessionsBegin, SessionsGoOn, SessionIsApart, PTL DEF Spec
=============================================================================
