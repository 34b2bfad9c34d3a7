------------------------- MODULE DriverAnswers_proofs -------------------------
(***************************************************************************)
(* Proofs about what the callers of a driver are told, for any number of       *)
(* calls.  As long as the stream has not been cut where a reader cannot bear    *)
(* it, the suspended call has read the first messages of the answer to its own  *)
(* request, the rest of that answer is all there is in the buffer and on its    *)
(* way, and there is nothing at all between two calls.  So a call is handed the *)
(* whole of its own answer, and what it makes of it can be read off.           *)
(***************************************************************************)
EXTENDS DriverSessions_proofs

-----------------------------------------------------------------------------
(* An answer, read in part                                                  *)

\* What is read of a message: its second half, when both have arrived.
Message(q, t, i) == [q |-> q, t |-> t, i |-> i, half |-> 2]

\* The messages, of types ts, that answer call q: the first j of them, and the
\* pieces that follow these.
Part(q, ts, j) == [i \in 1..j |-> Message(q, ts[i], i)]
Pending(q, ts, j) == Drop(Answers(q, ts), 2 * j)

LEMMA PartHolds ==
  ASSUME NEW q, NEW ts, NEW j \in Nat
  PROVE  /\ DOMAIN Part(q, ts, j) = 1..j
         /\ Len(Part(q, ts, j)) = j
         /\ \A i \in 1..j : Part(q, ts, j)[i] = Message(q, ts[i], i)
BY DEF Part

LEMMA PartStarts ==
  ASSUME NEW q, NEW ts
  PROVE  /\ Len(Part(q, ts, 1)) = 1 /\ Part(q, ts, 1)[1] = Message(q, ts[1], 1)
         /\ Len(Part(q, ts, 2)) = 2 /\ Part(q, ts, 2)[1] = Message(q, ts[1], 1)
         /\ Part(q, ts, 2)[2] = Message(q, ts[2], 2)
BY DEF Part

LEMMA PartTyped ==
  ASSUME NEW n \in Nat, NEW q \in 0..n, NEW ts \in Seq(Types), NEW j \in 0..Len(ts)
  PROVE  Part(q, ts, j) \in Streams(n)
<1>1. \A i \in 1..j : Message(q, ts[i], i) \in Pieces(n)
  BY DEF Message, Pieces
<1>2. j \in Nat
  OBVIOUS
<1>3. QED
  BY <1>1, <1>2, IsASeq DEF Part, Streams

LEMMA PendingHolds ==
  ASSUME NEW n \in Nat, NEW q \in 0..n, NEW ts \in Seq(Types), NEW j \in 0..Len(ts)
  PROVE  /\ Pending(q, ts, j) \in Streams(n)
         /\ Len(Pending(q, ts, j)) = 2 * Len(ts) - 2 * j
         /\ \A i \in 1..(2 * Len(ts) - 2 * j) :
              Pending(q, ts, j)[i] = Answers(q, ts)[i + 2 * j]
<1> DEFINE a == Answers(q, ts)
<1>1. a \in Seq(Pieces(n)) /\ Len(a) = 2 * Len(ts)
  BY AnswersHold
<1>2. 2 * j \in 0..Len(a)
  BY <1>1
<1> HIDE DEF a
<1>3. /\ Drop(a, 2 * j) \in Seq(Pieces(n))
      /\ Len(Drop(a, 2 * j)) = Len(a) - 2 * j
      /\ \A i \in 1..(Len(a) - 2 * j) : Drop(a, 2 * j)[i] = a[i + 2 * j]
  BY <1>1, <1>2, DropHolds
<1>4. QED
  BY <1>1, <1>3 DEF a, Pending, Streams

\* Before anything is read all of the answer is pending, and nothing when all of
\* it is.
LEMMA PendingEnds ==
  ASSUME NEW n \in Nat, NEW q \in 0..n, NEW ts \in Seq(Types)
  PROVE  /\ Pending(q, ts, 0) = Answers(q, ts)
         /\ Pending(q, ts, Len(ts)) = <<>>
         /\ Part(q, ts, 0) = <<>>
<1> DEFINE a == Answers(q, ts)
<1>1. a \in Seq(Pieces(n)) /\ Len(a) = 2 * Len(ts)
  BY AnswersHold
<1> HIDE DEF a
<1>2. Drop(a, Len(a)) = <<>> /\ Drop(a, 0) = a
  BY <1>1, DropAll
<1>3. 2 * 0 = 0
  OBVIOUS
<1>4. QED
  BY <1>1, <1>2, <1>3 DEF a, Pending, Part

\* How an answer begins.
LEMMA AnswerBegins ==
  ASSUME NEW n \in Nat, NEW q \in 0..n, NEW ts \in Seq(Types), ts # <<>>
  PROVE  /\ Answers(q, ts) \in Streams(n) /\ Answers(q, ts) # <<>>
         /\ Answers(q, ts)[1].q = q /\ Answers(q, ts)[1].t = ts[1]
         /\ Answers(q, ts)[1].i = 1 /\ Answers(q, ts)[1].half = 1
<1> DEFINE a == Answers(q, ts)
<1>1. /\ a \in Seq(Pieces(n)) /\ Len(a) = 2 * Len(ts)
      /\ \A k \in 1..(2 * Len(ts)) :
           /\ a[k].q = q /\ a[k].t = ts[(k + 1) \div 2] /\ a[k].i = (k + 1) \div 2
           /\ a[k].half = IF k % 2 = 1 THEN 1 ELSE 2
  BY AnswersHold
<1>2. Len(ts) \in Nat /\ Len(ts) # 0
  BY EmptySeq
<1>3. 1 \in 1..(2 * Len(ts)) /\ (1 + 1) \div 2 = 1 /\ 1 % 2 = 1 /\ 2 * Len(ts) # 0
  BY <1>2
<1> HIDE DEF a
<1>4. a[1].q = q /\ a[1].t = ts[1] /\ a[1].i = 1 /\ a[1].half = 1
  BY <1>1, <1>3
<1>5. a # <<>>
  BY <1>1, <1>3
<1>6. QED
  BY <1>1, <1>4, <1>5 DEF a, Streams

\* What arrives of a pending answer is in step with it, and gives the messages
\* that come next.
LEMMA ArrivesInOrder ==
  ASSUME NEW n \in Nat, NEW q \in 0..n, NEW ts \in Seq(Types), NEW j \in 0..Len(ts),
         NEW b \in Streams(n), NEW s \in Streams(n), b \o s = Pending(q, ts, j)
  PROVE  /\ Len(b) \in Nat /\ Len(s) \in Nat
         /\ Len(b) + Len(s) = 2 * Len(ts) - 2 * j
         /\ \A i \in 1..Len(b) : b[i] = Answers(q, ts)[i + 2 * j]
         /\ \A i \in 1..Len(s) : s[i] = Answers(q, ts)[(i + Len(b)) + 2 * j]
         /\ InStep(b)
<1> DEFINE p == Pending(q, ts, j)
           a == Answers(q, ts)
<1>1. /\ Len(b \o s) = Len(b) + Len(s)
      /\ Len(b) \in Nat /\ Len(s) \in Nat
      /\ \A i \in 1..Len(b) : (b \o s)[i] = b[i]
      /\ \A i \in 1..Len(s) : (b \o s)[i + Len(b)] = s[i]
  BY JoinHolds, SMTT(30) DEF Streams
<1>2. /\ Len(p) = 2 * Len(ts) - 2 * j
      /\ \A i \in 1..(2 * Len(ts) - 2 * j) : p[i] = a[i + 2 * j]
  BY PendingHolds
<1>3. \A k \in 1..(2 * Len(ts)) : a[k].half = IF k % 2 = 1 THEN 1 ELSE 2
  BY AnswersHold, SMTT(30)
<1>4. b \o s = p
  OBVIOUS
<1> HIDE DEF p, a
<1>5. Len(b) + Len(s) = 2 * Len(ts) - 2 * j
  BY <1>1, <1>2, <1>4
<1>6. ASSUME NEW i \in 1..Len(b)
      PROVE  b[i] = a[i + 2 * j]
  <2>1. i \in 1..(2 * Len(ts) - 2 * j)
    BY <1>1, <1>5
  <2>2. QED
    BY <1>1, <1>2, <1>4, <2>1
<1>7. ASSUME NEW i \in 1..Len(s)
      PROVE  s[i] = a[(i + Len(b)) + 2 * j]
  <2>1. i + Len(b) \in 1..(2 * Len(ts) - 2 * j)
    BY <1>1, <1>5
  <2>2. QED
    BY <1>1, <1>2, <1>4, <2>1
<1>8. ASSUME NEW i \in 1..Len(b)
      PROVE  b[i].half = IF i % 2 = 1 THEN 1 ELSE 2
  <2>1. i + 2 * j \in 1..(2 * Len(ts)) /\ (i + 2 * j) % 2 = i % 2
    BY <1>1, <1>5
  <2>2. QED
    BY <1>3, <1>6, <2>1
<1>9. InStep(b)
  BY <1>8 DEF InStep
<1>10. QED
  BY <1>1, <1>5, <1>6, <1>7, <1>9 DEF a

LEMMA MessagesInOrder ==
  ASSUME NEW n \in Nat, NEW q \in 0..n, NEW ts \in Seq(Types), NEW j \in 0..Len(ts),
         NEW b \in Streams(n), NEW s \in Streams(n), b \o s = Pending(q, ts, j)
  PROVE  LET k == Len(b) \div 2
         IN  /\ k \in Nat /\ j + k \in 0..Len(ts)
             /\ Messages(b) \in Streams(n) /\ Len(Messages(b)) = k
             /\ \A i \in 1..k :
                  Messages(b)[i] = Message(q, ts[i + j], i + j)
<1> DEFINE k == Len(b) \div 2
<1>1. /\ Len(b) \in Nat /\ Len(s) \in Nat
      /\ Len(b) + Len(s) = 2 * Len(ts) - 2 * j
      /\ \A i \in 1..Len(b) : b[i] = Answers(q, ts)[i + 2 * j]
  BY ArrivesInOrder, ZenonT(60)
<1>2. /\ Messages(b) \in Seq(Pieces(n)) /\ Len(Messages(b)) = k /\ k \in Nat
      /\ \A i \in 1..k : 2 * i \in 1..Len(b) /\ Messages(b)[i] = b[2 * i]
  BY MessagesHold DEF Streams
<1>3. j + k \in 0..Len(ts)
  BY <1>1
<1>4. ASSUME NEW i \in 1..k
      PROVE  Messages(b)[i] = Message(q, ts[i + j], i + j)
  <2>1. Messages(b)[i] = Answers(q, ts)[2 * i + 2 * j]
    BY <1>1, <1>2
  <2>2. /\ 2 * i + 2 * j \in 1..(2 * Len(ts))
        /\ (2 * i + 2 * j + 1) \div 2 = i + j /\ (2 * i + 2 * j) % 2 # 1
    BY <1>1, <1>2, <1>3, SMTT(30)
  <2>3. QED
    BY <2>1, <2>2 DEF Answers, Message
<1>5. QED
  BY <1>2, <1>3, <1>4 DEF Streams

\* Two sequences in a row, known by their elements.
LEMMA JoinIs ==
  ASSUME NEW S, NEW a \in Seq(S), NEW b \in Seq(S), NEW r \in Seq(S),
         Len(r) = Len(a) + Len(b),
         \A i \in 1..Len(a) : r[i] = a[i],
         \A i \in 1..Len(b) : r[i + Len(a)] = b[i]
  PROVE  a \o b = r
<1> DEFINE w == a \o b
<1>1. /\ w \in Seq(S) /\ Len(w) = Len(a) + Len(b)
      /\ Len(a) \in Nat /\ Len(b) \in Nat
      /\ \A i \in 1..Len(a) : w[i] = a[i]
      /\ \A i \in 1..Len(b) : w[i + Len(a)] = b[i]
  BY JoinHolds
<1> HIDE DEF w
<1>2. ASSUME NEW i \in 1..Len(w)
      PROVE  w[i] = r[i]
  <2>1. CASE i \in 1..Len(a)
    BY <1>1, <2>1
  <2>2. CASE i \notin 1..Len(a)
    <3>1. i - Len(a) \in 1..Len(b) /\ (i - Len(a)) + Len(a) = i
      BY <1>1, <2>2
    <3>2. QED
      BY <1>1, <3>1
  <2>3. QED
    BY <2>1, <2>2
<1>3. QED
  BY <1>1, <1>2, SeqEqual DEF w

\* What is left of what is left.
LEMMA DropTwice ==
  ASSUME NEW S, NEW b \in Seq(S), NEW n \in 0..Len(b), NEW m \in 0..(Len(b) - n)
  PROVE  Drop(Drop(b, n), m) = Drop(b, n + m)
<1> DEFINE d == Drop(b, n)
           l == Drop(d, m)
           r == Drop(b, n + m)
<1>1. n \in Nat /\ m \in Nat /\ Len(b) \in Nat /\ n + m \in 0..Len(b)
  OBVIOUS
<1>2. /\ d \in Seq(S) /\ Len(d) = Len(b) - n
      /\ \A i \in 1..(Len(b) - n) : d[i] = b[i + n]
  BY DropHolds
<1> HIDE DEF d
<1>3. m \in 0..Len(d)
  BY <1>2
<1>4. /\ l \in Seq(S) /\ Len(l) = Len(d) - m
      /\ \A i \in 1..(Len(d) - m) : l[i] = d[i + m]
  BY <1>2, <1>3, DropHolds
<1>5. /\ r \in Seq(S) /\ Len(r) = Len(b) - (n + m)
      /\ \A i \in 1..(Len(b) - (n + m)) : r[i] = b[i + (n + m)]
  BY <1>1, DropHolds
<1> HIDE DEF l, r
<1>6. Len(l) = Len(r)
  BY <1>1, <1>2, <1>4, <1>5
<1>7. ASSUME NEW i \in 1..Len(l)
      PROVE  l[i] = r[i]
  <2>1. /\ i \in 1..(Len(d) - m) /\ i + m \in 1..(Len(b) - n)
        /\ i \in 1..(Len(b) - (n + m)) /\ (i + m) + n = i + (n + m)
    BY <1>1, <1>2, <1>4, <1>6
  <2>2. QED
    BY <1>2, <1>4, <1>5, <2>1
<1>8. QED
  BY <1>4, <1>5, <1>6, <1>7, SeqEqual DEF d, l, r

\* A read adds what has arrived to what was read, and the rest is still pending.
LEMMA ReadsOn ==
  ASSUME NEW n \in Nat, NEW q \in 0..n, NEW ts \in Seq(Types), NEW j \in 0..Len(ts),
         NEW b \in Streams(n), NEW s \in Streams(n), b \o s = Pending(q, ts, j)
  PROVE  /\ Part(q, ts, j) \o Messages(b) = Part(q, ts, j + Len(b) \div 2)
         /\ Rest(b) \o s = Pending(q, ts, j + Len(b) \div 2)
<1> DEFINE k == Len(b) \div 2
           m == Messages(b)
           p == Part(q, ts, j)
           r == Part(q, ts, j + k)
<1>1. /\ k \in Nat /\ j + k \in 0..Len(ts)
      /\ m \in Streams(n) /\ Len(m) = k
      /\ \A i \in 1..k : m[i] = Message(q, ts[i + j], i + j)
  BY MessagesInOrder
<1>2. p \in Streams(n) /\ r \in Streams(n)
  BY <1>1, PartTyped
<1>3. /\ Len(p) = j /\ Len(r) = j + k
      /\ \A i \in 1..j : p[i] = Message(q, ts[i], i)
      /\ \A i \in 1..(j + k) : r[i] = Message(q, ts[i], i)
  BY <1>1, PartHolds
<1> HIDE DEF k, m, p, r
<1>4. p \o m = r
  <2>1. p \in Seq(Pieces(n)) /\ m \in Seq(Pieces(n)) /\ r \in Seq(Pieces(n))
    BY <1>1, <1>2 DEF Streams
  <2>2. Len(r) = Len(p) + Len(m)
    BY <1>1, <1>3
  <2>3. \A i \in 1..Len(p) : r[i] = p[i]
    BY <1>1, <1>3
  <2>4. ASSUME NEW i \in 1..Len(m)
        PROVE  r[i + Len(p)] = m[i]
    <3>1. i \in 1..k /\ i + j \in 1..(j + k)
      BY <1>1
    <3>2. QED
      BY <1>1, <1>3, <3>1
  <2>5. QED
    BY <2>1, <2>2, <2>3, <2>4, JoinIs
<1>5. Rest(b) \o s = Pending(q, ts, j + k)
  <2> DEFINE a == Answers(q, ts)
  <2>1. a \in Seq(Pieces(n)) /\ Len(a) = 2 * Len(ts)
    BY AnswersHold
  <2>2. 2 * j \in 0..Len(a) /\ b \o s = Drop(a, 2 * j)
    BY <2>1 DEF Pending
  <2> HIDE DEF a
  <2>3. /\ Rest(b) \o s = Drop(Drop(a, 2 * j), 2 * k)
        /\ 2 * k \in 0..Len(Drop(a, 2 * j))
    <3>1. /\ Rest(b) \o s = Drop(b \o s, 2 * (Len(b) \div 2))
          /\ 2 * (Len(b) \div 2) \in 0..Len(b \o s)
      BY SentHolds DEF Streams
    <3>2. QED
      BY <2>2, <3>1 DEF k
  <2>4. Drop(Drop(a, 2 * j), 2 * k) = Drop(a, 2 * j + 2 * k)
    <3>1. Len(Drop(a, 2 * j)) = Len(a) - 2 * j
      BY <2>1, <2>2, DropHolds
    <3>2. 2 * k \in 0..(Len(a) - 2 * j)
      BY <2>3, <3>1
    <3>3. QED
      BY <2>1, <2>2, <3>2, DropTwice
  <2>5. 2 * j + 2 * k = 2 * (j + k)
    BY <1>1
  <2>6. QED
    BY <2>3, <2>4, <2>5 DEF a, Pending
<1>6. QED
  BY <1>4, <1>5 DEF k, m, p, r

\* Nothing more is on its way exactly when the whole answer has arrived, and what
\* comes next is one half or the other of the next message.
ComesNext(q, ts, j, b, s) ==
  LET k == Len(b) \div 2
  IN  /\ s = <<>> => j + k = Len(ts) /\ Rest(b) = <<>>
      /\ s # <<>> => /\ j + k + 1 \in 1..Len(ts)
                     /\ s[1].q = q /\ s[1].t = ts[j + k + 1] /\ s[1].i = j + k + 1
                     /\ s[1].half = IF Rest(b) = <<>> THEN 1 ELSE 2

LEMMA WhatComesNext ==
  ASSUME NEW n \in Nat, NEW q \in 0..n, NEW ts \in Seq(Types), NEW j \in 0..Len(ts),
         NEW b \in Streams(n), NEW s \in Streams(n), b \o s = Pending(q, ts, j)
  PROVE  ComesNext(q, ts, j, b, s)
<1> DEFINE k == Len(b) \div 2
<1>1. /\ Len(b) \in Nat /\ Len(s) \in Nat
      /\ Len(b) + Len(s) = 2 * Len(ts) - 2 * j
      /\ \A i \in 1..Len(s) : s[i] = Answers(q, ts)[(i + Len(b)) + 2 * j]
  BY ArrivesInOrder
<1>2. k \in Nat /\ j \in Nat /\ Len(ts) \in Nat
  BY <1>1
<1>3. Rest(b) \in Seq(Pieces(n)) /\ Len(Rest(b)) = Len(b) % 2
  BY RestHolds DEF Streams
<1>4. Rest(b) = <<>> <=> Len(b) % 2 = 0
  BY <1>3, EmptySeq
<1>5. CASE s = <<>>
  <2>1. Len(s) = 0
    BY <1>5
  <2>2. QED
    BY <1>1, <1>2, <1>4, <1>5, <2>1 DEF ComesNext
<1>6. CASE s # <<>>
  <2> DEFINE x == (1 + Len(b)) + 2 * j
  <2>1. Len(s) > 0
    BY <1>1, <1>6, EmptySeq DEF Streams
  <2>2. s[1] = Answers(q, ts)[x]
    BY <1>1, <2>1
  <2>0. \A l, m, i, t \in Nat : l + m = 2 * t - 2 * i /\ m > 0 =>
          /\ (1 + l) + 2 * i \in 1..(2 * t)
          /\ ((1 + l) + 2 * i + 1) \div 2 = i + (l \div 2) + 1
          /\ i + (l \div 2) + 1 \in 1..t
          /\ l % 2 = 0 <=> ((1 + l) + 2 * i) % 2 = 1
    OBVIOUS
  <2> DEFINE y == j + k + 1
             l == Len(b)
             m == Len(s)
             t == Len(ts)
  <2>3. l \in Nat /\ m \in Nat /\ t \in Nat /\ j \in Nat /\ l + m = 2 * t - 2 * j /\ m > 0
    BY <1>1, <1>2, <2>1
  <2>4. x = (1 + l) + 2 * j /\ y = j + (l \div 2) + 1
    OBVIOUS
  <2> HIDE DEF x, y, l, m, t
  <2>5. x \in 1..(2 * t) /\ (x + 1) \div 2 = y /\ y \in 1..t /\ (l % 2 = 0 <=> x % 2 = 1)
    BY <2>0, <2>3, <2>4
  <2>6. x \in 1..(2 * Len(ts))
    BY <2>5 DEF t
  <2>7. /\ s[1].q = q /\ s[1].t = ts[(x + 1) \div 2] /\ s[1].i = (x + 1) \div 2
        /\ s[1].half = IF x % 2 = 1 THEN 1 ELSE 2
    BY <2>2, <2>6, AnswersHold, SMTT(30)
  <2>8. QED
    BY <1>4, <1>6, <2>5, <2>7 DEF y, l, t, ComesNext
<1>7. QED
  BY <1>5, <1>6

\* All of this in one: what has arrived of an answer, when j messages had been
\* read, and what is on its way.
Arrives(q, ts, j, b, s) ==
  LET k == Len(b) \div 2
  IN  /\ k \in Nat /\ j + k \in 0..Len(ts) /\ Len(b) \in Nat
      /\ InStep(b)
      /\ Len(Messages(b)) = k
      /\ \A i \in 1..k : Messages(b)[i] = Message(q, ts[i + j], i + j)
      /\ Part(q, ts, j) \o Messages(b) = Part(q, ts, j + k)
      /\ Rest(b) \o s = Pending(q, ts, j + k)
      /\ ComesNext(q, ts, j, b, s)

LEMMA AnswerArrives ==
  ASSUME NEW n \in Nat, NEW q \in 0..n, NEW ts \in Seq(Types), NEW j \in 0..Len(ts),
         NEW b \in Streams(n), NEW s \in Streams(n), b \o s = Pending(q, ts, j)
  PROVE  Arrives(q, ts, j, b, s)
<1>1. LET k == Len(b) \div 2
      IN  /\ k \in Nat /\ j + k \in 0..Len(ts) /\ Len(Messages(b)) = k
          /\ \A i \in 1..k : Messages(b)[i] = Message(q, ts[i + j], i + j)
  BY MessagesInOrder
<1>2. InStep(b) /\ Len(b) \in Nat
  BY ArrivesInOrder
<1>3. /\ Part(q, ts, j) \o Messages(b) = Part(q, ts, j + Len(b) \div 2)
      /\ Rest(b) \o s = Pending(q, ts, j + Len(b) \div 2)
  BY ReadsOn
<1>4. ComesNext(q, ts, j, b, s)
  BY WhatComesNext
<1>5. QED
  BY <1>1, <1>2, <1>3, <1>4, Zenon DEF Arrives

-----------------------------------------------------------------------------
(* What a suspended call has read of its answer                             *)

\* Some of the messages of an answer have been read, but not the last one.
Partly(c, w, ts) ==
  \E j \in 0..(Len(ts) - 1) : c.got = Part(c.q, ts, j) /\ w = Pending(c.q, ts, j)

\* Nothing of the answer has been read.
Fresh(c, w, ts) == c.got = <<>> /\ w = Answers(c.q, ts)

\* PostgreSQL.  connect() reads the greeting, or the verdict on its password, or has
\* passed over a request that it does not know; a query collects messages up to
\* ReadyForQuery.
PGOwn(c, w) ==
  IF c.step = "auth"
  THEN /\ c.q = 0 /\ c.kind \in PG!Auths /\ c.got = <<>>
       /\ \/ Fresh(c, w, PG!Greeting(c.kind)) \/ Fresh(c, w, PG!Verdict(c.kind))
          \/ c.kind = "sasl" /\ w = <<>>
  ELSE c.kind \in PG!Kinds /\ Partly(c, w, PG!Answer(c.kind, c.bound))

\* MySQL.  Only prepare() collects packets; the other methods wait for their answer
\* and take all of it.
MySQLOwn(c, w) ==
  \/ c.step = "handshake" /\ c.q = 0 /\ Fresh(c, w, MySQL!Greeting(c.kind))
  \/ c.step = "auth" /\ c.q = 0 /\ Fresh(c, w, MySQL!Verdict(c.kind))
  \/ /\ c.step = "prepare" /\ c.bound /\ c.kind \in MySQL!Kinds \ {"blank"}
     /\ Partly(c, w, MySQL!Prepared(c.kind))
  \/ /\ c.step = "query" /\ ~c.bound /\ c.kind \in MySQL!Kinds
     /\ Fresh(c, w, MySQL!Answer(c.kind))
  \/ /\ c.step = "execute" /\ c.bound /\ c.kind \in MySQL!Kinds \ {"blank"}
     /\ Fresh(c, w, MySQL!Answer(c.kind))

\* Redis.  A reply is read at once; a pipeline reads two of the same kind.
RedisOwn(c, w) ==
  /\ w = Answers(c.q, Redis!Reply(c.kind))
  /\ c.bound => c.kind \in {"rows", "fails"}
  /\ \/ c.step = "first" /\ c.got = <<>> /\ (c.q > 0 => c.bound)
     \/ /\ c.step = "last"
        /\ c.q > 0 => c.got = IF c.bound
                              THEN Part(c.q, Redis!Reply(c.kind), Len(Redis!Reply(c.kind)))
                              ELSE <<>>

\* MongoDB.  The reply to each of the two calls of SCRAM, or to the command; the
\* server knows of no transaction that could be ended.
Due(c) ==
  CASE c.step = "saslStart" -> Mongo!Reply("done")
    [] c.step = "saslContinue" -> Mongo!Reply(IF c.kind = "denied" THEN "fails" ELSE "done")
    [] OTHER -> Mongo!Reply(IF c.kind \in {"commitTransaction", "abortTransaction"}
                            THEN "fails" ELSE c.kind)
MongoOwn(c, w) ==
  /\ c.step \in {"saslStart", "saslContinue"} => c.q = 0
  /\ Partly(c, w, Due(c))

Own(p, c, w) ==
  CASE p = "pg" -> PGOwn(c, w)
    [] p = "mysql" -> MySQLOwn(c, w)
    [] p = "redis" -> RedisOwn(c, w)
    [] OTHER -> MongoOwn(c, w)

\* As long as the readers could bear every cut, what has been sent and not read is
\* what the suspended call still needs, and nothing when there is none.
Owed ==
  whole =>
    /\ ~lost
    /\ socket = "up" /\ state = "ready" /\ call = NoCall => buffer \o net = <<>>
    /\ socket = "up" /\ call # NoCall => Own(protocol, call, buffer \o net)

\* What OwnAnswers says of call i, which asked for a and has ended with o.
ExpectedOf(p, a) ==
  CASE p = "pg" -> PG!Expected(a.kind, a.bound)
    [] p = "mysql" -> MySQL!Expected(a.kind, a.bound)
    [] p = "redis" -> Redis!Expected(a.kind, a.bound)
    [] OTHER -> Mongo!Expected(a.kind, a.bound)
Answered(p, i, a, o) ==
  \/ o.status \in {"closed", "queued"}
  \/ /\ o.of \subseteq {i}
     /\ a.kind \notin Misread[p] =>
          [status |-> o.status, rows |-> o.rows] = ExpectedOf(p, a)

\* The inductive invariant, on top of the one that keeps the readers in step.
AnswersInv == SessionInv /\ Owed /\ OwnAnswers

\* A turn that leaves the call its own answer, with sent still on its way.
KeepsOwn(p, c, t, sent) ==
  /\ t.lost = FALSE
  /\ \/ t.ends = <<>> /\ t.call # NoCall /\ Own(p, t.call, t.rest \o (sent \o t.more))
     \/ \E o : /\ t.ends = <<o>> /\ t.call = NoCall
               /\ (c.q = 0 /\ o.status # "result") \/ t.rest \o (sent \o t.more) = <<>>
               /\ c.q > 0 => Answered(p, c.q, [kind |-> c.kind, bound |-> c.bound], o)

LEMMA AnsweredAlways ==
  OwnAnswers <=> (whole => \A i \in DOMAIN told : Answered(protocol, i, asked[i], told[i]))
BY DEF OwnAnswers, Answered, Expected, ExpectedOf

\* What was told stays true, and one more call is told of at a time.
LEMMA ToldOn ==
  ASSUME OwnAnswers, whole' => whole, protocol' = protocol,
         \A i \in DOMAIN told' :
           \/ i \in DOMAIN told /\ told'[i] = told[i] /\ asked'[i] = asked[i]
           \/ whole' => Answered(protocol, i, asked'[i], told'[i])
  PROVE  OwnAnswers'
<1>1. whole => \A i \in DOMAIN told : Answered(protocol, i, asked[i], told[i])
  BY AnsweredAlways
<1>2. whole' => \A i \in DOMAIN told' : Answered(protocol, i, asked'[i], told'[i])
  BY <1>1
<1>3. whole' => \A i \in DOMAIN told' : Answered(protocol', i, asked'[i], told'[i])
  BY <1>2
<1>4. QED
  BY <1>3 DEF OwnAnswers, Answered, Expected, ExpectedOf

\* A call that is refused or put aside is told so, and that is true of it.
LEMMA FailedIsAnswered ==
  ASSUME NEW p, NEW i, NEW a, NEW status \in {"closed", "queued"}
  PROVE  Answered(p, i, a, Fails(status))
BY DEF Answered, Fails, Outcome

LEMMA OneMoreTold ==
  ASSUME OwnAnswers, whole' => whole, protocol' = protocol, NEW S, told \in Seq(S),
         \A i \in DOMAIN told : asked'[i] = asked[i],
         NEW status \in {"closed", "queued"}, told' = Append(told, Fails(status))
  PROVE  OwnAnswers'
<1> DEFINE o == Fails(status)
<1>1. \A i : Answered(protocol, i, asked'[i], o)
  BY FailedIsAnswered
<1>2. told' = Append(told, o)
  OBVIOUS
<1> HIDE DEF o
<1>3. \A i \in DOMAIN told' : (i \in DOMAIN told /\ told'[i] = told[i]) \/ told'[i] = o
  BY <1>2
<1>4. \A i \in DOMAIN told' :
        \/ i \in DOMAIN told /\ told'[i] = told[i] /\ asked'[i] = asked[i]
        \/ whole' => Answered(protocol, i, asked'[i], told'[i])
  BY <1>1, <1>3
<1>5. QED
  BY <1>4, ToldOn

-----------------------------------------------------------------------------
(* The operations that the four classes share                               *)

\* The turn of a method.
LEMMA TurnOwn ==
  ASSUME OwnAnswers, whole, ~lost, protocol' = protocol,
         NEW S, told \in Seq(S), NEW c, NEW turn, NEW sent,
         \A i \in DOMAIN told : asked'[i] = asked[i],
         c.q > 0 => /\ c.q = Len(told) + 1
                    /\ asked'[c.q] = [kind |-> c.kind, bound |-> c.bound],
         KeepsOwn(protocol, c, turn, sent), Turns(c, turn, sent)
  PROVE  Owed' /\ OwnAnswers'
<1>1. /\ call' = turn.call /\ buffer' = turn.rest /\ net' = sent \o turn.more
      /\ lost' = (lost \/ turn.lost)
      /\ state' = IF c.q > 0 \/ turn.ends = <<>> THEN state
                  ELSE IF turn.ends[1].status = "result" THEN "ready" ELSE "refused"
      /\ told' = IF c.q > 0 THEN told \o turn.ends ELSE told
  BY DEF Turns
<1>2. ~lost'
  BY <1>1 DEF KeepsOwn
<1>3. CASE /\ turn.ends = <<>> /\ turn.call # NoCall
           /\ Own(protocol, turn.call, turn.rest \o (sent \o turn.more))
  <2>1. told' = told
    <3>1. told \o <<>> = told
      BY ConcatEmptySeq
    <3>2. QED
      BY <1>1, <1>3, <3>1
  <2>2. Owed'
    BY <1>1, <1>2, <1>3 DEF Owed
  <2>3. OwnAnswers'
    BY <2>1, ToldOn
  <2>4. QED
    BY <2>2, <2>3
<1>4. ASSUME NEW o, turn.ends = <<o>>, turn.call = NoCall,
             \/ c.q = 0 /\ o.status # "result"
             \/ turn.rest \o (sent \o turn.more) = <<>>,
             c.q > 0 => Answered(protocol, c.q, [kind |-> c.kind, bound |-> c.bound], o)
      PROVE  Owed' /\ OwnAnswers'
  <2>1. Owed'
    <3>1. CASE buffer' \o net' = <<>>
      BY <1>1, <1>2, <1>4, <3>1 DEF Owed
    <3>2. CASE c.q = 0 /\ o.status # "result"
      <4>1. ~(c.q > 0) /\ turn.ends # <<>> /\ turn.ends[1].status # "result"
        BY <1>4, <3>2
      <4>2. state' = "refused"
        BY <1>1, <4>1
      <4>3. QED
        BY <1>1, <1>2, <1>4, <4>2 DEF Owed
    <3>3. QED
      BY <1>1, <1>4, <3>1, <3>2
  <2>2. CASE c.q > 0
    <3>1. told' = told \o <<o>>
      BY <1>1, <1>4, <2>2
    <3>2. /\ DOMAIN told' = 1..c.q /\ DOMAIN told = 1..(c.q - 1)
          /\ \A i \in 1..(c.q - 1) : told'[i] = told[i]
          /\ told'[c.q] = o
      BY <2>2, <3>1
    <3>3. Answered(protocol, c.q, asked'[c.q], told'[c.q])
      BY <1>4, <2>2, <3>2
    <3>4. \A i \in DOMAIN told' :
            \/ i \in DOMAIN told /\ told'[i] = told[i] /\ asked'[i] = asked[i]
            \/ whole' => Answered(protocol, i, asked'[i], told'[i])
      BY <2>2, <3>2, <3>3
    <3>5. OwnAnswers'
      BY <3>4, ToldOn
    <3>6. QED
      BY <2>1, <3>5
  <2>3. CASE ~(c.q > 0)
    <3>1. told' = told
      BY <1>1, <2>3
    <3>2. OwnAnswers'
      BY <3>1, ToldOn
    <3>3. QED
      BY <2>1, <3>2
  <2>4. QED
    BY <2>2, <2>3
<1>5. QED
  BY <1>3, <1>4 DEF KeepsOwn

\* The data callback.
LEMMA ReceivesOwn ==
  ASSUME SessionInv, Owed, OwnAnswers, NEW n \in 1..Len(net), NEW turn, NEW torn \in BOOLEAN,
         whole /\ call # NoCall /\ ~torn => KeepsOwn(protocol, call, turn, Drop(net, n)),
         Receives(n, turn, torn), protocol' = protocol
  PROVE  Owed' /\ OwnAnswers'
<1>1. /\ whole' = (whole /\ ~torn) /\ asked' = asked /\ socket' = socket /\ socket = "up"
      /\ whole \in BOOLEAN /\ lost \in BOOLEAN
  BY DEF Receives, SessionInv, Session, FieldTypes
<1>2. /\ Len(asked) \in Nat /\ buffer \in Streams(Len(asked)) /\ net \in Streams(Len(asked))
      /\ told \in Seq(Outcomes(Len(asked))) /\ n \in 0..Len(net)
  BY DEF SessionInv, Session, FieldTypes
<1>3. CASE ~whole'
  <2>1. Owed'
    BY <1>3 DEF Owed
  <2>2. OwnAnswers'
    BY <1>3 DEF OwnAnswers
  <2>3. QED
    BY <2>1, <2>2
<1>4. CASE whole' /\ call = NoCall
  <2>1. whole /\ ~lost
    BY <1>1, <1>4 DEF Owed
  <2>2. /\ buffer' = Arrived(n) /\ net' = Drop(net, n)
        /\ UNCHANGED <<state, call, told, lost>>
    BY <1>4 DEF Receives
  <2>3. buffer' \o net' = buffer \o net
    <3>1. ChunkJoins(buffer, net, n)
      BY <1>2, ChunkTyped
    <3>2. QED
      BY <2>2, <3>1 DEF ChunkJoins, Arrived
  <2>4. Owed'
    BY <1>1, <1>4, <2>1, <2>2, <2>3 DEF Owed
  <2>5. OwnAnswers'
    BY <1>1, <2>2, ToldOn
  <2>6. QED
    BY <2>4, <2>5
<1>5. CASE whole' /\ call # NoCall
  <2>1. whole /\ ~torn /\ ~lost /\ KeepsOwn(protocol, call, turn, Drop(net, n))
    BY <1>1, <1>5 DEF Owed
  <2>2. Turns(call, turn, Drop(net, n))
    BY <1>5 DEF Receives
  <2>3. call.q > 0 => /\ call.q = Len(told) + 1
                      /\ asked'[call.q] = [kind |-> call.kind, bound |-> call.bound]
    <3>1. state \in {"new", "connecting", "ready", "refused"}
      BY DEF SessionInv, Session, FieldTypes
    <3>2. QED
      BY <1>1, <1>2, <1>5, <3>1 DEF SessionInv, Session, Suspended, ToldInOrder
  <2>4. QED
    BY <1>1, <1>2, <2>1, <2>2, <2>3, TurnOwn
<1>6. QED
  BY <1>3, <1>4, <1>5

\* The holder's next call.
LEMMA AsksOwn ==
  ASSUME SessionInv, Owed, OwnAnswers, NEW c, c.q = Len(asked) + 1,
         NEW answer, Answers(c.q, answer) \in Streams(Len(asked) + 1), NEW turn,
         whole /\ socket = "up" /\ buffer = <<>> =>
           KeepsOwn(protocol, c, turn, Answers(c.q, answer)),
         Asks(c, answer, turn), protocol' = protocol
  PROVE  Owed' /\ OwnAnswers'
<1>1. /\ state = "ready" /\ call = NoCall /\ (whole => ~lost)
      /\ asked' = Append(asked, [kind |-> c.kind, bound |-> c.bound])
      /\ whole' = whole /\ socket' = socket
  BY DEF Asks, Owed
<1>2. /\ Len(asked) \in Nat /\ buffer \in Streams(Len(asked)) /\ net \in Streams(Len(asked))
      /\ told \in Seq(Outcomes(Len(asked))) /\ asked \in Seq(Requested) /\ Len(told) = Len(asked)
  <2>1. NoCall.q = 0
    BY DEF NoCall, Call
  <2>2. QED
    BY <1>1, <2>1 DEF SessionInv, Session, FieldTypes, ToldInOrder
<1>3. /\ \A i \in DOMAIN told : asked'[i] = asked[i]
      /\ c.q = Len(told) + 1 /\ asked'[c.q] = [kind |-> c.kind, bound |-> c.bound]
  <2> DEFINE a == [kind |-> c.kind, bound |-> c.bound]
  <2>1. asked' = Append(asked, a)
    BY <1>1
  <2> HIDE DEF a
  <2>2. (\A i \in DOMAIN told : asked'[i] = asked[i]) /\ asked'[Len(asked) + 1] = a
    BY <1>2, <2>1
  <2>3. QED
    BY <1>2, <2>2 DEF a
<1>4. CASE ~whole
  BY <1>1, <1>4 DEF Owed, OwnAnswers
<1>5. CASE whole /\ socket = "up"
  <2> DEFINE sent == Answers(c.q, answer)
  <2>1. buffer \o net = <<>>
    BY <1>1, <1>5 DEF Owed
  <2>2. buffer = <<>> /\ net = <<>>
    <3>1. Len(buffer) = 0 /\ Len(net) = 0
      <4>1. Len(buffer \o net) = Len(buffer) + Len(net) /\ Len(buffer) \in Nat /\ Len(net) \in Nat
        BY <1>2, JoinHolds DEF Streams
      <4>2. Len(buffer \o net) = 0
        BY <2>1
      <4>3. QED
        BY <4>1, <4>2
    <3>2. QED
      BY <1>2, <3>1, EmptySeq DEF Streams
  <2>3. net \o sent = sent
    <3>1. <<>> \o sent = sent
      BY ConcatEmptySeq, Zenon DEF Streams
    <3>2. QED
      BY <2>2, <3>1
  <2>4. Turns(c, turn, sent)
    <3>1. Turns(c, turn, net \o Answers(c.q, answer))
      BY <1>1, <1>5 DEF Asks
    <3>2. QED
      BY <2>3, <3>1
  <2>5. KeepsOwn(protocol, c, turn, sent)
    BY <1>5, <2>2
  <2> HIDE DEF sent
  <2>6. QED
    BY <1>1, <1>2, <1>3, <1>5, <2>4, <2>5, TurnOwn
<1>6. CASE whole /\ socket # "up"
  <2>1. /\ told' = Append(told, Fails("closed"))
        /\ UNCHANGED <<state, net, buffer, call, lost>>
    BY <1>6 DEF Asks
  <2>2. Owed'
    BY <1>1, <1>6, <2>1 DEF Owed
  <2>3. OwnAnswers'
    BY <1>1, <1>2, <1>3, <2>1, OneMoreTold
  <2>4. QED
    BY <2>2, <2>3
<1>7. QED
  BY <1>4, <1>5, <1>6

\* A turn that ends the call, or lets it wait again.
LEMMA EndsOwn ==
  ASSUME NEW p, NEW c, NEW o, NEW rest, NEW S, NEW sent \in Seq(S),
         (c.q = 0 /\ o.status # "result") \/ rest \o sent = <<>>,
         c.q > 0 => Answered(p, c.q, [kind |-> c.kind, bound |-> c.bound], o)
  PROVE  KeepsOwn(p, c, Ends(o, rest), sent)
<1> DEFINE t == Ends(o, rest)
<1>1. t.lost = FALSE /\ t.ends = <<o>> /\ t.call = NoCall /\ t.rest = rest /\ t.more = <<>>
  BY DEF Ends
<1>2. sent \o <<>> = sent
  BY ConcatEmptySeq
<1> HIDE DEF t
<1>3. (c.q = 0 /\ o.status # "result") \/ t.rest \o (sent \o t.more) = <<>>
  BY <1>1, <1>2
<1>4. KeepsOwn(p, c, t, sent)
  BY <1>1, <1>3, Zenon DEF KeepsOwn
<1>5. QED
  BY <1>4 DEF t

LEMMA WaitsOwn ==
  ASSUME NEW p, NEW c, NEW d, NEW rest, NEW sent, NEW more,
         d # NoCall, Own(p, d, rest \o (sent \o more))
  PROVE  KeepsOwn(p, c, Waits(d, rest, more), sent)
BY DEF KeepsOwn, Waits

\* The methods find nothing but the answer to the suspended call.
LEMMA OfPart ==
  ASSUME NEW q, NEW ts, NEW j \in Nat, NEW status, NEW rows
  PROVE  /\ Outcome(status, rows, Part(q, ts, j)).status = status
         /\ Outcome(status, rows, Part(q, ts, j)).rows = rows
         /\ Outcome(status, rows, Part(q, ts, j)).of \subseteq {q}
<1>1. DOMAIN Part(q, ts, j) = 1..j /\ \A i \in 1..j : Part(q, ts, j)[i] = Message(q, ts[i], i)
  BY PartHolds
<1>2. \A i : Message(q, ts[i], i).q = q
  BY DEF Message
<1>3. QED
  BY <1>1, <1>2 DEF Outcome

\* connect().
LEMMA ConnectsOwn ==
  ASSUME SessionInv, Owed, OwnAnswers, NEW kind, NEW step, NEW greeting \in Streams(Len(asked)),
         Own(protocol, Call(0, kind, FALSE, step), greeting),
         Connects(kind, step, greeting), protocol' = protocol
  PROVE  Owed' /\ OwnAnswers'
<1>1. /\ state = "new" /\ state' = "connecting" /\ net' = greeting
      /\ call' = Call(0, kind, FALSE, step)
      /\ UNCHANGED <<buffer, asked, told, txn, whole, lost>>
  BY DEF Connects
<1>2. buffer' \o net' = greeting
  <2>1. buffer = <<>>
    BY <1>1 DEF SessionInv, Following
  <2>2. <<>> \o greeting = greeting
    BY ConcatEmptySeq DEF Streams
  <2>3. QED
    BY <1>1, <2>1, <2>2
<1>3. Owed'
  BY <1>1, <1>2 DEF Owed
<1>4. OwnAnswers'
  BY <1>1, ToldOn
<1>5. QED
  BY <1>3, <1>4

\* A connection that needs no authentication.
LEMMA ReadyOwn ==
  ASSUME SessionInv, Owed, OwnAnswers, state = "new", state' = "ready", protocol' = protocol,
         UNCHANGED <<net, buffer, call, asked, told, txn, whole, lost>>
  PROVE  Owed' /\ OwnAnswers'
<1>1. buffer = <<>> /\ net = <<>> /\ call = NoCall
  BY DEF SessionInv, Session, Suspended, Following
<1>2. <<>> \o <<>> = <<>>
  OBVIOUS
<1>3. buffer' \o net' = <<>> /\ call' = NoCall
  BY <1>1, <1>2
<1>4. Owed'
  BY <1>3 DEF Owed
<1>5. OwnAnswers'
  BY ToldOn
<1>6. QED
  BY <1>4, <1>5

\* error, close and close().
LEMMA RejectsOwn ==
  ASSUME SessionInv, Owed, OwnAnswers, NEW how \in {"failed", "gone"}, Rejects(how),
         protocol' = protocol
  PROVE  Owed' /\ OwnAnswers'
<1>1. /\ socket' = how
      /\ told' = IF call.q > 0 THEN Append(told, Fails("closed")) ELSE told
      /\ UNCHANGED <<net, buffer, asked, txn, whole, lost>>
  BY DEF Rejects
<1>2. Owed'
  BY <1>1 DEF Owed
<1>3. told \in Seq(Outcomes(Len(asked)))
  BY DEF SessionInv, Session, FieldTypes
<1>4. CASE call.q > 0
  <2>1. told' = Append(told, Fails("closed"))
    BY <1>1, <1>4
  <2>2. OwnAnswers'
    BY <1>1, <1>3, <2>1, OneMoreTold
  <2>3. QED
    BY <1>2, <2>2
<1>5. CASE ~(call.q > 0)
  <2>1. told' = told
    BY <1>1, <1>5
  <2>2. OwnAnswers'
    BY <1>1, <2>1, ToldOn
  <2>3. QED
    BY <1>2, <2>2
<1>6. QED
  BY <1>2, <1>4, <1>5

\* The next call, when the buffer is empty as it must be.
LEMMA NextCallIs ==
  ASSUME SessionInv, NEW kind \in CallKinds, NEW bound \in BOOLEAN, NEW step \in Steps \ {"none"}
  PROVE  LET n == Len(asked) + 1
             c == NextCall(kind, bound, step)
         IN  /\ n \in Nat /\ n > 0 /\ n \in 0..n /\ c \in Callers(n)
             /\ c.q = n /\ c.kind = kind /\ c.bound = bound /\ c.step = step /\ c.got = <<>>
             /\ c # NoCall
<1> DEFINE n == Len(asked) + 1
           c == NextCall(kind, bound, step)
<1>1. n \in Nat /\ n > 0 /\ n \in 0..n
  BY DEF SessionInv, Session, FieldTypes
<1>2. c = Call(n, kind, bound, step)
  BY DEF NextCall
<1>3. step \in Steps /\ step # "none"
  OBVIOUS
<1> HIDE DEF n, c
<1>4. /\ c \in Callers(n) /\ c.q = n /\ c.kind = kind /\ c.bound = bound /\ c.step = step
      /\ c.got = <<>> /\ c # NoCall
  BY <1>1, <1>2, <1>3, CallTyped
<1>5. QED
  BY <1>1, <1>4 DEF n, c

\* What a chunk leaves on its way begins with the piece after it.
LEMMA DropFirst ==
  ASSUME NEW n \in Nat, NEW s \in Streams(n), NEW k \in 1..Len(s), Drop(s, k) # <<>>
  PROVE  k < Len(s) /\ Drop(s, k)[1] = s[k + 1]
<1>1. k \in 0..Len(s) /\ k \in Nat /\ Len(s) \in Nat
  BY DEF Streams
<1>2. /\ Drop(s, k) \in Seq(Pieces(n)) /\ Len(Drop(s, k)) = Len(s) - k
      /\ \A i \in 1..(Len(s) - k) : Drop(s, k)[i] = s[i + k]
  BY <1>1, DropHolds DEF Streams
<1>3. Len(Drop(s, k)) # 0
  BY <1>2, EmptySeq
<1>4. 1 \in 1..(Len(s) - k) /\ 1 + k = k + 1 /\ k < Len(s)
  BY <1>1, <1>2, <1>3
<1>5. QED
  BY <1>2, <1>4

\* A call that waits takes its turn with its own answer.
LEMMA ChunkOwn ==
  ASSUME SessionInv, Owed, OwnAnswers, NEW n \in 1..Len(net), NEW turn, NEW torn \in BOOLEAN,
         ASSUME call # NoCall, Own(protocol, call, Arrived(n) \o Drop(net, n)),
                call.step # "none", Arrived(n) \in Streams(Len(asked)),
                Drop(net, n) \in Streams(Len(asked)), call \in Callers(Len(asked)),
                Len(asked) \in Nat,
                Drop(net, n) # <<>> => n < Len(net) /\ Drop(net, n)[1] = net[n + 1],
                ~torn
         PROVE  KeepsOwn(protocol, call, turn, Drop(net, n)),
         Receives(n, turn, torn), protocol' = protocol
  PROVE  Owed' /\ OwnAnswers'
<1>1. /\ Len(asked) \in Nat /\ buffer \in Streams(Len(asked)) /\ net \in Streams(Len(asked))
      /\ state \in {"new", "connecting", "ready", "refused"} /\ call \in Callers(Len(asked))
  BY DEF SessionInv, Session, FieldTypes
<1>2. /\ Arrived(n) \in Streams(Len(asked)) /\ Drop(net, n) \in Streams(Len(asked))
      /\ Arrived(n) \o Drop(net, n) = buffer \o net
  <2>1. n \in 0..Len(net)
    OBVIOUS
  <2>2. /\ buffer \o SubSeq(net, 1, n) \in Streams(Len(asked))
        /\ Drop(net, n) \in Streams(Len(asked))
        /\ ChunkJoins(buffer, net, n)
    BY <1>1, <2>1, ChunkTyped
  <2>3. Arrived(n) = buffer \o SubSeq(net, 1, n)
    BY DEF Arrived
  <2>4. Arrived(n) \o Drop(net, n) = buffer \o net
    BY <2>2, <2>3 DEF ChunkJoins
  <2>5. QED
    BY <2>2, <2>3, <2>4
<1>3. Drop(net, n) # <<>> => n < Len(net) /\ Drop(net, n)[1] = net[n + 1]
  BY <1>1, DropFirst
<1>4. ASSUME whole /\ call # NoCall /\ ~torn
      PROVE  KeepsOwn(protocol, call, turn, Drop(net, n))
  <2>1. call.step # "none" /\ socket = "up"
    BY <1>4 DEF SessionInv, Session, Suspended, Receives
  <2>2. Own(protocol, call, buffer \o net)
    BY <1>4, <2>1 DEF Owed
  <2>3. QED
    BY <1>1, <1>2, <1>3, <1>4, <2>1, <2>2
<1>5. QED
  BY <1>4, ReceivesOwn

-----------------------------------------------------------------------------
(* PostgreSQL                                                               *)

Joined(S, a, b, r) ==
  /\ a \in Seq(S) /\ b \in Seq(S) /\ r \in Seq(S)
  /\ Len(r) = Len(a) + Len(b)
  /\ \A i \in 1..Len(a) : r[i] = a[i]
  /\ \A i \in 1..Len(b) : r[i + Len(a)] = b[i]

LEMMA JoinedIs == \A S, a, b, r : Joined(S, a, b, r) => a \o b = r
BY JoinIs DEF Joined

\* An answer is put together from pieces that are written out.
LEMMA OneAndOne == \A a, b : <<a>> \o <<b>> = <<a, b>>
<1>1. ASSUME NEW a, NEW b
      PROVE  <<a>> \o <<b>> = <<a, b>>
  <2> DEFINE S == {a, b}
             w == <<a>> \o <<b>>
  <2>1. a \in S /\ b \in S
    OBVIOUS
  <2> HIDE DEF S
  <2>2. <<a>> \in Seq(S) /\ Len(<<a>>) = 1 /\ <<a>>[1] = a
    BY <2>1
  <2>3. w \in Seq(S) /\ Len(w) = 2 /\ w[1] = a /\ w[2] = b
    <3>1. /\ w \in Seq(S) /\ Len(w) = Len(<<a>>) + 1
          /\ \A i \in 1..Len(<<a>>) : w[i] = <<a>>[i]
          /\ w[Len(<<a>>) + 1] = b
      BY <2>1, <2>2, OneMoreHolds
    <3>2. QED
      BY <2>2, <3>1
  <2> HIDE DEF w
  <2>4. w = <<w[1], w[2]>>
    BY <2>3
  <2>5. QED
    BY <2>3, <2>4 DEF w
<1>2. QED
  BY <1>1

LEMMA TwoAndOne == \A a, b, c : <<a, b>> \o <<c>> = <<a, b, c>>
<1>1. ASSUME NEW a, NEW b, NEW c
      PROVE  Joined({a, b, c}, <<a, b>>, <<c>>, <<a, b, c>>)
  BY DEF Joined
<1>2. QED
  BY <1>1, JoinedIs, Zenon

LEMMA TwoAndTwo == \A a, b, c, d : <<a, b>> \o <<c, d>> = <<a, b, c, d>>
<1>1. ASSUME NEW a, NEW b, NEW c, NEW d
      PROVE  Joined({a, b, c, d}, <<a, b>>, <<c, d>>, <<a, b, c, d>>)
  BY DEF Joined
<1>2. QED
  BY <1>1, JoinedIs, Zenon

LEMMA TwoAndThree == \A a, b, c, d, e : <<a, b>> \o <<c, d, e>> = <<a, b, c, d, e>>
<1>1. ASSUME NEW a, NEW b, NEW c, NEW d, NEW e
      PROVE  Joined({a, b, c, d, e}, <<a, b>>, <<c, d, e>>, <<a, b, c, d, e>>)
  BY DEF Joined
<1>2. QED
  BY <1>1, JoinedIs, Zenon

LEMMA ThreeAndOne == \A a, b, c, d : <<a, b, c>> \o <<d>> = <<a, b, c, d>>
<1>1. ASSUME NEW a, NEW b, NEW c, NEW d
      PROVE  Joined({a, b, c, d}, <<a, b, c>>, <<d>>, <<a, b, c, d>>)
  BY DEF Joined
<1>2. QED
  BY <1>1, JoinedIs, Zenon

LEMMA FourAndOne == \A a, b, c, d, e : <<a, b, c, d>> \o <<e>> = <<a, b, c, d, e>>
<1>1. ASSUME NEW a, NEW b, NEW c, NEW d, NEW e
      PROVE  Joined({a, b, c, d, e}, <<a, b, c, d>>, <<e>>, <<a, b, c, d, e>>)
  BY DEF Joined
<1>2. QED
  BY <1>1, JoinedIs, Zenon

LEMMA FiveAndOne == \A a, b, c, d, e, f : <<a, b, c, d, e>> \o <<f>> = <<a, b, c, d, e, f>>
<1>1. ASSUME NEW a, NEW b, NEW c, NEW d, NEW e, NEW f
      PROVE  Joined({a, b, c, d, e, f}, <<a, b, c, d, e>>, <<f>>, <<a, b, c, d, e, f>>)
  BY DEF Joined
<1>2. QED
  BY <1>1, JoinedIs, Zenon

LEMMA FiveAndTwo == \A a, b, c, d, e, f, g : <<a, b, c, d, e>> \o <<f, g>> = <<a, b, c, d, e, f, g>>
<1>1. ASSUME NEW a, NEW b, NEW c, NEW d, NEW e, NEW f, NEW g
      PROVE  Joined({a, b, c, d, e, f, g}, <<a, b, c, d, e>>, <<f, g>>, <<a, b, c, d, e, f, g>>)
  BY DEF Joined
<1>2. QED
  BY <1>1, JoinedIs, Zenon

LEMMA SixAndOne == \A a, b, c, d, e, f, g : <<a, b, c, d, e, f>> \o <<g>> = <<a, b, c, d, e, f, g>>
<1>1. ASSUME NEW a, NEW b, NEW c, NEW d, NEW e, NEW f, NEW g
      PROVE  Joined({a, b, c, d, e, f, g}, <<a, b, c, d, e, f>>, <<g>>, <<a, b, c, d, e, f, g>>)
  BY DEF Joined
<1>2. QED
  BY <1>1, JoinedIs, Zenon

LEMMA SevenAndOne == \A a, b, c, d, e, f, g, h : <<a, b, c, d, e, f, g>> \o <<h>> = <<a, b, c, d, e, f, g, h>>
<1>1. ASSUME NEW a, NEW b, NEW c, NEW d, NEW e, NEW f, NEW g, NEW h
      PROVE  Joined({a, b, c, d, e, f, g, h}, <<a, b, c, d, e, f, g>>, <<h>>, <<a, b, c, d, e, f, g, h>>)
  BY DEF Joined
<1>2. QED
  BY <1>1, JoinedIs, ZenonT(60)

\* ReadyForQuery is the last message of an answer, and only that; the messages
\* before it tell the outcome.
PGTypes(kind, bound) ==
  CASE kind = "fails" -> <<"ErrorResponse", "ReadyForQuery">>
    [] kind = "done" /\ bound ->
         <<"ParseComplete", "ParameterDescription", "NoData", "BindComplete",
           "CommandComplete", "ReadyForQuery">>
    [] kind = "done" /\ ~bound -> <<"NoticeResponse", "CommandComplete", "ReadyForQuery">>
    [] kind = "rows" /\ bound ->
         <<"ParseComplete", "ParameterDescription", "RowDescription", "BindComplete",
           "DataRow", "DataRow", "CommandComplete", "ReadyForQuery">>
    [] kind = "rows" /\ ~bound ->
         <<"RowDescription", "DataRow", "DataRow", "CommandComplete", "ReadyForQuery">>
    [] kind = "breaks" /\ bound ->
         <<"ParseComplete", "ParameterDescription", "RowDescription", "BindComplete",
           "DataRow", "ErrorResponse", "ReadyForQuery">>
    [] OTHER -> <<"RowDescription", "DataRow", "ErrorResponse", "ReadyForQuery">>

LEMMA PGAnswerIs ==
  ASSUME NEW kind \in PG!Kinds, NEW bound \in BOOLEAN
  PROVE  PG!Answer(kind, bound) = PGTypes(kind, bound)
<1> DEFINE d == <<"ParseComplete", "ParameterDescription">>
           e == <<"NoData", "BindComplete", "CommandComplete">>
           f == <<"RowDescription", "BindComplete">>
           g == <<"RowDescription">>
           h == <<"DataRow">>
           i == <<"DataRow", "CommandComplete">>
           j == <<"ErrorResponse">>
           k == <<"NoticeResponse", "CommandComplete">>
           r == <<"ReadyForQuery">>
           a == PG!Answer(kind, bound)
           t == PGTypes(kind, bound)
<1>1. a = (CASE kind = "fails" -> j
             [] kind = "done" /\ bound -> d \o e
             [] kind = "done" /\ ~bound -> k
             [] OTHER -> ((IF bound THEN d \o f ELSE g) \o h)
                         \o (IF kind = "rows" THEN i ELSE j))
          \o r
  BY Zenon DEF PG!Answer, PG!Described
<1>2. /\ kind = "fails" => t = j \o r
      /\ kind = "done" /\ bound => t = (d \o e) \o r
      /\ kind = "done" /\ ~bound => t = k \o r
      /\ kind = "rows" /\ bound => t = (((d \o f) \o h) \o i) \o r
      /\ kind = "rows" /\ ~bound => t = ((g \o h) \o i) \o r
      /\ kind = "breaks" /\ bound => t = (((d \o f) \o h) \o j) \o r
      /\ kind = "breaks" /\ ~bound => t = ((g \o h) \o j) \o r
  <2>1. j \o r = <<"ErrorResponse", "ReadyForQuery">>
    BY OneAndOne, Zenon
  <2>2. d \o e = <<"ParseComplete", "ParameterDescription", "NoData", "BindComplete",
                   "CommandComplete">>
    BY TwoAndThree, Zenon
  <2>3. (d \o e) \o r = <<"ParseComplete", "ParameterDescription", "NoData",
                          "BindComplete", "CommandComplete", "ReadyForQuery">>
    <3>1. <<"ParseComplete", "ParameterDescription", "NoData", "BindComplete",
            "CommandComplete">> \o r =
            <<"ParseComplete", "ParameterDescription", "NoData", "BindComplete",
              "CommandComplete", "ReadyForQuery">>
      BY FiveAndOne, Zenon
    <3>2. QED
      BY <2>2, <3>1, Zenon
  <2>4. k \o r = <<"NoticeResponse", "CommandComplete", "ReadyForQuery">>
    BY TwoAndOne, Zenon
  <2>5. d \o f = <<"ParseComplete", "ParameterDescription", "RowDescription",
                   "BindComplete">>
    BY TwoAndTwo, Zenon
  <2>6. (d \o f) \o h = <<"ParseComplete", "ParameterDescription", "RowDescription",
                          "BindComplete", "DataRow">>
    <3>1. <<"ParseComplete", "ParameterDescription", "RowDescription", "BindComplete">> \o h =
            <<"ParseComplete", "ParameterDescription", "RowDescription", "BindComplete",
              "DataRow">>
      BY FourAndOne, Zenon
    <3>2. QED
      BY <2>5, <3>1, Zenon
  <2>7. ((d \o f) \o h) \o i = <<"ParseComplete", "ParameterDescription",
                                 "RowDescription", "BindComplete", "DataRow", "DataRow",
                                 "CommandComplete">>
    <3>1. <<"ParseComplete", "ParameterDescription", "RowDescription", "BindComplete",
            "DataRow">> \o i =
            <<"ParseComplete", "ParameterDescription", "RowDescription", "BindComplete",
              "DataRow", "DataRow", "CommandComplete">>
      BY FiveAndTwo
    <3>2. QED
      BY <2>6, <3>1, Zenon
  <2>8. (((d \o f) \o h) \o i) \o r = <<"ParseComplete", "ParameterDescription",
                                        "RowDescription", "BindComplete", "DataRow",
                                        "DataRow", "CommandComplete", "ReadyForQuery">>
    <3>1. <<"ParseComplete", "ParameterDescription", "RowDescription", "BindComplete",
            "DataRow", "DataRow", "CommandComplete">> \o r =
            <<"ParseComplete", "ParameterDescription", "RowDescription", "BindComplete",
              "DataRow", "DataRow", "CommandComplete", "ReadyForQuery">>
      BY SevenAndOne, ZenonT(60)
    <3>2. QED
      BY <2>7, <3>1, Zenon
  <2>9. g \o h = <<"RowDescription", "DataRow">>
    BY OneAndOne, Zenon
  <2>10. (g \o h) \o i = <<"RowDescription", "DataRow", "DataRow", "CommandComplete">>
    <3>1. <<"RowDescription", "DataRow">> \o i =
            <<"RowDescription", "DataRow", "DataRow", "CommandComplete">>
      BY TwoAndTwo, Zenon
    <3>2. QED
      BY <2>9, <3>1, Zenon
  <2>11. ((g \o h) \o i) \o r = <<"RowDescription", "DataRow", "DataRow",
                                  "CommandComplete", "ReadyForQuery">>
    <3>1. <<"RowDescription", "DataRow", "DataRow", "CommandComplete">> \o r =
            <<"RowDescription", "DataRow", "DataRow", "CommandComplete", "ReadyForQuery">>
      BY FourAndOne, Zenon
    <3>2. QED
      BY <2>10, <3>1, Zenon
  <2>12. ((d \o f) \o h) \o j = <<"ParseComplete", "ParameterDescription",
                                  "RowDescription", "BindComplete", "DataRow",
                                  "ErrorResponse">>
    <3>1. <<"ParseComplete", "ParameterDescription", "RowDescription", "BindComplete",
            "DataRow">> \o j =
            <<"ParseComplete", "ParameterDescription", "RowDescription", "BindComplete",
              "DataRow", "ErrorResponse">>
      BY FiveAndOne, Zenon
    <3>2. QED
      BY <2>6, <3>1, Zenon
  <2>13. (((d \o f) \o h) \o j) \o r = <<"ParseComplete", "ParameterDescription",
                                         "RowDescription", "BindComplete", "DataRow",
                                         "ErrorResponse", "ReadyForQuery">>
    <3>1. <<"ParseComplete", "ParameterDescription", "RowDescription", "BindComplete",
            "DataRow", "ErrorResponse">> \o r =
            <<"ParseComplete", "ParameterDescription", "RowDescription", "BindComplete",
              "DataRow", "ErrorResponse", "ReadyForQuery">>
      BY SixAndOne, Zenon
    <3>2. QED
      BY <2>12, <3>1, Zenon
  <2>14. (g \o h) \o j = <<"RowDescription", "DataRow", "ErrorResponse">>
    <3>1. <<"RowDescription", "DataRow">> \o j =
            <<"RowDescription", "DataRow", "ErrorResponse">>
      BY TwoAndOne, Zenon
    <3>2. QED
      BY <2>9, <3>1, Zenon
  <2>15. ((g \o h) \o j) \o r = <<"RowDescription", "DataRow", "ErrorResponse",
                                  "ReadyForQuery">>
    <3>1. <<"RowDescription", "DataRow", "ErrorResponse">> \o r =
            <<"RowDescription", "DataRow", "ErrorResponse", "ReadyForQuery">>
      BY ThreeAndOne, Zenon
    <3>2. QED
      BY <2>14, <3>1, Zenon
  <2> HIDE DEF d, e, f, g, h, i, j, k, r
  <2>16. QED
    BY <2>1, <2>3, <2>4, <2>8, <2>11, <2>13, <2>15 DEF PGTypes
<1> HIDE DEF d, e, f, g, h, i, j, k, r, a, t
<1>3. kind \in {"rows", "done", "fails", "breaks"}
  BY DEF PG!Kinds
<1>4. a = t
  BY <1>1, <1>2, <1>3
<1>5. QED
  BY <1>4 DEF a, t

\* Counting the messages of a type in a whole answer.
Places(ts, t) == {i \in 1..Len(ts) : ts[i] = t}

LEMMA CountsPlaces ==
  ASSUME NEW q, NEW ts \in Seq(Types), NEW t
  PROVE  /\ Count(Part(q, ts, Len(ts)), t) = Cardinality(Places(ts, t))
         /\ IsFiniteSet(Places(ts, t)) /\ Cardinality(Places(ts, t)) \in Nat
         /\ Cardinality(Places(ts, t)) > 0 <=> Places(ts, t) # {}
<1> DEFINE seen == Part(q, ts, Len(ts))
           places == Places(ts, t)
<1>1. Len(ts) \in Nat
  OBVIOUS
<1>2. DOMAIN seen = 1..Len(ts) /\ \A i \in 1..Len(ts) : seen[i].t = ts[i]
  <2>1. DOMAIN seen = 1..Len(ts) /\ \A i \in 1..Len(ts) : seen[i] = Message(q, ts[i], i)
    BY <1>1, PartHolds
  <2>2. \A i : Message(q, ts[i], i).t = ts[i]
    BY DEF Message
  <2> HIDE DEF seen
  <2>3. QED
    BY <2>1, <2>2
<1> HIDE DEF seen
<1>3. {i \in DOMAIN seen : seen[i].t = t} = places
  BY <1>2 DEF Places
<1>4. IsFiniteSet(1..Len(ts)) /\ places \subseteq 1..Len(ts)
  BY <1>1, FS_Interval DEF Places
<1>5. IsFiniteSet(places)
  BY <1>4, FS_Subset
<1> HIDE DEF places
<1>6. Cardinality(places) \in Nat /\ (Cardinality(places) = 0 <=> places = {})
  BY <1>5, FS_CardinalityType, FS_EmptySet
<1>7. Cardinality(places) > 0 <=> places # {}
  <2>1. \A m \in Nat : m > 0 <=> m # 0
    OBVIOUS
  <2>2. QED
    BY <1>6, <2>1
<1>8. Count(seen, t) = Cardinality(places)
  BY <1>3 DEF Count
<1>9. QED
  BY <1>5, <1>6, <1>7, <1>8 DEF seen, places

LEMMA TwoElements == \A a, b : a # b => Cardinality({a, b}) = 2
<1>1. ASSUME NEW a, NEW b, a # b
      PROVE  Cardinality({a, b}) = 2
  <2>1. IsFiniteSet({a}) /\ Cardinality({a}) = 1
    BY FS_Singleton
  <2>2. b \notin {a} /\ {a, b} = {a} \cup {b}
    BY <1>1
  <2>3. Cardinality({a} \cup {b}) = Cardinality({a}) + 1
    BY <2>1, <2>2, FS_AddElement
  <2>4. QED
    BY <2>1, <2>2, <2>3
<1>2. QED
  BY <1>1

LEMMA PGAnswerTells ==
  ASSUME NEW kind \in PG!Kinds, NEW bound \in BOOLEAN
  PROVE  LET ts == PG!Answer(kind, bound)
         IN  /\ ts \in Seq(Types) /\ ts # <<>>
             /\ \A i \in 1..Len(ts) : ts[i] = "ReadyForQuery" <=> i = Len(ts)
             /\ Places(ts, "ErrorResponse") # {} <=> kind \in {"fails", "breaks"}
             /\ kind = "rows" => Cardinality(Places(ts, "DataRow")) = 2
             /\ kind = "done" => Cardinality(Places(ts, "DataRow")) = 0
<1> DEFINE ts == PGTypes(kind, bound)
<1>1. PG!Answer(kind, bound) = ts
  BY PGAnswerIs
<1>2. ts \in Seq(Types) /\ ts # <<>>
  BY <1>1, PGAnswersEnd
<1>3. \A i \in 1..Len(ts) : ts[i] = "ReadyForQuery" <=> i = Len(ts)
  BY DEF PGTypes, PG!Kinds
<1>4. Places(ts, "ErrorResponse") # {} <=> kind \in {"fails", "breaks"}
  BY DEF PGTypes, PG!Kinds, Places
<1>5. kind = "rows" => Cardinality(Places(ts, "DataRow")) = 2
  <2>1. ASSUME kind = "rows"
        PROVE  Places(ts, "DataRow") = {5, 6} \/ Places(ts, "DataRow") = {2, 3}
    <3>1. CASE bound
      <4>1. \A i : i \in 1..8 /\ ts[i] = "DataRow" <=> i \in {5, 6}
        BY <2>1, <3>1 DEF PGTypes
      <4>2. Len(ts) = 8
        BY <2>1, <3>1 DEF PGTypes
      <4>3. Places(ts, "DataRow") = {5, 6}
        BY <4>1, <4>2 DEF Places
      <4>4. QED
        BY <4>3
    <3>2. CASE ~bound
      <4>1. \A i : i \in 1..5 /\ ts[i] = "DataRow" <=> i \in {2, 3}
        BY <2>1, <3>2 DEF PGTypes
      <4>2. Len(ts) = 5
        BY <2>1, <3>2 DEF PGTypes
      <4>3. Places(ts, "DataRow") = {2, 3}
        BY <4>1, <4>2 DEF Places
      <4>4. QED
        BY <4>3
    <3>3. QED
      BY <3>1, <3>2
  <2>2. 5 # 6 /\ 2 # 3
    OBVIOUS
  <2>3. Cardinality({5, 6}) = 2 /\ Cardinality({2, 3}) = 2
    BY <2>2, TwoElements, Zenon
  <2> HIDE DEF ts
  <2>4. QED
    BY <2>1, <2>3, Zenon
<1>6. kind = "done" => Cardinality(Places(ts, "DataRow")) = 0
  <2>1. ASSUME kind = "done"
        PROVE  Places(ts, "DataRow") = {}
    BY <2>1 DEF PGTypes, Places
  <2>2. QED
    BY <2>1, FS_EmptySet
<1> HIDE DEF ts
<1>7. QED
  BY <1>1, <1>2, <1>3, <1>4, <1>5, <1>6

LEMMA PGQueryOwn ==
  ASSUME NEW n \in Nat, NEW c \in Callers(n), NEW b \in Streams(n), NEW s \in Streams(n),
         PGOwn(c, b \o s), c.step # "auth", c.step # "none",
         s # <<>> => ~PG!Torn(s[1])
  PROVE  KeepsOwn("pg", c, PG!readMessages(c, b), s)
<1> DEFINE ts == PG!Answer(c.kind, c.bound)
           N == Len(ts)
           k == Len(b) \div 2
           ms == Messages(b)
           end == First(ms, {"ReadyForQuery"})
           read == IF end > 0 THEN SubSeq(ms, 1, end) ELSE ms
           seen == c.got \o read
           q == c.q
           o == IF Count(seen, "ErrorResponse") > 0 THEN Outcome("error", 0, seen)
                ELSE Outcome("result", Count(seen, "DataRow"), seen)
<1>1. q \in 0..n /\ c.kind \in PG!Kinds /\ c.bound \in BOOLEAN
  BY DEF PGOwn, Callers
<1>2. /\ ts \in Seq(Types) /\ ts # <<>> /\ N \in Nat
      /\ \A i \in 1..N : ts[i] = "ReadyForQuery" <=> i = N
      /\ Places(ts, "ErrorResponse") # {} <=> c.kind \in {"fails", "breaks"}
      /\ c.kind = "rows" => Cardinality(Places(ts, "DataRow")) = 2
      /\ c.kind = "done" => Cardinality(Places(ts, "DataRow")) = 0
  BY <1>1, PGAnswerTells
<1>3. PICK j \in 0..(N - 1) : c.got = Part(q, ts, j) /\ b \o s = Pending(q, ts, j)
  BY DEF PGOwn, Partly
<1> HIDE DEF ts, q
<1>4. j \in 0..Len(ts) /\ j \in Nat
  BY <1>2
<1>5. Arrives(q, ts, j, b, s)
  BY <1>1, <1>2, <1>3, <1>4, AnswerArrives, Zenon
<1>6. /\ k \in Nat /\ j + k \in 0..N /\ Len(ms) = k /\ InStep(b)
      /\ \A i \in 1..k : ms[i] = Message(q, ts[i + j], i + j)
      /\ c.got \o ms = Part(q, ts, j + k) /\ Rest(b) \o s = Pending(q, ts, j + k)
      /\ s = <<>> => j + k = N /\ Rest(b) = <<>>
      /\ s # <<>> => j + k + 1 \in 1..N /\ s[1].half = IF Rest(b) = <<>> THEN 1 ELSE 2
  BY <1>3, <1>5, Zenon DEF Arrives, ComesNext
<1>7. ms \in Seq(Pieces(n))
  BY MessagesHold DEF Streams
<1>9. PG!readMessages(c, b) =
        IF ~InStep(b) THEN Astray(c)
        ELSE IF end > 0 THEN Ends(o, <<>>)
        ELSE IF Rest(b) # <<>> THEN Ends(Fails("timeout"), Rest(b))
        ELSE Waits([c EXCEPT !.got = seen], <<>>, <<>>)
  BY PGReads
<1>10. /\ end \in 0..k
       /\ end = 0 => \A i \in 1..k : ts[i + j] # "ReadyForQuery"
       /\ end > 0 => end + j = N
  <2>1. /\ end \in 0..Len(ms)
        /\ end = 0 => \A i \in 1..Len(ms) : ms[i].t \notin {"ReadyForQuery"}
        /\ end > 0 => ms[end].t \in {"ReadyForQuery"}
    BY <1>7, FirstHolds
  <2> HIDE DEF end, ms, k
  <2>2. \A i \in 1..k : ms[i].t = ts[i + j]
    <3>1. TAKE i \in 1..k
    <3>2. ms[i] = Message(q, ts[i + j], i + j)
      BY <1>6
    <3>3. Message(q, ts[i + j], i + j).t = ts[i + j]
      BY DEF Message
    <3>4. QED
      BY <3>2, <3>3
  <2>3. end > 0 => end \in 1..k /\ end + j \in 1..N
    BY <1>2, <1>4, <1>6, <2>1
  <2>4. QED
    BY <1>2, <1>6, <2>1, <2>2, <2>3
<1> HIDE DEF N, k, ms, end, seen, read, o
<1>11. CASE s = <<>>
  <2>1. k \in 1..k /\ k + j = N /\ N \in 1..N
    BY <1>2, <1>3, <1>6, <1>11
  <2>2. end > 0 /\ end = k
    <3>1. end # 0
      BY <1>2, <1>10, <2>1
    <3>2. QED
      BY <1>6, <1>10, <2>1, <3>1
  <2>3. read = ms
    <3>1. SubSeq(ms, 1, Len(ms)) = ms
      BY <1>7
    <3>2. QED
      BY <1>6, <2>2, <3>1 DEF read
  <2>4. seen = Part(q, ts, N)
    <3>1. j + k = N
      BY <1>6, <1>11
    <3>2. QED
      BY <1>6, <2>3, <3>1, Zenon DEF seen
  <2>5. PG!readMessages(c, b) = Ends(o, <<>>)
    BY <1>6, <1>9, <2>2
  <2>6. /\ Count(seen, "ErrorResponse") = Cardinality(Places(ts, "ErrorResponse"))
        /\ Count(seen, "DataRow") = Cardinality(Places(ts, "DataRow"))
        /\ Cardinality(Places(ts, "ErrorResponse")) > 0 <=> Places(ts, "ErrorResponse") # {}
    BY <1>2, <2>4, CountsPlaces DEF N
  <2>7. /\ c.kind \in {"fails", "breaks"} => o = Outcome("error", 0, seen)
        /\ c.kind = "rows" => o = Outcome("result", 2, seen)
        /\ c.kind = "done" => o = Outcome("result", 0, seen)
    BY <1>2, <2>6 DEF o
  <2>8. \A status, rows :
          /\ Outcome(status, rows, seen).status = status
          /\ Outcome(status, rows, seen).rows = rows
          /\ Outcome(status, rows, seen).of \subseteq {q}
    BY <1>2, <2>4, OfPart
  <2>9. /\ o.of \subseteq {q}
        /\ [status |-> o.status, rows |-> o.rows] = PG!Expected(c.kind, c.bound)
    BY <1>1, <2>7, <2>8 DEF PG!Expected, PG!Kinds
  <2>10. Answered("pg", c.q, [kind |-> c.kind, bound |-> c.bound], o)
    BY <2>9 DEF Answered, ExpectedOf, q
  <2>11. <<>> \o s = <<>> /\ s \in Seq(Pieces(n))
    BY <1>11 DEF Streams
  <2>12. QED
    BY <2>5, <2>10, <2>11, EndsOwn
<1>12. CASE s # <<>>
  <2>1. Rest(b) = <<>> /\ j + k + 1 \in 1..N
    BY <1>6, <1>12 DEF PG!Torn
  <2>2. ~(end > 0) /\ end = 0
    BY <1>2, <1>4, <1>6, <1>10, <2>1
  <2>3. seen = Part(q, ts, j + k)
    BY <1>6, <2>2 DEF seen, read
  <2> DEFINE d == [c EXCEPT !.got = seen]
  <2>4. PG!readMessages(c, b) = Waits(d, <<>>, <<>>)
    BY <1>6, <1>9, <2>1, <2>2
  <2>5. /\ d.q = c.q /\ d.kind = c.kind /\ d.bound = c.bound /\ d.step = c.step
        /\ d.got = seen
    BY DEF Callers
  <2> HIDE DEF d
  <2>6. <<>> \o (s \o <<>>) = Pending(q, ts, j + k)
    <3>1. s \o <<>> = s
      BY ConcatEmptySeq DEF Streams
    <3>2. QED
      BY <1>6, <2>1, <3>1
  <2>7. j + k \in 0..(N - 1)
    BY <1>2, <1>4, <1>6, <2>1
  <2>8. Partly(d, <<>> \o (s \o <<>>), ts)
    BY <2>3, <2>5, <2>6, <2>7, Zenon DEF Partly, N, q
  <2>9. PGOwn(d, <<>> \o (s \o <<>>))
    BY <1>1, <2>5, <2>8 DEF PGOwn, ts
  <2>10. Own("pg", d, <<>> \o (s \o <<>>)) /\ d # NoCall
    BY <2>5, <2>9 DEF Own, NoCall, Call
  <2>11. QED
    BY <2>4, <2>10, WaitsOwn
<1>13. QED
  BY <1>11, <1>12

LEMMA PGVerdictTyped ==
  ASSUME NEW auth \in PG!Auths
  PROVE  PG!Verdict(auth) \in Seq(Types) /\ PG!Greeting(auth) \in Seq(Types)
<1>1. {"AuthenticationOk", "ParameterStatus", "ReadyForQuery", "AuthenticationMD5Password",
       "AuthenticationSASL", "ErrorResponse"} \subseteq Types
  BY Zenon DEF Types
<1> HIDE DEF Types
<1>2. QED
  BY <1>1 DEF PG!Verdict, PG!Greeting, PG!Ready

\* connect() waits on when there is nothing to read.
LEMMA PGSilentOwn ==
  ASSUME NEW n \in Nat, NEW c \in Callers(n), NEW b \in Streams(n), NEW s \in Streams(n),
         PGOwn(c, b \o s), c.step = "auth", b \o s = <<>>
  PROVE  KeepsOwn("pg", c, PG!performAuth(c, b), s)
<1> DEFINE ms == Messages(b)
           asks == First(ms, {"AuthenticationMD5Password"})
           ends == First(ms, {"AuthenticationOk", "ReadyForQuery", "ErrorResponse"})
           o == IF ms[ends].t = "ErrorResponse" THEN Fails("error") ELSE Outcome("result", 0, ms)
           more == IF asks > 0 THEN Answers(0, PG!Verdict(c.kind)) ELSE <<>>
           kept == IF Rest(b) = <<>> THEN c.got ELSE Rest(b)
           d == [c EXCEPT !.got = kept]
<1>1. b = <<>> /\ s = <<>> /\ Len(b) = 0
  <2>1. Len(b \o s) = Len(b) + Len(s) /\ Len(b) \in Nat /\ Len(s) \in Nat
    BY JoinHolds DEF Streams
  <2>2. Len(b) = 0 /\ Len(s) = 0
    BY <2>1
  <2>3. QED
    BY <2>2, EmptySeq DEF Streams
<1>2. InStep(b) /\ Rest(b) = <<>>
  BY <1>1 DEF InStep, Rest
<1>3. asks = 0 /\ ends = 0
  <2>1. ms \in Seq(Pieces(n)) /\ Len(ms) = 0
    <3>1. b \in Seq(Pieces(n)) /\ 0 \div 2 = 0
      BY DEF Streams
    <3>2. Messages(b) \in Seq(Pieces(n)) /\ Len(Messages(b)) = Len(b) \div 2
      BY <3>1, MessagesHold, Zenon
    <3>3. QED
      BY <1>1, <3>1, <3>2
  <2> HIDE DEF ms
  <2>2. asks \in 0..Len(ms) /\ ends \in 0..Len(ms)
    BY <2>1, FirstHolds
  <2>3. QED
    BY <2>1, <2>2
<1>4. c.got = <<>> /\ c.got \o b = b
  <2>1. c.got = <<>>
    BY DEF PGOwn
  <2>2. QED
    BY <1>1, <2>1, ConcatEmptySeq DEF Streams
<1>5. d = c
  BY <1>2, <1>4 DEF Callers
<1> HIDE DEF ms, asks, ends, o, more, kept, d
<1>6. PG!performAuth(c, b) =
        IF ~InStep(b) THEN Astray(c)
        ELSE IF asks > 0 /\ c.kind = "no password" THEN Ends(Fails("error"), <<>>)
        ELSE IF ends > 0 THEN Ends(o, <<>>)
        ELSE Waits(d, <<>>, more)
  BY <1>4, PGAuthReads, Zenon DEF ms, asks, ends, o, more, kept, d
<1>7. PG!performAuth(c, b) = Waits(c, <<>>, <<>>)
  BY <1>2, <1>3, <1>5, <1>6 DEF more
<1>8. <<>> \o (s \o <<>>) = b \o s
  <2>1. <<>> \o <<>> = <<>>
    OBVIOUS
  <2>2. QED
    BY <1>1, <2>1
<1>9. c # NoCall
  BY DEF NoCall, Call
<1>10. Own("pg", c, <<>> \o (s \o <<>>))
  BY <1>8 DEF Own
<1>11. QED
  BY <1>7, <1>9, <1>10, WaitsOwn

\* The startup arrives at once, or nothing of it has arrived.
LEMMA PGAuthOwn ==
  ASSUME NEW n \in Nat, NEW c \in Callers(n), NEW b \in Streams(n), NEW s \in Streams(n),
         PGOwn(c, b \o s), c.step = "auth", s # <<>> => ~PG!Torn(s[1]), b \o s # <<>>
  PROVE  KeepsOwn("pg", c, PG!performAuth(c, b), s)
<1> DEFINE k == Len(b) \div 2
           ms == Messages(b)
           asks == First(ms, {"AuthenticationMD5Password"})
           ends == First(ms, {"AuthenticationOk", "ReadyForQuery", "ErrorResponse"})
           o == IF ms[ends].t = "ErrorResponse" THEN Fails("error") ELSE Outcome("result", 0, ms)
           more == IF asks > 0 THEN Answers(0, PG!Verdict(c.kind)) ELSE <<>>
           d == [c EXCEPT !.got = <<>>]
           auth == PG!Verdict(c.kind)
<1>1. /\ c.q = 0 /\ c.kind \in PG!Auths /\ c.got = <<>>
      /\ \E ts : /\ ts \in {PG!Greeting(c.kind), auth}
                 /\ b \o s = Answers(0, ts)
  BY DEF PGOwn, Fresh
<1>2. PICK ts \in {PG!Greeting(c.kind), auth} : b \o s = Answers(0, ts)
  BY <1>1
<1>3. ts \in {PG!Ready, <<"AuthenticationMD5Password">>, <<"AuthenticationSASL">>,
             <<"ErrorResponse">>}
  BY <1>2 DEF PG!Greeting, PG!Verdict
<1>4. /\ ts \in Seq(Types) /\ 0 \in 0..Len(ts) /\ 0 \in 0..n
      /\ ts[1] \in {"AuthenticationOk", "AuthenticationMD5Password", "AuthenticationSASL",
                    "ErrorResponse"}
      /\ ts[1] = "AuthenticationMD5Password" => Len(ts) = 1
      /\ \A i \in 2..Len(ts) : ts[i] \in {"ParameterStatus", "ReadyForQuery"}
      /\ Len(ts) \in Nat /\ Len(ts) > 0
  <2>1. {"AuthenticationOk", "ParameterStatus", "ReadyForQuery", "AuthenticationMD5Password",
         "AuthenticationSASL", "ErrorResponse"} \subseteq Types
    BY Zenon DEF Types
  <2> HIDE DEF Types
  <2>2. CASE ts = PG!Ready
    <3>1. ts = <<"AuthenticationOk", "ParameterStatus", "ReadyForQuery">>
      BY <2>2 DEF PG!Ready
    <3>2. QED
      BY <2>1, <3>1
  <2>3. CASE ts = <<"AuthenticationMD5Password">>
    BY <2>1, <2>3
  <2>4. CASE ts = <<"AuthenticationSASL">>
    BY <2>1, <2>4
  <2>5. CASE ts = <<"ErrorResponse">>
    BY <2>1, <2>5
  <2>6. QED
    BY <1>3, <2>2, <2>3, <2>4, <2>5
<1>5. b \o s = Pending(0, ts, 0)
  BY <1>2, <1>4, PendingEnds
<1>6. Arrives(0, ts, 0, b, s)
  BY <1>4, <1>5, AnswerArrives, Zenon
<1>7. /\ k \in Nat /\ 0 + k \in 0..Len(ts) /\ Len(ms) = k /\ InStep(b)
      /\ \A i \in 1..k : ms[i] = Message(0, ts[i + 0], i + 0)
      /\ Rest(b) \o s = Pending(0, ts, 0 + k)
      /\ s = <<>> => 0 + k = Len(ts) /\ Rest(b) = <<>>
      /\ s # <<>> => /\ 0 + k + 1 \in 1..Len(ts) /\ s[1].q = 0 /\ s[1].t = ts[0 + k + 1]
                     /\ s[1].half = IF Rest(b) = <<>> THEN 1 ELSE 2
  BY <1>6, Zenon DEF Arrives, ComesNext
<1>8. Rest(b) = <<>>
  BY <1>7 DEF PG!Torn
<1>9. PG!performAuth(c, b) =
        IF asks > 0 /\ c.kind = "no password" THEN Ends(Fails("error"), <<>>)
        ELSE IF ends > 0 THEN Ends(o, <<>>)
        ELSE Waits(d, <<>>, more)
  <2>1. c.got \o b = b
    BY <1>1, ConcatEmptySeq DEF Streams
  <2> HIDE DEF ms, asks, ends, o, more
  <2>2. PG!performAuth(c, b) =
          IF ~InStep(b) THEN Astray(c)
          ELSE IF asks > 0 /\ c.kind = "no password" THEN Ends(Fails("error"), <<>>)
          ELSE IF ends > 0 THEN Ends(o, <<>>)
          ELSE Waits([c EXCEPT !.got = IF Rest(b) = <<>> THEN c.got ELSE Rest(b)], <<>>, more)
    BY <2>1, PGAuthReads, Zenon DEF ms, asks, ends, o, more
  <2>3. QED
    BY <1>1, <1>7, <1>8, <2>2
<1>10. /\ d.q = 0 /\ d.kind = c.kind /\ d.bound = c.bound /\ d.step = "auth" /\ d.got = <<>>
       /\ d # NoCall
  BY <1>1 DEF Callers, NoCall, Call
<1>12. /\ asks \in 0..k /\ ends \in 0..k
       /\ \A i \in 1..k : ms[i].t = ts[i]
       /\ asks = 0 => \A i \in 1..k : ts[i] # "AuthenticationMD5Password"
       /\ asks > 0 => ts[asks] = "AuthenticationMD5Password"
       /\ ends = 0 => \A i \in 1..k : ts[i] \notin {"AuthenticationOk", "ReadyForQuery", "ErrorResponse"}
  <2>1. ms \in Seq(Pieces(n))
    BY MessagesHold DEF Streams
  <2>2. \A i \in 1..k : ms[i].t = ts[i]
    BY <1>7 DEF Message
  <2> HIDE DEF ms, k
  <2>3. /\ asks \in 0..Len(ms) /\ ends \in 0..Len(ms)
        /\ asks = 0 => \A i \in 1..Len(ms) : ms[i].t \notin {"AuthenticationMD5Password"}
        /\ asks > 0 => ms[asks].t \in {"AuthenticationMD5Password"}
        /\ ends = 0 => \A i \in 1..Len(ms) : ms[i].t \notin
             {"AuthenticationOk", "ReadyForQuery", "ErrorResponse"}
    BY <2>1, FirstHolds
  <2>4. QED
    BY <1>7, <2>2, <2>3
<1> HIDE DEF k, ms, asks, ends, o, more, d
<1>13. CASE s # <<>>
  <2>1. k = 0
    BY <1>4, <1>7, <1>8, <1>13 DEF PG!Torn
  <2>2. asks = 0 /\ ends = 0
    BY <1>12, <2>1
  <2>3. PG!performAuth(c, b) = Waits(d, <<>>, <<>>)
    BY <1>9, <2>2 DEF more
  <2>4. <<>> \o (s \o <<>>) = b \o s
    <3>1. s \o <<>> = s /\ <<>> \o s = s
      BY ConcatEmptySeq DEF Streams
    <3>2. Rest(b) \o s = Pending(0, ts, 0)
      BY <1>7, <2>1
    <3>3. QED
      BY <1>5, <1>8, <3>1, <3>2
  <2>5. PGOwn(d, b \o s)
    BY <1>1, <1>10 DEF PGOwn, Fresh
  <2>6. Own("pg", d, <<>> \o (s \o <<>>))
    BY <2>4, <2>5 DEF Own
  <2>7. QED
    BY <1>10, <2>3, <2>6, WaitsOwn
<1>14. CASE s = <<>>
  <2>1. k = Len(ts) /\ 1 \in 1..k
    BY <1>4, <1>7, <1>14
  <2>2. <<>> \o s = <<>> /\ s \in Seq(Pieces(n)) /\ ~(c.q > 0)
    BY <1>1, <1>14 DEF Streams
  <2>3. \A x : KeepsOwn("pg", c, Ends(x, <<>>), s)
    BY <2>2, EndsOwn
  <2>4. ASSUME PG!performAuth(c, b) = Waits(d, <<>>, more), ends = 0,
               ~(asks > 0 /\ c.kind = "no password")
        PROVE  KeepsOwn("pg", c, PG!performAuth(c, b), s)
    <3>0. ASSUME ts[1] = "AuthenticationSASL"
          PROVE  KeepsOwn("pg", c, PG!performAuth(c, b), s)
      <4>1. ts = <<"AuthenticationSASL">> /\ c.kind = "sasl"
        BY <1>2, <1>3, <3>0 DEF PG!Greeting, PG!Verdict, PG!Ready
      <4>2. asks = 0
        BY <1>12, <2>1, <4>1
      <4>3. PGOwn(d, <<>>)
        BY <1>1, <1>10, <4>1 DEF PGOwn
      <4>4. <<>> \o (s \o <<>>) = <<>>
        BY <1>14
      <4>5. Own("pg", d, <<>> \o (s \o <<>>))
        BY <4>3, <4>4 DEF Own
      <4>6. PG!performAuth(c, b) = Waits(d, <<>>, <<>>)
        BY <2>4, <4>2 DEF more
      <4>7. QED
        BY <1>10, <4>5, <4>6, WaitsOwn
    <3> SUFFICES ASSUME ts[1] # "AuthenticationSASL"
                 PROVE  KeepsOwn("pg", c, PG!performAuth(c, b), s)
      BY <3>0
    <3>1. ts[1] = "AuthenticationMD5Password"
      BY <1>4, <1>12, <2>1, <2>4
    <3>2. asks > 0
      BY <1>12, <2>1, <3>1
    <3>3. more = Answers(0, auth)
      BY <3>2 DEF more
    <3>4. <<>> \o (s \o more) = Answers(0, auth)
      <4>1. auth \in Seq(Types)
        BY PGVerdictTyped, <1>1
      <4>2. more \in Seq(Pieces(n))
        BY <1>4, <3>3, <4>1, AnswersHold
      <4>3. <<>> \o more = more
        BY <4>2, ConcatEmptySeq
      <4>4. QED
        BY <1>14, <3>3, <4>3
    <3>5. PGOwn(d, Answers(0, auth))
      BY <1>1, <1>10 DEF PGOwn, Fresh
    <3>6. Own("pg", d, <<>> \o (s \o more))
      BY <3>4, <3>5 DEF Own
    <3>7. QED
      BY <1>10, <2>4, <3>6, WaitsOwn
  <2>5. CASE asks > 0 /\ c.kind = "no password"
    <3>1. PG!performAuth(c, b) = Ends(Fails("error"), <<>>)
      BY <1>9, <2>5, Zenon
    <3>2. QED
      BY <2>3, <3>1, Zenon
  <2>6. CASE ~(asks > 0 /\ c.kind = "no password") /\ ends > 0
    <3>1. PG!performAuth(c, b) = Ends(o, <<>>)
      BY <1>9, <2>6, Zenon
    <3>2. QED
      BY <2>3, <3>1, Zenon
  <2>7. CASE ~(asks > 0 /\ c.kind = "no password") /\ ~(ends > 0)
    <3>1. PG!performAuth(c, b) = Waits(d, <<>>, more)
      BY <1>9, <2>7, Zenon
    <3>2. ends = 0
      <4>1. ends \in 0..k /\ k \in Nat /\ ~(ends > 0)
        BY <1>7, <1>12, <2>7, Zenon
      <4>2. QED
        BY <4>1
    <3>3. QED
      BY <2>4, <2>7, <3>1, <3>2, Zenon
  <2>8. QED
    BY <2>5, <2>6, <2>7, Zenon
<1>15. QED
  BY <1>13, <1>14

LEMMA PGTurnOwn ==
  ASSUME NEW n \in Nat, NEW c \in Callers(n), NEW b \in Streams(n), NEW s \in Streams(n),
         PGOwn(c, b \o s), c.step # "none", s # <<>> => ~PG!Torn(s[1])
  PROVE  KeepsOwn("pg", c, PG!Reads(c, b), s)
<1>1. CASE c.step = "auth"
  <2>1. PG!Reads(c, b) = PG!performAuth(c, b)
    BY <1>1 DEF PG!Reads
  <2>2. QED
    BY <1>1, <2>1, PGAuthOwn, PGSilentOwn
<1>2. CASE c.step # "auth"
  <2>1. PG!Reads(c, b) = PG!readMessages(c, b)
    BY <1>2 DEF PG!Reads
  <2>2. QED
    BY <1>2, <2>1, PGQueryOwn
<1>3. QED
  BY <1>1, <1>2

LEMMA PGRequestOwn ==
  ASSUME SessionInv, Owed, OwnAnswers, protocol = "pg", NEW kind \in PG!Kinds,
         NEW bound \in BOOLEAN,
         PG!Requests(kind, bound, "query", PG!Answer(kind, bound)), protocol' = protocol
  PROVE  Owed' /\ OwnAnswers'
<1> DEFINE n == Len(asked) + 1
           c == NextCall(kind, bound, "query")
           answer == PG!Answer(kind, bound)
           turn == PG!Reads(c, buffer)
           a == Answers(n, answer)
<1>1. Asks(c, answer, turn)
  BY PGShares DEF PG!Requests
<1>2. kind \in CallKinds /\ "query" \in Steps \ {"none"} /\ "query" # "auth" /\ "query" # "none"
  BY Zenon DEF PG!Kinds, CallKinds, Steps
<1>3. /\ n \in Nat /\ n > 0 /\ n \in 0..n /\ c \in Callers(n)
      /\ c.q = n /\ c.kind = kind /\ c.bound = bound /\ c.step = "query" /\ c.got = <<>>
  BY <1>2, NextCallIs
<1>4. answer \in Seq(Types) /\ answer # <<>>
  BY PGAnswersEnd
<1> HIDE DEF n, c, turn
<1>5. /\ a \in Streams(n) /\ a[1].q = n /\ a[1].half = 1
      /\ a = Pending(n, answer, 0) /\ Part(n, answer, 0) = <<>>
  BY <1>3, <1>4, AnswerBegins, PendingEnds, SMTT(30)
<1>6. ASSUME buffer = <<>>
      PROVE  KeepsOwn("pg", c, turn, a)
  <2>1. buffer \in Streams(n)
    BY <1>6 DEF Streams
  <2>2. buffer \o a = a
    BY <1>5, <1>6, ConcatEmptySeq DEF Streams
  <2>3. 0 \in 0..(Len(answer) - 1)
    BY <1>4, EmptySeq
  <2>4. Partly(c, buffer \o a, answer)
    BY <1>3, <1>5, <2>2, <2>3 DEF Partly
  <2>5. PGOwn(c, buffer \o a)
    BY <1>2, <1>3, <2>4 DEF PGOwn
  <2>6. ~PG!Torn(a[1])
    <3>1. n # 0
      BY <1>3
    <3>2. QED
      BY <1>5, <3>1 DEF PG!Torn
  <2>7. QED
    BY <1>2, <1>3, <1>5, <2>1, <2>5, <2>6, PGTurnOwn DEF turn
<1>7. QED
  BY <1>1, <1>3, <1>5, <1>6, AsksOwn DEF n

LEMMA PGChunkOwn ==
  ASSUME SessionInv, Owed, OwnAnswers, protocol = "pg", PG!onData, protocol' = protocol
  PROVE  Owed' /\ OwnAnswers'
<1>1. PICK n \in 1..Len(net) :
        PG!Receives(n, PG!Reads(call, PG!Arrived(n)), n < Len(net) /\ PG!Torn(net[n + 1]))
  BY DEF PG!onData
<1> DEFINE turn == PG!Reads(call, Arrived(n))
           torn == n < Len(net) /\ PG!Torn(net[n + 1])
<1>2. Receives(n, turn, torn)
  BY <1>1, PGShares
<1>3. torn \in BOOLEAN
  OBVIOUS
<1>4. ASSUME call # NoCall, Own(protocol, call, Arrived(n) \o Drop(net, n)),
             call.step # "none", Arrived(n) \in Streams(Len(asked)),
             Drop(net, n) \in Streams(Len(asked)), call \in Callers(Len(asked)),
             Len(asked) \in Nat,
             Drop(net, n) # <<>> => n < Len(net) /\ Drop(net, n)[1] = net[n + 1],
             ~torn
      PROVE  KeepsOwn(protocol, call, turn, Drop(net, n))
  <2>1. PGOwn(call, Arrived(n) \o Drop(net, n))
    BY <1>4 DEF Own
  <2>2. Drop(net, n) # <<>> => ~PG!Torn(Drop(net, n)[1])
    BY <1>4
  <2>3. QED
    BY <1>4, <2>1, <2>2, PGTurnOwn
<1> HIDE DEF turn, torn
<1>5. QED
  BY <1>2, <1>3, <1>4, ChunkOwn, Zenon

LEMMA PGConnectOwn ==
  ASSUME SessionInv, Owed, OwnAnswers, protocol = "pg", PG!connect, protocol' = protocol
  PROVE  Owed' /\ OwnAnswers'
<1>1. PICK auth \in PG!Auths : PG!Connects(auth, "auth", PG!Answers(0, PG!Greeting(auth)))
  BY DEF PG!connect
<1> DEFINE ts == PG!Greeting(auth)
           g == Answers(0, ts)
           c == Call(0, auth, FALSE, "auth")
<1>2. Connects(auth, "auth", g)
  BY <1>1, PGShares
<1>3. Len(asked) \in Nat /\ 0 \in 0..Len(asked)
  BY DEF SessionInv, Session, FieldTypes
<1>4. ts \in Seq(Types)
  BY PGVerdictTyped
<1>5. c.q = 0 /\ c.kind = auth /\ c.step = "auth" /\ c.got = <<>>
  BY DEF Call
<1> HIDE DEF ts, c
<1>6. g \in Streams(Len(asked))
  BY <1>3, <1>4, AnswersHold DEF Streams
<1>7. PGOwn(c, g)
  BY <1>5 DEF PGOwn, Fresh, ts
<1>8. Own(protocol, c, g)
  BY <1>7 DEF Own
<1> HIDE DEF g
<1>9. QED
  BY <1>2, <1>6, <1>8, ConnectsOwn DEF c

LEMMA PGOwns ==
  ASSUME SessionInv, Owed, OwnAnswers, protocol = "pg", PG!Next, protocol' = protocol
  PROVE  Owed' /\ OwnAnswers'
<1>1. CASE PG!connect
  BY <1>1, PGConnectOwn
<1>2. CASE PG!query \/ PG!queryParams
  <2>1. PICK kind \in PG!Kinds, bound \in BOOLEAN :
          PG!Requests(kind, bound, "query", PG!Answer(kind, bound))
    BY <1>2 DEF PG!query, PG!queryParams
  <2>2. QED
    BY <2>1, PGRequestOwn
<1>3. CASE PG!onData
  BY <1>3, PGChunkOwn
<1>4. CASE PG!onError \/ PG!onClose \/ PG!close
  <2>1. Rejects("failed") \/ Rejects("gone")
    BY <1>4, PGShares DEF PG!onError, PG!onClose, PG!close
  <2>2. "failed" \in {"failed", "gone"} /\ "gone" \in {"failed", "gone"}
    OBVIOUS
  <2>3. QED
    BY <2>1, <2>2, RejectsOwn
<1>5. QED
  BY <1>1, <1>2, <1>3, <1>4 DEF PG!Next

-----------------------------------------------------------------------------
(* MySQL                                                                    *)

\* The packets whose arrival one by one the readers cannot bear.
Plain == {"handshake", "OK", "ERR", "count", "column", "row", "blank", "EOF"}

LEMMA MySQLTears == \A p : p.i > 1 /\ p.t \in Plain => MySQL!Torn(p)
<1>1. \A t : t \in Plain => t \notin {"param", "prepared column"}
  BY Zenon DEF Plain
<1>2. QED
  BY <1>1, Zenon DEF MySQL!Torn

LEMMA MySQLAnswersPlain ==
  ASSUME NEW kind, NEW ts \in {MySQL!Greeting(kind), MySQL!Verdict(kind), MySQL!Answer(kind)}
  PROVE  ts \in Seq(Types) /\ ts # <<>> /\ \A i \in 1..Len(ts) : ts[i] \in Plain
<1>1. ts \in Seq(Types)
  BY MySQLAnswersFit DEF MySQLFits
<1>2. \/ ts \in {<<"ERR">>, <<"OK">>, <<"handshake">>}
      \/ ts \in {<<"count", "column", "row", "row", "EOF">>,
                 <<"count", "column", "blank", "row", "EOF">>}
      \/ ts = <<"count", "column", "row", "ERR">>
  BY Zenon DEF MySQL!Greeting, MySQL!Verdict, MySQL!Answer
<1>3. ts # <<>> /\ \A i \in 1..Len(ts) : ts[i] \in Plain
  BY <1>2 DEF Plain
<1>4. QED
  BY <1>1, <1>3

\* Nothing of a plain answer is read, or all of it.
MySQLArrives(q, ts, b, s) ==
  /\ InStep(b)
  /\ \/ s # <<>> /\ Messages(b) = <<>>
     \/ /\ s = <<>> /\ Rest(b) = <<>> /\ Messages(b) # <<>>
        /\ Messages(b) = Part(q, ts, Len(ts))

LEMMA MySQLAllOrNothing ==
  ASSUME NEW n \in Nat, NEW q \in 0..n, NEW ts \in Seq(Types), ts # <<>>,
         \A i \in 1..Len(ts) : ts[i] \in Plain,
         NEW b \in Streams(n), NEW s \in Streams(n), b \o s = Answers(q, ts),
         s # <<>> => ~MySQL!Torn(s[1])
  PROVE  MySQLArrives(q, ts, b, s)
<1> DEFINE k == Len(b) \div 2
           ms == Messages(b)
<1>1. b \o s = Pending(q, ts, 0) /\ Part(q, ts, 0) = <<>>
  BY PendingEnds
<1>2. Len(ts) \in Nat /\ Len(ts) # 0 /\ 0 \in 0..Len(ts)
  BY EmptySeq
<1>3. Arrives(q, ts, 0, b, s)
  BY <1>1, <1>2, AnswerArrives, Zenon
<1>4. /\ k \in Nat /\ Len(ms) = k /\ InStep(b)
      /\ Part(q, ts, 0) \o ms = Part(q, ts, 0 + k)
      /\ s = <<>> => 0 + k = Len(ts) /\ Rest(b) = <<>>
      /\ s # <<>> => 0 + k + 1 \in 1..Len(ts) /\ s[1].t = ts[0 + k + 1] /\ s[1].i = 0 + k + 1
  BY <1>3, Zenon DEF Arrives, ComesNext
<1>5. ms \in Seq(Pieces(n))
  BY MessagesHold DEF Streams
<1>6. <<>> \o ms = ms
  BY <1>5, ConcatEmptySeq
<1> HIDE DEF k, ms
<1>7. ms = Part(q, ts, k)
  <2>1. 0 + k = k
    BY <1>4
  <2>2. QED
    BY <1>1, <1>4, <1>6, <2>1
<1>8. CASE s # <<>>
  <2>1. s[1].t \in Plain /\ ~(s[1].i > 1)
    BY <1>4, <1>8, MySQLTears
  <2>2. k = 0
    BY <1>4, <1>8, <2>1
  <2>3. ms = <<>>
    BY <1>4, <1>5, <2>2, EmptySeq
  <2>4. QED
    BY <1>4, <1>8, <2>3 DEF MySQLArrives, ms
<1>9. CASE s = <<>>
  <2>1. k = Len(ts) /\ Rest(b) = <<>>
    BY <1>4, <1>9
  <2>2. ms # <<>>
    BY <1>2, <1>4, <2>1
  <2>3. QED
    BY <1>4, <1>7, <1>9, <2>1, <2>2 DEF MySQLArrives, ms
<1>10. QED
  BY <1>8, <1>9

\* What becomes of a whole answer.
LEMMA MySQLAnswerTells ==
  ASSUME NEW n \in Nat, NEW q \in 0..n, NEW kind \in MySQL!Kinds, NEW bound \in BOOLEAN
  PROVE  LET ts == MySQL!Answer(kind)
             ps == Part(q, ts, Len(ts))
         IN  /\ ps[1].t \in {"ERR", "OK", "count"}
             /\ Answered("mysql", q, [kind |-> kind, bound |-> bound],
                         MySQL!parseResponse(ps, bound))
<1> DEFINE ts == MySQL!Answer(kind)
           ps == Part(q, ts, Len(ts))
           o == MySQL!parseResponse(ps, bound)
           a == [kind |-> kind, bound |-> bound]
<1>1. ts \in Seq(Types) /\ ts # <<>> /\ Len(ts) \in Nat /\ Len(ts) # 0
  BY MySQLAnswersPlain, EmptySeq
<1>2. ps \in Streams(n)
  <2>1. Len(ts) \in 0..Len(ts)
    BY <1>1
  <2>2. QED
    BY <1>1, <2>1, PartTyped
<1>3. /\ DOMAIN ps = 1..Len(ts) /\ Len(ps) = Len(ts)
      /\ \A i \in 1..Len(ts) : ps[i].t = ts[i] /\ ps[i].q = q
  <2>1. /\ DOMAIN ps = 1..Len(ts) /\ Len(ps) = Len(ts)
        /\ \A i \in 1..Len(ts) : ps[i] = Message(q, ts[i], i)
    BY <1>1, PartHolds
  <2>2. \A i : Message(q, ts[i], i).q = q /\ Message(q, ts[i], i).t = ts[i]
    BY DEF Message
  <2> HIDE DEF ps, ts
  <2>3. QED
    BY <2>1, <2>2
<1>4. o = CASE ps[1].t = "ERR" -> Outcome("error", 0, <<ps[1]>>)
            [] ps[1].t \in {"OK", "EOF"} -> Outcome("result", 0, <<ps[1]>>)
            [] ps[1].t = "count" /\ Len(ps) > 1 -> MySQL!parseResultSet(ps, bound)
            [] OTHER -> Fails("error")
  BY MySQLParses, Zenon
<1> HIDE DEF ps, o
<1>5. \A status, rows :
        /\ Outcome(status, rows, <<ps[1]>>).status = status
        /\ Outcome(status, rows, <<ps[1]>>).rows = rows
        /\ Outcome(status, rows, <<ps[1]>>).of \subseteq {q}
  BY <1>1, <1>3 DEF Outcome
<1>6. CASE kind \in {"wrong", "fails"}
  <2>1. ts = <<"ERR">>
    BY <1>6, Zenon DEF MySQL!Answer
  <2>2. ps[1].t = "ERR" /\ o = Outcome("error", 0, <<ps[1]>>)
    BY <1>3, <1>4, <2>1
  <2>3. [status |-> o.status, rows |-> o.rows] = MySQL!Expected(kind, bound)
    BY <1>5, <1>6, <2>2 DEF MySQL!Expected
  <2>4. QED
    BY <1>5, <2>2, <2>3 DEF Answered, ExpectedOf, o, ps
<1>7. CASE kind = "done"
  <2>1. ts = <<"OK">>
    BY <1>7, Zenon DEF MySQL!Answer
  <2>2. ps[1].t = "OK" /\ o = Outcome("result", 0, <<ps[1]>>)
    BY <1>3, <1>4, <2>1
  <2>3. [status |-> o.status, rows |-> o.rows] = MySQL!Expected(kind, bound)
    BY <1>5, <1>7, <2>2 DEF MySQL!Expected
  <2>4. QED
    BY <1>5, <2>2, <2>3 DEF Answered, ExpectedOf, o, ps
<1>8. ASSUME kind \in {"rows", "blank", "breaks"}
      PROVE  ps[1].t = "count" /\ o = MySQL!parseResultSet(ps, bound) /\ o.of \subseteq {q}
  <2>1. ts[1] = "count" /\ Len(ts) > 1
    <3>1. \/ ts = <<"count", "column", "row", "row", "EOF">>
          \/ ts = <<"count", "column", "blank", "row", "EOF">>
          \/ ts = <<"count", "column", "row", "ERR">>
      BY <1>8, Zenon DEF MySQL!Answer
    <3> HIDE DEF ts
    <3>2. QED
      BY <3>1
  <2>2. ps[1].t = "count" /\ o = MySQL!parseResultSet(ps, bound)
    BY <1>1, <1>3, <1>4, <2>1
  <2>3. PICK read \in SUBSET (1..Len(ps)), r \in Nat :
          MySQL!parseResultSet(ps, bound) = Outcome("result", r, [i \in read |-> ps[i]])
    BY <1>2, MySQLRowsEnd
  <2>4. o.of = {ps[i].q : i \in read}
    BY <2>2, <2>3 DEF Outcome
  <2>5. QED
    BY <1>3, <2>2, <2>4
<1>9. CASE kind \in {"blank", "breaks"}
  BY <1>8, <1>9 DEF Answered, Misread, o, ps
<1>10. CASE kind = "rows"
  <2>1. ts = <<"count", "column", "row", "row", "EOF">>
    BY <1>10, Zenon DEF MySQL!Answer
  <2>2. /\ Len(ps) = 5 /\ ps[3].t = "row" /\ ps[4].t = "row" /\ ps[5].t = "EOF"
    BY <1>3, <2>1
  <2> DEFINE start == IF Len(ps) > 2 /\ ps[3].t = "EOF" THEN 3 ELSE 2
             Terminates(i) ==
               \/ ps[i].t \in {"ERR", "EOF", "blank"}
               \/ ps[i].t = "row" /\ bound /\ i = Len(ps)
             ends == {i \in (start + 1)..Len(ps) : Terminates(i)}
             rows == {i \in (start + 1)..Len(ps) : \A e \in ends : i < e}
             read == {i \in 1..Len(ps) : \A e \in ends : i <= e}
  <2>3. MySQL!parseResultSet(ps, bound)
          = Outcome("result", Cardinality(rows), [i \in read |-> ps[i]])
    BY MySQLCounts, MySQLOutcome DEF MySQL!parseResultSet
  <2>4. start = 2
    BY <2>2
  <2>5. ends = {5}
    <3>1. \A i : i \in 3..5 <=> i = 3 \/ i = 4 \/ i = 5
      OBVIOUS
    <3>2. ~Terminates(3) /\ ~Terminates(4) /\ Terminates(5)
      BY <2>2
    <3> HIDE DEF Terminates, start
    <3>3. QED
      BY <2>2, <2>4, <3>1, <3>2
  <2>6. rows = {3, 4}
    <3> HIDE DEF ends, start
    <3>1. rows = {i \in 3..5 : i < 5}
      BY <2>2, <2>4, <2>5
    <3>2. QED
      BY <3>1
  <2>7. Cardinality(rows) = 2
    <3>1. 3 # 4
      OBVIOUS
    <3>2. Cardinality({3, 4}) = 2
      BY <3>1, TwoElements, Zenon
    <3> HIDE DEF rows
    <3>3. QED
      BY <2>6, <3>2
  <2> HIDE DEF rows, read
  <2>8. o.status = "result" /\ o.rows = 2
    BY <1>8, <1>10, <2>3, <2>7 DEF Outcome
  <2>9. [status |-> o.status, rows |-> o.rows] = MySQL!Expected(kind, bound)
    BY <1>10, <2>8 DEF MySQL!Expected
  <2>10. QED
    BY <1>8, <1>10, <2>9 DEF Answered, ExpectedOf, o, ps
<1>11. QED
  BY <1>6, <1>7, <1>9, <1>10, <1>8 DEF MySQL!Kinds, ps

LEMMA MySQLReads ==
  ASSUME NEW c, NEW b, InStep(b)
  PROVE  /\ c.step = "handshake" => MySQL!Reads(c, b) = MySQL!readHandshake(c, b)
         /\ c.step = "auth" => MySQL!Reads(c, b) = MySQL!readAuth(c, b)
         /\ c.step = "prepare" => MySQL!Reads(c, b) = MySQL!readPrepared(c, b)
         /\ c.step \in {"query", "execute"} => MySQL!Reads(c, b) = MySQL!readResponse(c, b)
<1>1. MySQL!InStep(b)
  BY MySQLInStep
<1>2. QED
  BY <1>1 DEF MySQL!Reads

\* connect(): the handshake, and the verdict that is asked for with the answer to it.
LEMMA MySQLConnectsOwn ==
  ASSUME NEW n \in Nat, NEW c \in Callers(n), NEW b \in Streams(n), NEW s \in Streams(n),
         MySQLOwn(c, b \o s), c.step \in {"handshake", "auth"},
         s # <<>> => ~MySQL!Torn(s[1])
  PROVE  KeepsOwn("mysql", c, MySQL!Reads(c, b), s)
<1> DEFINE g == MySQL!Greeting(c.kind)
           v == MySQL!Verdict(c.kind)
           ps == Messages(b)
<1>1. /\ c.q = 0 /\ c.got = <<>>
      /\ c.step = "handshake" => b \o s = Answers(0, g)
      /\ c.step = "auth" => b \o s = Answers(0, v)
  BY DEF MySQLOwn, Fresh
<1>2. /\ g \in Seq(Types) /\ g # <<>> /\ \A i \in 1..Len(g) : g[i] \in Plain
      /\ v \in Seq(Types) /\ v # <<>> /\ \A i \in 1..Len(v) : v[i] \in Plain
  BY MySQLAnswersPlain
<1> HIDE DEF g, v, ps
<1>3. 0 \in 0..n /\ c # NoCall
  BY DEF NoCall, Call
<1>4. b \o (s \o <<>>) = b \o s
  BY ConcatEmptySeq DEF Streams
<1>5. MySQLOwn(c, b \o (s \o <<>>))
  BY <1>4
<1>6. Own("mysql", c, b \o (s \o <<>>))
  BY <1>5 DEF Own
<1>7. CASE c.step = "handshake"
  <2>1. MySQLArrives(0, g, b, s)
    BY <1>1, <1>2, <1>3, <1>7, MySQLAllOrNothing
  <2>2. MySQL!Reads(c, b) =
          IF ps = <<>> THEN Waits(c, b, <<>>)
          ELSE IF ps[1].t = "ERR" THEN Ends(Fails("error"), Rest(b))
          ELSE [MySQL!readAuth(c, Rest(b)) EXCEPT !.more = Answers(0, v)]
    <3>1. MySQL!Reads(c, b) = MySQL!readHandshake(c, b)
      BY <1>7, <2>1, MySQLReads DEF MySQLArrives
    <3>2. QED
      BY <3>1, MySQLHandshakeReads, Zenon DEF ps, v
  <2>3. CASE ps = <<>>
    <3>1. MySQL!Reads(c, b) = Waits(c, b, <<>>)
      BY <2>2, <2>3
    <3>2. QED
      BY <1>3, <1>6, <3>1, WaitsOwn
  <2>4. CASE ps # <<>> /\ ps[1].t = "ERR"
    <3>1. MySQL!Reads(c, b) = Ends(Fails("error"), Rest(b))
      BY <2>2, <2>4
    <3>2. Fails("error").status # "result" /\ s \in Seq(Pieces(n)) /\ ~(c.q > 0)
      BY <1>1 DEF Fails, Outcome, Streams
    <3>3. KeepsOwn("mysql", c, Ends(Fails("error"), Rest(b)), s)
      BY <1>1, <3>2, EndsOwn
    <3>4. QED
      BY <3>1, <3>3
  <2>5. CASE ps # <<>> /\ ps[1].t # "ERR"
    <3> DEFINE d == [c EXCEPT !.step = "auth"]
               a == Answers(0, v)
               t == [MySQL!readAuth(c, Rest(b)) EXCEPT !.more = a]
    <3>1. s = <<>> /\ Rest(b) = <<>>
      BY <2>1, <2>5 DEF MySQLArrives, ps
    <3>2. Messages(<<>>) = <<>>
      <4>1. <<>> \in Seq(Pieces(n)) /\ Len(<<>>) \div 2 = 0
        OBVIOUS
      <4>2. Messages(<<>>) \in Seq(Pieces(n)) /\ Len(Messages(<<>>)) = 0
        BY <4>1, MessagesHold
      <4>3. QED
        BY <4>2, EmptySeq
    <3>3. MySQL!readAuth(c, <<>>) = Waits(d, <<>>, <<>>)
      BY <3>2, MySQLAuthReads
    <3>4. t = Waits(d, <<>>, a)
      <4>1. t = [Waits(d, <<>>, <<>>) EXCEPT !.more = a]
        BY <3>1, <3>3, Zenon
      <4>2. QED
        BY <4>1, WaitsMore, Zenon
    <3>5. d.q = 0 /\ d.kind = c.kind /\ d.step = "auth" /\ d.got = <<>> /\ d # NoCall
      BY <1>1 DEF Callers, NoCall, Call
    <3>6. a \in Streams(n)
      BY <1>2, <1>3, AnswersHold DEF Streams
    <3> HIDE DEF a, d
    <3>7. <<>> \o (s \o a) = a
      BY <3>1, <3>6, ConcatEmptySeq DEF Streams
    <3>8. MySQLOwn(d, a)
      BY <3>5 DEF MySQLOwn, Fresh, a, v
    <3>9. Own("mysql", d, <<>> \o (s \o a))
      BY <3>7, <3>8 DEF Own
    <3>10. KeepsOwn("mysql", c, Waits(d, <<>>, a), s)
      BY <3>5, <3>9, WaitsOwn
    <3>11. MySQL!Reads(c, b) = t
      BY <2>2, <2>5 DEF a
    <3>12. QED
      BY <3>4, <3>10, <3>11
  <2>6. QED
    BY <2>3, <2>4, <2>5
<1>8. CASE c.step = "auth"
  <2>1. MySQLArrives(0, v, b, s)
    BY <1>1, <1>2, <1>3, <1>8, MySQLAllOrNothing
  <2> DEFINE d == [c EXCEPT !.step = "auth"]
             o == MySQL!parseResponse(ps, FALSE)
  <2>2. MySQL!Reads(c, b) = IF ps = <<>> THEN Waits(d, b, <<>>) ELSE Ends(o, <<>>)
    <3>1. MySQL!Reads(c, b) = MySQL!readAuth(c, b)
      BY <1>8, <2>1, MySQLReads DEF MySQLArrives
    <3>2. QED
      BY <3>1, MySQLAuthReads, Zenon DEF ps
  <2>3. d = c
    BY <1>8 DEF Callers
  <2> HIDE DEF d, o
  <2>4. CASE ps = <<>>
    <3>1. MySQL!Reads(c, b) = Waits(c, b, <<>>)
      BY <2>2, <2>3, <2>4
    <3>2. QED
      BY <1>3, <1>6, <3>1, WaitsOwn
  <2>5. CASE ps # <<>>
    <3>1. MySQL!Reads(c, b) = Ends(o, <<>>)
      BY <2>2, <2>5
    <3>2. <<>> \o s = <<>> /\ s \in Seq(Pieces(n)) /\ ~(c.q > 0)
      BY <1>1, <2>1, <2>5 DEF MySQLArrives, ps, Streams
    <3>3. KeepsOwn("mysql", c, Ends(o, <<>>), s)
      BY <3>2, EndsOwn
    <3>4. QED
      BY <3>1, <3>3
  <2>6. QED
    BY <2>4, <2>5
<1>9. QED
  BY <1>7, <1>8

\* query(), and execute() when prepare() is done.
LEMMA MySQLResponseOwn ==
  ASSUME NEW n \in Nat, NEW c \in Callers(n), NEW b \in Streams(n), NEW s \in Streams(n),
         MySQLOwn(c, b \o s), c.step \in {"query", "execute"},
         s # <<>> => ~MySQL!Torn(s[1])
  PROVE  KeepsOwn("mysql", c, MySQL!Reads(c, b), s)
<1> DEFINE ts == MySQL!Answer(c.kind)
           ps == Messages(b)
           o == MySQL!parseResponse(ps, c.bound)
           q == c.q
<1>1. c.kind \in MySQL!Kinds /\ c.bound \in BOOLEAN /\ b \o s = Answers(q, ts) /\ q \in 0..n
  BY DEF MySQLOwn, Fresh, Callers
<1>2. ts \in Seq(Types) /\ ts # <<>> /\ \A i \in 1..Len(ts) : ts[i] \in Plain
  BY MySQLAnswersPlain
<1> HIDE DEF ts, q
<1>3. MySQLArrives(q, ts, b, s)
  BY <1>1, <1>2, MySQLAllOrNothing
<1> HIDE DEF ps, o
<1>4. MySQL!Reads(c, b) =
        IF ps = <<>> THEN Waits(c, b, <<>>)
        ELSE IF MySQL!Misplaced(ps[1]) THEN Astray(c)
        ELSE Ends(o, Rest(b))
  <2>1. MySQL!Reads(c, b) = MySQL!readResponse(c, b)
    BY <1>3, MySQLReads DEF MySQLArrives
  <2>2. QED
    BY <2>1, MySQLResponseReads, Zenon DEF ps, o
<1>5. CASE ps = <<>>
  <2>1. b \o (s \o <<>>) = b \o s
    BY ConcatEmptySeq DEF Streams
  <2>2. MySQLOwn(c, b \o (s \o <<>>))
    BY <2>1
  <2>3. Own("mysql", c, b \o (s \o <<>>)) /\ c # NoCall
    BY <2>2 DEF Own, NoCall, Call
  <2>4. MySQL!Reads(c, b) = Waits(c, b, <<>>)
    BY <1>4, <1>5
  <2>5. QED
    BY <2>3, <2>4, WaitsOwn
<1>6. CASE ps # <<>>
  <2>1. s = <<>> /\ Rest(b) = <<>> /\ ps = Part(q, ts, Len(ts))
    BY <1>3, <1>6 DEF MySQLArrives, ps
  <2>2. /\ ps[1].t \in {"ERR", "OK", "count"}
        /\ Answered("mysql", q, [kind |-> c.kind, bound |-> c.bound], o)
    BY <1>1, <2>1, MySQLAnswerTells DEF ts, o
  <2>3. ~MySQL!Misplaced(ps[1])
    BY <2>2 DEF MySQL!Misplaced
  <2>4. MySQL!Reads(c, b) = Ends(o, <<>>)
    BY <1>4, <1>6, <2>1, <2>3
  <2>5. <<>> \o s = <<>> /\ s \in Seq(Pieces(n))
    BY <2>1 DEF Streams
  <2>6. Answered("mysql", c.q, [kind |-> c.kind, bound |-> c.bound], o)
    BY <2>2 DEF q
  <2>7. KeepsOwn("mysql", c, Ends(o, <<>>), s)
    BY <2>5, <2>6, EndsOwn
  <2>8. QED
    BY <2>4, <2>7
<1>7. QED
  BY <1>5, <1>6

LEMMA MySQLPreparedTells ==
  ASSUME NEW kind \in MySQL!Kinds \ {"blank"}
  PROVE  LET ts == MySQL!Prepared(kind)
         IN  /\ ts \in Seq(Types) /\ ts # <<>>
             /\ \/ kind = "wrong" /\ Len(ts) = 1 /\ ts[1] = "ERR"
                \/ ts[1] = "prepareOK0" /\ Len(ts) = 2
                \/ ts[1] = "prepareOK1" /\ Len(ts) = 3
<1> DEFINE ts == MySQL!Prepared(kind)
           x == "prepared column"
<1>1. ts \in Seq(Types)
  BY MySQLAnswersFit DEF MySQLFits
<1>2. \/ kind = "wrong" /\ ts = <<"ERR">>
      \/ ts = <<"prepareOK0", "param">>
      \/ ts = <<"prepareOK1", "param", x>>
  BY Zenon DEF MySQL!Prepared
<1> HIDE DEF ts, x
<1>3. /\ ts # <<>>
      /\ \/ kind = "wrong" /\ Len(ts) = 1 /\ ts[1] = "ERR"
         \/ ts[1] = "prepareOK0" /\ Len(ts) = 2
         \/ ts[1] = "prepareOK1" /\ Len(ts) = 3
  BY <1>2
<1>4. QED
  BY <1>1, <1>3 DEF ts

\* prepare(), and what is asked for when its packets are counted.
LEMMA MySQLPrepareOwn ==
  ASSUME NEW n \in Nat, NEW c \in Callers(n), NEW b \in Streams(n), NEW s \in Streams(n),
         MySQLOwn(c, b \o s), c.step = "prepare"
  PROVE  KeepsOwn("mysql", c, MySQL!Reads(c, b), s)
<1> DEFINE ts == MySQL!Prepared(c.kind)
           N == Len(ts)
           k == Len(b) \div 2
           ps == c.got \o Messages(b)
           q == c.q
           execute == [c EXCEPT !.step = "execute", !.got = <<>>]
           a == Answers(q, MySQL!Answer(c.kind))
<1>1. /\ c.bound /\ c.bound \in BOOLEAN /\ c.kind \in MySQL!Kinds \ {"blank"} /\ q \in 0..n
      /\ Partly(c, b \o s, ts) /\ c # NoCall
  BY DEF MySQLOwn, Callers, NoCall, Call
<1>2. /\ ts \in Seq(Types) /\ ts # <<>> /\ N \in Nat /\ N > 0
      /\ \/ c.kind = "wrong" /\ N = 1 /\ ts[1] = "ERR"
         \/ ts[1] = "prepareOK0" /\ N = 2
         \/ ts[1] = "prepareOK1" /\ N = 3
  BY <1>1, MySQLPreparedTells
<1>3. PICK j \in 0..(N - 1) : c.got = Part(q, ts, j) /\ b \o s = Pending(q, ts, j)
  BY <1>1 DEF Partly
<1> HIDE DEF ts, q
<1>4. j \in 0..Len(ts) /\ j \in Nat
  BY <1>2
<1>5. Arrives(q, ts, j, b, s)
  BY <1>1, <1>2, <1>3, <1>4, AnswerArrives, Zenon
<1>6. /\ k \in Nat /\ j + k \in 0..N /\ InStep(b)
      /\ ps = Part(q, ts, j + k) /\ Rest(b) \o s = Pending(q, ts, j + k)
  BY <1>3, <1>5, Zenon DEF Arrives
<1>7. MySQL!Reads(c, b) =
        IF ps = <<>> THEN Waits(c, b, <<>>)
        ELSE IF ps[1].t \in {"ERR", "OK", "EOF"} THEN Ends(Fails("error"), Rest(b))
        ELSE IF ps[1].t \notin {"prepareOK0", "prepareOK1"} THEN Astray(c)
        ELSE IF Len(ps) < MySQL!parsePrepareOK(ps[1])
             THEN Waits([c EXCEPT !.got = ps], Rest(b), <<>>)
        ELSE [MySQL!readResponse(execute, Rest(b)) EXCEPT !.more = a]
  <2>1. MySQL!Reads(c, b) = MySQL!readPrepared(c, b)
    BY <1>6, MySQLReads
  <2>2. QED
    BY <2>1, MySQLPreparedReads, Zenon DEF q
<1>8. /\ Len(ps) = j + k /\ j + k \in Nat
      /\ j + k > 0 => ps # <<>> /\ ps[1].t = ts[1]
      /\ ps = <<>> => j + k = 0
  <2>1. j + k \in Nat
    BY <1>4, <1>6
  <2>2. Len(ps) = j + k /\ \A i \in 1..(j + k) : ps[i] = Message(q, ts[i], i)
    BY <1>6, <2>1, PartHolds
  <2>3. \A i : Message(q, ts[i], i).t = ts[i]
    BY DEF Message
  <2> HIDE DEF ps, k
  <2>4. j + k > 0 => ps # <<>> /\ ps[1].t = ts[1]
    <3>1. ASSUME j + k > 0 PROVE 1 \in 1..(j + k)
      BY <2>1, <3>1
    <3>2. Len(<<>>) = 0
      OBVIOUS
    <3>3. QED
      BY <2>1, <2>2, <2>3, <3>1, <3>2
  <2>5. QED
    BY <2>1, <2>2, <2>4
<1>9. s \o <<>> = s /\ s \in Seq(Pieces(n))
  BY ConcatEmptySeq DEF Streams
<1> HIDE DEF N, k, ps, a, execute
<1>10. CASE ps = <<>>
  <2>1. b \o (s \o <<>>) = b \o s
    BY <1>9
  <2>2. MySQLOwn(c, b \o (s \o <<>>))
    BY <2>1
  <2>3. Own("mysql", c, b \o (s \o <<>>))
    BY <2>2 DEF Own
  <2>4. MySQL!Reads(c, b) = Waits(c, b, <<>>)
    BY <1>7, <1>10
  <2>5. QED
    BY <1>1, <2>3, <2>4, WaitsOwn
<1>11. CASE ps # <<>> /\ ts[1] = "ERR"
  <2>1. c.kind = "wrong" /\ j + k = N
    BY <1>2, <1>3, <1>6, <1>8, <1>11
  <2>2. MySQL!Reads(c, b) = Ends(Fails("error"), Rest(b))
    BY <1>7, <1>8, <1>11
  <2>3. Rest(b) \o s = <<>>
    <3>1. Pending(q, ts, N) = <<>>
      BY <1>1, <1>2, PendingEnds DEF N
    <3>2. QED
      BY <1>6, <2>1, <3>1
  <2> DEFINE o == Fails("error")
  <2>4. o.status = "error" /\ o.rows = 0 /\ o.of = {}
    BY DEF Fails, Outcome
  <2> HIDE DEF o
  <2>5. [status |-> o.status, rows |-> o.rows] = MySQL!Expected(c.kind, c.bound)
    BY <2>1, <2>4 DEF MySQL!Expected
  <2>6. Answered("mysql", c.q, [kind |-> c.kind, bound |-> c.bound], o)
    BY <2>4, <2>5 DEF Answered, ExpectedOf
  <2>7. KeepsOwn("mysql", c, Ends(o, Rest(b)), s)
    BY <1>9, <2>3, <2>6, EndsOwn
  <2>8. QED
    BY <2>2, <2>7 DEF o
<1>12. CASE ps # <<>> /\ ts[1] # "ERR"
  <2>1. ps[1].t = ts[1] /\ ts[1] \in {"prepareOK0", "prepareOK1"} /\ j + k > 0
    BY <1>2, <1>8, <1>12
  <2>2. MySQL!parsePrepareOK(ps[1]) = N
    BY <1>2, <2>1 DEF MySQL!parsePrepareOK
  <2>3. MySQL!Reads(c, b) =
          IF j + k < N THEN Waits([c EXCEPT !.got = ps], Rest(b), <<>>)
          ELSE [MySQL!readResponse(execute, Rest(b)) EXCEPT !.more = a]
    BY <1>7, <1>8, <1>12, <2>1, <2>2
  <2>4. CASE j + k < N
    <3> DEFINE d == [c EXCEPT !.got = ps]
    <3>1. /\ d.q = q /\ d.kind = c.kind /\ d.bound = c.bound /\ d.step = "prepare"
          /\ d.got = ps /\ d # NoCall
      BY DEF Callers, NoCall, Call, q
    <3> HIDE DEF d
    <3>2. Rest(b) \o (s \o <<>>) = Pending(q, ts, j + k)
      BY <1>6, <1>9
    <3>3. j + k \in 0..(N - 1)
      BY <1>2, <1>8, <2>4
    <3>4. Partly(d, Rest(b) \o (s \o <<>>), ts)
      BY <1>6, <3>1, <3>2, <3>3, Zenon DEF Partly, N
    <3>5. MySQLOwn(d, Rest(b) \o (s \o <<>>))
      BY <1>1, <3>1, <3>4 DEF MySQLOwn, ts
    <3>6. Own("mysql", d, Rest(b) \o (s \o <<>>))
      BY <3>5 DEF Own
    <3>7. MySQL!Reads(c, b) = Waits(d, Rest(b), <<>>)
      BY <2>3, <2>4 DEF d
    <3>8. QED
      BY <3>1, <3>6, <3>7, WaitsOwn
  <2>5. CASE ~(j + k < N)
    <3>1. j + k = N
      BY <1>2, <1>6, <1>8, <2>5
    <3>2. Rest(b) \o s = <<>>
      <4>1. Pending(q, ts, N) = <<>>
        BY <1>1, <1>2, PendingEnds DEF N
      <4>2. QED
        BY <1>6, <3>1, <4>1
    <3>3. Rest(b) = <<>> /\ s = <<>>
      <4>1. Rest(b) \in Seq(Pieces(n))
        BY RestHolds DEF Streams
      <4>2. /\ Len(Rest(b) \o s) = Len(Rest(b)) + Len(s)
            /\ Len(Rest(b)) \in Nat /\ Len(s) \in Nat
        BY <1>9, <4>1, JoinHolds
      <4>3. Len(Rest(b) \o s) = 0
        BY <3>2
      <4>4. Len(Rest(b)) = 0 /\ Len(s) = 0
        BY <4>2, <4>3
      <4>5. QED
        BY <1>9, <4>1, <4>4, EmptySeq
    <3>4. Messages(<<>>) = <<>>
      <4>1. <<>> \in Seq(Pieces(n)) /\ Len(<<>>) \div 2 = 0
        OBVIOUS
      <4>2. Messages(<<>>) \in Seq(Pieces(n)) /\ Len(Messages(<<>>)) = 0
        BY <4>1, MessagesHold
      <4>3. QED
        BY <4>2, EmptySeq
    <3>5. MySQL!readResponse(execute, <<>>) = Waits(execute, <<>>, <<>>)
      BY <3>4, MySQLResponseReads
    <3>6. MySQL!Reads(c, b) = [MySQL!readResponse(execute, Rest(b)) EXCEPT !.more = a]
      BY <2>3, <2>5
    <3>7. MySQL!Reads(c, b) = Waits(execute, <<>>, a)
      <4>1. MySQL!Reads(c, b) = [Waits(execute, <<>>, <<>>) EXCEPT !.more = a]
        BY <3>3, <3>5, <3>6, Zenon
      <4>2. QED
        BY <4>1, WaitsMore, Zenon
    <3>8. /\ execute.q = q /\ execute.kind = c.kind /\ execute.bound = c.bound
          /\ execute.step = "execute" /\ execute.got = <<>> /\ execute # NoCall
      BY DEF Callers, NoCall, Call, q, execute
    <3>9. a \in Streams(n)
      BY <1>1, MySQLAnswersPlain, AnswersHold DEF Streams, a
    <3>10. <<>> \o (s \o a) = a
      BY <3>3, <3>9, ConcatEmptySeq DEF Streams
    <3>11. MySQLOwn(execute, a)
      BY <1>1, <3>8 DEF MySQLOwn, Fresh, a
    <3>12. Own("mysql", execute, <<>> \o (s \o a))
      BY <3>10, <3>11 DEF Own
    <3>13. QED
      BY <3>7, <3>8, <3>12, WaitsOwn
  <2>6. QED
    BY <2>4, <2>5
<1>13. QED
  BY <1>10, <1>11, <1>12

LEMMA MySQLTurnOwn ==
  ASSUME NEW n \in Nat, NEW c \in Callers(n), NEW b \in Streams(n), NEW s \in Streams(n),
         MySQLOwn(c, b \o s), s # <<>> => ~MySQL!Torn(s[1])
  PROVE  KeepsOwn("mysql", c, MySQL!Reads(c, b), s)
<1>1. c.step \in {"handshake", "auth", "prepare", "query", "execute"}
  BY DEF MySQLOwn
<1>2. QED
  BY <1>1, MySQLConnectsOwn, MySQLPrepareOwn, MySQLResponseOwn

LEMMA MySQLRequestOwn ==
  ASSUME SessionInv, Owed, OwnAnswers, protocol = "mysql", NEW kind \in MySQL!Kinds,
         NEW bound \in BOOLEAN, bound => kind # "blank",
         NEW step, step = IF bound THEN "prepare" ELSE "query",
         NEW answer, answer = IF bound THEN MySQL!Prepared(kind) ELSE MySQL!Answer(kind),
         MySQL!Requests(kind, bound, step, answer), protocol' = protocol
  PROVE  Owed' /\ OwnAnswers'
<1> DEFINE n == Len(asked) + 1
           c == NextCall(kind, bound, step)
           turn == MySQL!Reads(c, buffer)
           a == Answers(n, answer)
<1>1. Asks(c, answer, turn)
  BY MySQLShares DEF MySQL!Requests
<1>2. kind \in CallKinds /\ step \in Steps \ {"none"}
  BY Zenon DEF MySQL!Kinds, CallKinds, Steps
<1>3. /\ n \in Nat /\ n \in 0..n /\ c \in Callers(n)
      /\ c.q = n /\ c.kind = kind /\ c.bound = bound /\ c.step = step /\ c.got = <<>>
  BY <1>2, NextCallIs
<1>4. answer \in Seq(Types) /\ answer # <<>>
  <2>1. CASE bound
    BY <2>1, MySQLPreparedTells
  <2>2. CASE ~bound
    BY <2>2, MySQLAnswersPlain
  <2>3. QED
    BY <2>1, <2>2
<1> HIDE DEF n, c, turn
<1>5. /\ a \in Streams(n) /\ a[1].i = 1
      /\ a = Pending(n, answer, 0) /\ Part(n, answer, 0) = <<>>
  <2>1. a \in Streams(n) /\ a[1].i = 1
    BY <1>3, <1>4, AnswerBegins
  <2>2. a = Pending(n, answer, 0) /\ Part(n, answer, 0) = <<>>
    BY <1>3, <1>4, PendingEnds
  <2>3. QED
    BY <2>1, <2>2
<1>6. ASSUME buffer = <<>>
      PROVE  KeepsOwn("mysql", c, turn, a)
  <2>1. buffer \in Streams(n)
    BY <1>6 DEF Streams
  <2>2. buffer \o a = a
    BY <1>5, <1>6, ConcatEmptySeq DEF Streams
  <2>3. 0 \in 0..(Len(answer) - 1)
    BY <1>4, EmptySeq
  <2>4. Partly(c, a, answer) /\ Fresh(c, a, answer)
    BY <1>3, <1>5, <2>3 DEF Partly, Fresh
  <2>5. MySQLOwn(c, a)
    BY <1>3, <2>4 DEF MySQLOwn
  <2>6. MySQLOwn(c, buffer \o a)
    BY <2>2, <2>5
  <2>7. ~MySQL!Torn(a[1])
    <3>1. ~(a[1].i > 1)
      BY <1>5
    <3>2. QED
      BY <3>1, Zenon DEF MySQL!Torn
  <2>8. QED
    BY <1>3, <1>5, <2>1, <2>6, <2>7, MySQLTurnOwn DEF turn
<1>7. QED
  BY <1>1, <1>3, <1>5, <1>6, AsksOwn DEF n

LEMMA MySQLChunkOwn ==
  ASSUME SessionInv, Owed, OwnAnswers, protocol = "mysql", MySQL!onData, protocol' = protocol
  PROVE  Owed' /\ OwnAnswers'
<1>1. PICK n \in 1..Len(net) :
        MySQL!Receives(n, MySQL!Reads(call, MySQL!Arrived(n)),
                       n < Len(net) /\ MySQL!Torn(net[n + 1]))
  BY DEF MySQL!onData
<1> DEFINE turn == MySQL!Reads(call, Arrived(n))
           torn == n < Len(net) /\ MySQL!Torn(net[n + 1])
<1>2. Receives(n, turn, torn)
  BY <1>1, MySQLShares
<1>3. torn \in BOOLEAN
  OBVIOUS
<1>4. ASSUME call # NoCall, Own(protocol, call, Arrived(n) \o Drop(net, n)),
             call.step # "none", Arrived(n) \in Streams(Len(asked)),
             Drop(net, n) \in Streams(Len(asked)), call \in Callers(Len(asked)),
             Len(asked) \in Nat,
             Drop(net, n) # <<>> => n < Len(net) /\ Drop(net, n)[1] = net[n + 1],
             ~torn
      PROVE  KeepsOwn(protocol, call, turn, Drop(net, n))
  <2>1. MySQLOwn(call, Arrived(n) \o Drop(net, n))
    BY <1>4 DEF Own
  <2>2. Drop(net, n) # <<>> => ~MySQL!Torn(Drop(net, n)[1])
    BY <1>4
  <2>3. QED
    BY <1>4, <2>1, <2>2, MySQLTurnOwn
<1> HIDE DEF turn, torn
<1>5. QED
  BY <1>2, <1>3, <1>4, ChunkOwn, Zenon

LEMMA MySQLConnectOwn ==
  ASSUME SessionInv, Owed, OwnAnswers, protocol = "mysql", MySQL!connect, protocol' = protocol
  PROVE  Owed' /\ OwnAnswers'
<1>1. PICK auth \in MySQL!Auths :
        MySQL!Connects(auth, "handshake", MySQL!Answers(0, MySQL!Greeting(auth)))
  BY DEF MySQL!connect
<1> DEFINE ts == MySQL!Greeting(auth)
           g == Answers(0, ts)
           c == Call(0, auth, FALSE, "handshake")
<1>2. Connects(auth, "handshake", g)
  BY <1>1, MySQLShares
<1>3. Len(asked) \in Nat /\ 0 \in 0..Len(asked)
  BY DEF SessionInv, Session, FieldTypes
<1>4. ts \in Seq(Types)
  BY MySQLAnswersPlain
<1>5. c.q = 0 /\ c.kind = auth /\ c.step = "handshake" /\ c.got = <<>>
  BY DEF Call
<1> HIDE DEF ts, c
<1>6. g \in Streams(Len(asked))
  BY <1>3, <1>4, AnswersHold DEF Streams
<1>7. MySQLOwn(c, g)
  BY <1>5 DEF MySQLOwn, Fresh, ts
<1>8. Own(protocol, c, g)
  BY <1>7 DEF Own
<1> HIDE DEF g
<1>9. QED
  BY <1>2, <1>6, <1>8, ConnectsOwn DEF c

LEMMA MySQLOwns ==
  ASSUME SessionInv, Owed, OwnAnswers, protocol = "mysql", MySQL!Next, protocol' = protocol
  PROVE  Owed' /\ OwnAnswers'
<1>1. CASE MySQL!connect
  BY <1>1, MySQLConnectOwn
<1>2. CASE MySQL!query
  <2>1. PICK kind \in MySQL!Kinds : MySQL!Requests(kind, FALSE, "query", MySQL!Answer(kind))
    BY <1>2 DEF MySQL!query
  <2>2. QED
    BY <2>1, MySQLRequestOwn
<1>3. CASE MySQL!executePrepared
  <2>1. PICK kind \in MySQL!Kinds \ {"blank"} :
          MySQL!Requests(kind, TRUE, "prepare", MySQL!Prepared(kind))
    BY <1>3 DEF MySQL!executePrepared
  <2>2. kind \in MySQL!Kinds /\ kind # "blank"
    OBVIOUS
  <2>3. QED
    BY <2>1, <2>2, MySQLRequestOwn
<1>4. CASE MySQL!onData
  BY <1>4, MySQLChunkOwn
<1>5. CASE MySQL!onError \/ MySQL!onClose \/ MySQL!close
  <2>1. Rejects("failed") \/ Rejects("gone")
    BY <1>5, MySQLShares DEF MySQL!onError, MySQL!onClose, MySQL!close
  <2>2. "failed" \in {"failed", "gone"} /\ "gone" \in {"failed", "gone"}
    OBVIOUS
  <2>3. QED
    BY <2>1, <2>2, RejectsOwn
<1>6. QED
  BY <1>1, <1>2, <1>3, <1>4, <1>5 DEF MySQL!Next

-----------------------------------------------------------------------------
(* Redis                                                                    *)

LEMMA RedisReplyTells ==
  ASSUME NEW kind
  PROVE  LET ts == Redis!Reply(kind)
         IN  /\ ts \in Seq(Types) /\ ts # <<>> /\ Len(ts) = Redis!Parts(ts[1])
             /\ ts[1] \in {"*", "$", "-", "*0", "+"}
             /\ ts[1] = "-" => kind = "fails"
             /\ kind = "rows" => ts[1] = "*" /\ Places(ts, "*") = {1}
             /\ kind = "value" => ts[1] = "$"
             /\ kind \notin {"rows", "pages", "value", "fails", "exec"} => ts[1] = "+"
<1> DEFINE ts == Redis!Reply(kind)
<1>1. /\ kind \in {"rows", "pages"} => ts = <<"*", "$", "body", "$", "body">>
      /\ kind = "value" => ts = <<"$", "body">>
      /\ kind = "fails" => ts = <<"-">>
      /\ kind = "exec" => ts = <<"*0">>
      /\ kind \notin {"rows", "pages", "value", "fails", "exec"} => ts = <<"+">>
  BY DEF Redis!Reply, Redis!Array
<1> HIDE DEF ts
<1>2. {"*", "$", "body", "-", "*0", "+"} \subseteq Types
  BY Zenon DEF Types
<1> HIDE DEF Types
<1>3. CASE kind \in {"rows", "pages"}
  <2>1. ts = <<"*", "$", "body", "$", "body">>
    BY <1>1, <1>3
  <2>2. Len(ts) = 5 /\ \A i \in 1..5 : ts[i] = "*" <=> i = 1
    BY <2>1
  <2>3. Places(ts, "*") = {1}
    BY <2>2 DEF Places
  <2>4. ts \in Seq(Types) /\ ts # <<>> /\ Len(ts) = Redis!Parts(ts[1]) /\ ts[1] = "*"
    BY <1>2, <2>1 DEF Redis!Parts
  <2>5. QED
    BY <1>3, <2>3, <2>4 DEF ts
<1>4. CASE kind = "value"
  <2>1. ts = <<"$", "body">>
    BY <1>1, <1>4
  <2>2. ts \in Seq(Types) /\ ts # <<>> /\ Len(ts) = Redis!Parts(ts[1]) /\ ts[1] = "$"
    BY <1>2, <2>1 DEF Redis!Parts
  <2>3. QED
    BY <1>4, <2>2 DEF ts
<1>5. CASE kind = "fails"
  <2>1. ts = <<"-">>
    BY <1>1, <1>5
  <2>2. ts \in Seq(Types) /\ ts # <<>> /\ Len(ts) = Redis!Parts(ts[1]) /\ ts[1] = "-"
    BY <1>2, <2>1 DEF Redis!Parts
  <2>3. QED
    BY <1>5, <2>2 DEF ts
<1>6. CASE kind = "exec"
  <2>1. ts = <<"*0">>
    BY <1>1, <1>6
  <2>2. ts \in Seq(Types) /\ ts # <<>> /\ Len(ts) = Redis!Parts(ts[1]) /\ ts[1] = "*0"
    BY <1>2, <2>1 DEF Redis!Parts
  <2>3. QED
    BY <1>6, <2>2 DEF ts
<1>7. CASE kind \notin {"rows", "pages", "value", "fails", "exec"}
  <2>1. ts = <<"+">>
    BY <1>1, <1>7
  <2>2. ts \in Seq(Types) /\ ts # <<>> /\ Len(ts) = Redis!Parts(ts[1]) /\ ts[1] = "+"
    BY <1>2, <2>1 DEF Redis!Parts
  <2>3. QED
    BY <1>7, <2>2 DEF ts
<1>8. QED
  BY <1>3, <1>4, <1>5, <1>6, <1>7

\* No cut is borne: a reply is there, or nothing of it.
RedisArrives(q, ts, b, s) ==
  \/ b = <<>> /\ s # <<>>
  \/ /\ s = <<>> /\ b # <<>> /\ InStep(b)
     /\ Messages(b) = Part(q, ts, Len(ts)) /\ Len(Messages(b)) = Len(ts)
     /\ Len(b) = 2 * Len(ts) /\ b[1].t = ts[1]

LEMMA RedisAllOrNothing ==
  ASSUME NEW n \in Nat, NEW q \in 0..n, NEW ts \in Seq(Types), ts # <<>>,
         NEW b \in Streams(n), NEW s \in Streams(n), b \o s = Answers(q, ts),
         s # <<>> => ~Redis!Torn(s[1])
  PROVE  RedisArrives(q, ts, b, s)
<1> DEFINE k == Len(b) \div 2
           ms == Messages(b)
           a == Answers(q, ts)
<1>1. b \o s = Pending(q, ts, 0) /\ Part(q, ts, 0) = <<>>
  BY PendingEnds
<1>2. Len(ts) \in Nat /\ Len(ts) # 0 /\ 0 \in 0..Len(ts)
  BY EmptySeq
<1>3. Arrives(q, ts, 0, b, s)
  BY <1>1, <1>2, AnswerArrives, Zenon
<1>4. /\ k \in Nat /\ Len(ms) = k /\ InStep(b) /\ Len(b) \in Nat
      /\ Part(q, ts, 0) \o ms = Part(q, ts, 0 + k)
      /\ s = <<>> => 0 + k = Len(ts) /\ Rest(b) = <<>>
      /\ s # <<>> => /\ 0 + k + 1 \in 1..Len(ts) /\ s[1].i = 0 + k + 1
                     /\ s[1].half = IF Rest(b) = <<>> THEN 1 ELSE 2
  BY <1>3, Zenon DEF Arrives, ComesNext
<1>5. ms \in Seq(Pieces(n)) /\ Len(Rest(b)) = Len(b) % 2
  BY MessagesHold, RestHolds DEF Streams
<1>6. <<>> \o ms = ms
  BY <1>5, ConcatEmptySeq
<1>7. a \in Streams(n) /\ Len(a) = 2 * Len(ts) /\ a[1].t = ts[1]
  BY AnswerBegins, AnswersHold
<1>8. \A l, m \in Nat : l \div 2 = m /\ l % 2 = 0 => l = 2 * m
  OBVIOUS
<1>9. Rest(b) = <<>> => Len(b) = 2 * k
  <2>1. Rest(b) = <<>> => Len(b) % 2 = 0
    <3>1. Len(<<>>) = 0
      OBVIOUS
    <3>2. QED
      BY <1>5, <3>1
  <2> DEFINE l == Len(b)
  <2>2. l \in Nat /\ k \in Nat /\ l \div 2 = k
    BY <1>4
  <2> HIDE DEF l, k
  <2>3. Rest(b) = <<>> => l % 2 = 0
    BY <2>1 DEF l
  <2>4. Rest(b) = <<>> => l = 2 * k
    BY <1>8, <2>2, <2>3
  <2>5. QED
    BY <2>4 DEF l
<1> HIDE DEF k, ms, a
<1>10. CASE s # <<>>
  <2>1. k = 0 /\ Rest(b) = <<>>
    BY <1>4, <1>10 DEF Redis!Torn
  <2>2. Len(b) = 0
    BY <1>9, <2>1
  <2>3. b = <<>>
    BY <2>2, EmptySeq DEF Streams
  <2>4. QED
    BY <1>10, <2>3 DEF RedisArrives
<1>11. CASE s = <<>>
  <2>1. k = Len(ts) /\ Len(b) = 2 * Len(ts)
    <3>1. 0 + k = Len(ts) /\ Rest(b) = <<>> /\ k \in Nat
      BY <1>4, <1>11, Zenon
    <3>2. 0 + k = k
      BY <3>1
    <3>3. k = Len(ts)
      BY <3>1, <3>2, Zenon
    <3>4. Len(b) = 2 * k
      BY <1>9, <3>1, Zenon
    <3>5. QED
      BY <3>3, <3>4, Zenon
  <2>2. ms = Part(q, ts, Len(ts))
    <3>1. 0 + k = Len(ts)
      BY <1>4, <1>11
    <3>2. QED
      BY <1>1, <1>4, <1>6, <3>1
  <2>3. b = a
    <3>1. b \o <<>> = b
      BY ConcatEmptySeq DEF Streams
    <3>2. QED
      BY <1>11, <3>1 DEF a
  <2>4. b # <<>> /\ b[1].t = ts[1]
    <3>1. Len(<<>>) = 0 /\ 2 * Len(ts) # 0
      BY <1>2
    <3>2. QED
      BY <1>7, <2>1, <2>3, <3>1
  <2>5. QED
    BY <1>4, <1>11, <2>1, <2>2, <2>4 DEF RedisArrives, ms
<1>12. QED
  BY <1>10, <1>11

LEMMA RedisTurnOwn ==
  ASSUME NEW n \in Nat, NEW c \in Callers(n), NEW b \in Streams(n), NEW s \in Streams(n),
         RedisOwn(c, b \o s), s # <<>> => ~Redis!Torn(s[1])
  PROVE  KeepsOwn("redis", c, Redis!Reads(c, b), s)
<1> DEFINE ts == Redis!Reply(c.kind)
           N == Len(ts)
           ms == Messages(b)
           q == c.q
           whole1 == Part(q, ts, N)
           v == [type |-> ts[1], ms |-> ms, n |-> Len(b)]
           seen == c.got \o ms
           next == [c EXCEPT !.step = "last", !.got = seen]
           a == Answers(q, ts)
           rows == Redis!Rows(v) + Count(c.got, "*")
<1>1. /\ b \o s = a /\ q \in 0..n /\ c.bound \in BOOLEAN
      /\ c.bound => c.kind \in {"rows", "fails"}
      /\ \/ c.step = "first" /\ c.got = <<>> /\ (q > 0 => c.bound)
         \/ /\ c.step = "last"
            /\ q > 0 => c.got = IF c.bound THEN whole1 ELSE <<>>
  BY DEF RedisOwn, Callers
<1>2. /\ ts \in Seq(Types) /\ ts # <<>> /\ N = Redis!Parts(ts[1])
      /\ ts[1] \in {"*", "$", "-", "*0", "+"}
      /\ ts[1] = "-" => c.kind = "fails"
      /\ c.kind = "rows" => ts[1] = "*" /\ Places(ts, "*") = {1}
      /\ c.kind = "value" => ts[1] = "$"
      /\ c.kind \notin {"rows", "pages", "value", "fails", "exec"} => ts[1] = "+"
  BY RedisReplyTells
<1>3. N \in Nat /\ N # 0
  BY <1>2, EmptySeq
<1> HIDE DEF ts, q
<1>4. RedisArrives(q, ts, b, s)
  BY <1>1, <1>2, RedisAllOrNothing
<1>5. c # NoCall
  BY <1>1 DEF NoCall, Call
<1> HIDE DEF N, ms, v, seen, a, rows
<1>6. CASE b = <<>>
  <2>1. Redis!Reads(c, b) = Waits(c, b, <<>>)
    BY <1>6, RedisReads
  <2>2. b \o (s \o <<>>) = b \o s
    BY ConcatEmptySeq DEF Streams
  <2>3. RedisOwn(c, b \o (s \o <<>>))
    BY <2>2
  <2>4. Own("redis", c, b \o (s \o <<>>))
    BY <2>3 DEF Own
  <2>5. QED
    BY <1>5, <2>1, <2>4, WaitsOwn
<1>7. CASE b # <<>>
  <2>1. /\ s = <<>> /\ InStep(b) /\ ms = whole1 /\ Len(ms) = N
        /\ Len(b) = 2 * N /\ b[1].t = ts[1]
    BY <1>4, <1>7 DEF RedisArrives, ms, N
  <2>2. Redis!readValue(b) = v
    <3>1. SubSeq(ms, 1, Len(ms)) = ms
      <4>1. ms \in Seq(Pieces(n))
        BY MessagesHold DEF Streams, ms
      <4>2. QED
        BY <4>1
    <3>2. Redis!readValue(b) = [type |-> b[1].t, ms |-> SubSeq(ms, 1, N), n |-> 2 * N]
      <4> DEFINE x == [type |-> b[1].t, ms |-> SubSeq(ms, 1, N), n |-> 2 * N]
                 y == [type |-> "short", ms |-> ms, n |-> Len(b)]
                 z == [type |-> "null", ms |-> ms, n |-> Len(b)]
      <4>1. Len(ms) >= N /\ ~(Len(ms) = N - 1) /\ Redis!Parts(b[1].t) = N
        BY <1>2, <1>3, <2>1
      <4>2. Redis!readValue(b) = CASE Len(ms) >= Redis!Parts(b[1].t) ->
                                        [type |-> b[1].t, ms |-> SubSeq(ms, 1, Redis!Parts(b[1].t)),
                                         n |-> 2 * Redis!Parts(b[1].t)]
                                   [] Len(ms) = Redis!Parts(b[1].t) - 1
                                        /\ Redis!Parts(b[1].t) > 1 -> y
                                   [] OTHER -> z
        BY RedisReadsValue, Zenon DEF ms
      <4>3. Redis!readValue(b) = CASE Len(ms) >= N -> x
                                   [] Len(ms) = N - 1 /\ N > 1 -> y
                                   [] OTHER -> z
        BY <4>1, <4>2, Zenon
      <4> HIDE DEF x, y, z
      <4>4. Redis!readValue(b) = x
        BY <4>1, <4>3
      <4>5. QED
        BY <4>4 DEF x
    <3>3. QED
      BY <2>1, <3>1, <3>2 DEF v
  <2>3. v.type = ts[1] /\ v.ms = ms /\ v.n = Len(b)
    BY DEF v
  <2>4. Drop(b, Len(b)) = <<>>
    BY DropAll DEF Streams
  <2>5. Redis!Reads(c, b) = Redis!Takes(c, v, <<>>)
    <3>1. Redis!Reads(c, b) =
            CASE v.type = "null" -> [Ends(Fails("error"), <<>>) EXCEPT !.lost = TRUE]
              [] v.type = "short" /\ c.step = "first" -> Astray(c)
              [] v.type = "short" -> [Ends(Fails("short"), <<>>) EXCEPT !.lost = TRUE]
              [] OTHER -> Redis!Takes(c, v, Drop(b, v.n))
      BY <1>7, <2>1, <2>2, RedisReads, Zenon
    <3>2. v.type # "null" /\ v.type # "short"
      BY <1>2, <2>3
    <3>3. Redis!Reads(c, b) = Redis!Takes(c, v, Drop(b, v.n))
      BY <3>1, <3>2, Zenon
    <3>4. QED
      BY <2>3, <2>4, <3>3
  <2>6. Redis!Takes(c, v, <<>>) =
          IF ts[1] = "-" /\ (q = 0 \/ c.kind \in {"exec", "discard"})
          THEN Ends(Outcome("error", 0, seen), <<>>)
          ELSE IF c.step = "first" THEN Waits(next, <<>>, a)
          ELSE Ends(Outcome("result", rows, seen), <<>>)
    BY <2>3, RedisTakes DEF ts, q, seen, a, rows
  <2>7. <<>> \o s = <<>> /\ s \in Seq(Pieces(n))
    BY <2>1 DEF Streams
  <2>8. CASE ts[1] = "-" /\ q = 0
    <3>1. ~(c.q > 0)
      BY <2>8 DEF q
    <3>2. KeepsOwn("redis", c, Ends(Outcome("error", 0, seen), <<>>), s)
      BY <2>7, <3>1, EndsOwn
    <3>3. QED
      BY <2>5, <2>6, <2>8, <3>2
  <2>9. ts[1] = "-" => c.kind \notin {"exec", "discard"}
    BY <1>2
  <2>10. CASE ~(ts[1] = "-" /\ q = 0) /\ c.step = "first"
    <3>1. seen = whole1
      <4>1. <<>> \o ms = ms
        BY MessagesHold, ConcatEmptySeq DEF Streams, ms
      <4>2. QED
        BY <1>1, <2>1, <2>10, <4>1 DEF seen
    <3>2. /\ next.q = q /\ next.kind = c.kind /\ next.bound = c.bound /\ next.step = "last"
          /\ next.got = seen /\ next # NoCall
      BY DEF Callers, NoCall, Call, q
    <3> HIDE DEF next
    <3>3. a \in Streams(n)
      BY <1>1, <1>2, AnswersHold DEF Streams, a
    <3>4. <<>> \o (s \o a) = a
      BY <2>1, <3>3, ConcatEmptySeq DEF Streams
    <3>5. RedisOwn(next, a)
      BY <1>1, <2>10, <3>1, <3>2 DEF RedisOwn, a, ts, N
    <3>6. Own("redis", next, <<>> \o (s \o a))
      BY <3>4, <3>5 DEF Own
    <3>7. Redis!Reads(c, b) = Waits(next, <<>>, a)
      BY <2>5, <2>6, <2>9, <2>10
    <3>8. QED
      BY <3>2, <3>6, <3>7, WaitsOwn
  <2>11. CASE ~(ts[1] = "-" /\ q = 0) /\ c.step # "first"
    <3> DEFINE o == Outcome("result", rows, seen)
    <3>1. Redis!Reads(c, b) = Ends(o, <<>>)
      BY <2>5, <2>6, <2>9, <2>11
    <3>2. ASSUME q > 0
          PROVE  Answered("redis", q, [kind |-> c.kind, bound |-> c.bound], o)
      <4>1. c.got = IF c.bound THEN whole1 ELSE <<>>
        BY <1>1, <2>11, <3>2
      <4>2. o.status = "result" /\ o.rows = rows
        BY DEF Outcome
      <4>3. o.of \subseteq {q}
        <5>1. /\ whole1 \in Seq(Pieces(n)) /\ Len(whole1) = N
              /\ \A i \in 1..N : whole1[i].q = q
          <6>1. whole1 \in Seq(Pieces(n))
            <7>1. N \in 0..Len(ts)
              BY <1>3 DEF N
            <7>2. QED
              BY <1>1, <1>2, <7>1, PartTyped DEF Streams
          <6>2. Len(whole1) = N /\ \A i \in 1..N : whole1[i] = Message(q, ts[i], i)
            BY <1>3, PartHolds
          <6>3. \A i : Message(q, ts[i], i).q = q
            BY DEF Message
          <6> HIDE DEF whole1
          <6>4. QED
            BY <6>1, <6>2, <6>3
        <5> HIDE DEF whole1
        <5>2. c.got \in Seq(Pieces(n)) /\ \A i \in 1..Len(c.got) : c.got[i].q = q
          BY <4>1, <5>1
        <5>3. OfCall(c.got, q) /\ OfCall(ms, q) /\ ms \in Seq(Pieces(n))
          BY <2>1, <5>1, <5>2 DEF OfCall
        <5>4. /\ Len(seen) = Len(c.got) + Len(ms) /\ seen \in Seq(Pieces(n))
              /\ Len(c.got) \in Nat /\ Len(ms) \in Nat
              /\ \A i \in 1..Len(c.got) : seen[i] = c.got[i]
              /\ \A i \in (Len(c.got) + 1)..(Len(c.got) + Len(ms)) :
                   seen[i] = ms[i - Len(c.got)]
          BY <5>2, <5>3, JoinHolds DEF seen
        <5>5. ASSUME NEW i \in 1..Len(seen)
              PROVE  seen[i].q = q
          <6>1. CASE i \in 1..Len(c.got)
            BY <5>2, <5>4, <6>1
          <6>2. CASE i \notin 1..Len(c.got)
            <7>1. /\ i \in (Len(c.got) + 1)..(Len(c.got) + Len(ms))
                  /\ i - Len(c.got) \in 1..Len(ms)
              BY <5>4, <6>2
            <7>2. QED
              BY <5>3, <5>4, <7>1 DEF OfCall
          <6>3. QED
            BY <6>1, <6>2
        <5>6. o.of = {seen[i].q : i \in DOMAIN seen} /\ DOMAIN seen = 1..Len(seen)
          BY <5>4 DEF Outcome
        <5> HIDE DEF o
        <5>7. QED
          BY <5>5, <5>6
      <4>4. Redis!Rows(v) = IF ts[1] \in {"*", "$"} THEN 1 ELSE 0
        BY <2>3 DEF Redis!Rows
      <4>5. ~c.bound => Count(c.got, "*") = 0
        <5>1. ASSUME c.got = <<>>
              PROVE  {i \in DOMAIN c.got : c.got[i].t = "*"} = {}
          BY <5>1
        <5>2. c.got = <<>> => Count(c.got, "*") = 0
          BY <5>1, FS_EmptySet DEF Count
        <5>3. QED
          BY <4>1, <5>2
      <4>6. c.kind = "rows" /\ c.bound => Count(c.got, "*") = 1
        <5>1. ASSUME c.kind = "rows", c.bound
              PROVE  Count(c.got, "*") = 1
          <6>1. Count(whole1, "*") = Cardinality(Places(ts, "*"))
            BY <1>2, CountsPlaces DEF N
          <6>2. Cardinality({1}) = 1
            BY FS_Singleton
          <6> HIDE DEF whole1
          <6>3. QED
            BY <1>2, <4>1, <5>1, <6>1, <6>2
        <5>2. QED
          BY <5>1
      <4>7. c.kind \notin Misread["redis"] =>
              [status |-> o.status, rows |-> o.rows] = Redis!Expected(c.kind, c.bound)
        <5>1. ASSUME c.kind \notin {"fails", "pages", "exec"}
              PROVE  rows = Redis!Expected(c.kind, c.bound).rows
                     /\ Redis!Expected(c.kind, c.bound).status = "result"
          <6>1. CASE c.kind = "rows" /\ c.bound
            <7>1. rows = 1 + 1
              BY <1>2, <4>4, <4>6, <6>1 DEF rows
            <7>2. QED
              BY <6>1, <7>1 DEF Redis!Expected
          <6>2. CASE c.kind = "rows" /\ ~c.bound
            <7>1. rows = 1 + 0
              BY <1>2, <4>4, <4>5, <6>2 DEF rows
            <7>2. QED
              BY <6>2, <7>1 DEF Redis!Expected
          <6>3. CASE c.kind = "value"
            <7>1. rows = 1 + 0
              BY <1>1, <1>2, <4>4, <4>5, <6>3 DEF rows
            <7>2. QED
              BY <6>3, <7>1 DEF Redis!Expected
          <6>4. CASE c.kind \notin {"rows", "value"}
            <7>1. ts[1] = "+" /\ ~c.bound
              BY <1>1, <1>2, <5>1, <6>4
            <7>2. rows = 0 + 0
              BY <4>4, <4>5, <7>1 DEF rows
            <7>3. QED
              BY <5>1, <6>4, <7>2 DEF Redis!Expected
          <6>5. QED
            BY <6>1, <6>2, <6>3, <6>4
        <5>2. Misread["redis"] = {"fails", "pages", "exec"}
          BY DEF Misread
        <5>3. ASSUME c.kind \notin {"fails", "pages", "exec"}
              PROVE  Redis!Expected(c.kind, c.bound) =
                       [status |-> "result", rows |-> Redis!Expected(c.kind, c.bound).rows]
          BY <5>3 DEF Redis!Expected
        <5> HIDE DEF o
        <5>4. QED
          BY <4>2, <5>1, <5>2, <5>3
      <4> HIDE DEF o
      <4>8. QED
        BY <4>3, <4>7 DEF Answered, ExpectedOf
    <3>3. c.q > 0 => Answered("redis", c.q, [kind |-> c.kind, bound |-> c.bound], o)
      BY <3>2 DEF q
    <3> HIDE DEF o
    <3>4. KeepsOwn("redis", c, Ends(o, <<>>), s)
      BY <2>7, <3>3, EndsOwn
    <3>5. QED
      BY <3>1, <3>4
  <2>12. QED
    BY <2>8, <2>10, <2>11
<1>8. QED
  BY <1>6, <1>7

LEMMA RedisRequestOwn ==
  ASSUME SessionInv, Owed, OwnAnswers, protocol = "redis", NEW kind \in CallKinds,
         NEW bound \in BOOLEAN, bound => kind \in {"rows", "fails"},
         NEW step, step = IF bound THEN "first" ELSE "last",
         NEW answer, answer = Redis!Reply(kind),
         Redis!Requests(kind, bound, step, answer), protocol' = protocol
  PROVE  Owed' /\ OwnAnswers'
<1> DEFINE n == Len(asked) + 1
           c == NextCall(kind, bound, step)
           turn == Redis!Reads(c, buffer)
           a == Answers(n, answer)
<1>1. Asks(c, answer, turn)
  BY RedisShares DEF Redis!Requests
<1>2. step \in Steps \ {"none"}
  BY Zenon DEF Steps
<1>3. /\ n \in Nat /\ n \in 0..n /\ c \in Callers(n)
      /\ c.q = n /\ c.kind = kind /\ c.bound = bound /\ c.step = step /\ c.got = <<>>
  BY <1>2, NextCallIs
<1>4. answer \in Seq(Types) /\ answer # <<>>
  BY RedisReplyTells
<1> HIDE DEF n, c, turn
<1>5. a \in Streams(n) /\ a[1].i = 1 /\ a[1].half = 1
  BY <1>3, <1>4, AnswerBegins
<1>6. ASSUME buffer = <<>>
      PROVE  KeepsOwn("redis", c, turn, a)
  <2>1. buffer \in Streams(n)
    BY <1>6 DEF Streams
  <2>2. buffer \o a = a
    BY <1>5, <1>6, ConcatEmptySeq DEF Streams
  <2>3. RedisOwn(c, a)
    BY <1>3 DEF RedisOwn
  <2>4. RedisOwn(c, buffer \o a)
    BY <2>2, <2>3
  <2>5. ~Redis!Torn(a[1])
    BY <1>5 DEF Redis!Torn
  <2>6. QED
    BY <1>3, <1>5, <2>1, <2>4, <2>5, RedisTurnOwn DEF turn
<1>7. QED
  BY <1>1, <1>3, <1>5, <1>6, AsksOwn DEF n

LEMMA RedisChunkOwn ==
  ASSUME SessionInv, Owed, OwnAnswers, protocol = "redis", Redis!onData, protocol' = protocol
  PROVE  Owed' /\ OwnAnswers'
<1>1. PICK n \in 1..Len(net) :
        Redis!Receives(n, Redis!Reads(call, Redis!Arrived(n)),
                       n < Len(net) /\ Redis!Torn(net[n + 1]))
  BY DEF Redis!onData
<1> DEFINE turn == Redis!Reads(call, Arrived(n))
           torn == n < Len(net) /\ Redis!Torn(net[n + 1])
<1>2. Receives(n, turn, torn)
  BY <1>1, RedisShares
<1>3. torn \in BOOLEAN
  OBVIOUS
<1>4. ASSUME call # NoCall, Own(protocol, call, Arrived(n) \o Drop(net, n)),
             call.step # "none", Arrived(n) \in Streams(Len(asked)),
             Drop(net, n) \in Streams(Len(asked)), call \in Callers(Len(asked)),
             Len(asked) \in Nat,
             Drop(net, n) # <<>> => n < Len(net) /\ Drop(net, n)[1] = net[n + 1],
             ~torn
      PROVE  KeepsOwn(protocol, call, turn, Drop(net, n))
  <2>1. RedisOwn(call, Arrived(n) \o Drop(net, n))
    BY <1>4 DEF Own
  <2>2. Drop(net, n) # <<>> => ~Redis!Torn(Drop(net, n)[1])
    BY <1>4
  <2>3. QED
    BY <1>4, <2>1, <2>2, RedisTurnOwn
<1> HIDE DEF turn, torn
<1>5. QED
  BY <1>2, <1>3, <1>4, ChunkOwn, Zenon

\* connect() sends up to two commands, or is ready at once.
LEMMA RedisConnectOwn ==
  ASSUME SessionInv, Owed, OwnAnswers, protocol = "redis", Redis!connect, protocol' = protocol
  PROVE  Owed' /\ OwnAnswers'
<1>1. \/ \E kind \in {"fails", "done"}, step \in {"first", "last"} :
           Redis!Connects(kind, step, Redis!Answers(0, Redis!Reply(kind)))
      \/ /\ state = "new" /\ state' = "ready" /\ socket' = "up"
         /\ UNCHANGED <<net, buffer, call, asked, told, txn, whole, lost>>
  <2>1. ASSUME NEW auth, NEW kind, kind = IF auth = "denied" THEN "fails" ELSE "done",
               NEW step, step = IF auth = "auth, select" THEN "first" ELSE "last",
               Redis!Connects(kind, step, Redis!Answers(0, Redis!Reply(kind)))
        PROVE  \E kk \in {"fails", "done"}, ss \in {"first", "last"} :
                 Redis!Connects(kk, ss, Redis!Answers(0, Redis!Reply(kk)))
    <3>1. kind \in {"fails", "done"} /\ step \in {"first", "last"}
      BY <2>1, Zenon
    <3>2. QED
      BY <2>1, <3>1, Zenon
  <2>2. QED
    BY <2>1, Zenon DEF Redis!connect
<1>2. CASE \E kind \in {"fails", "done"}, step \in {"first", "last"} :
             Redis!Connects(kind, step, Redis!Answers(0, Redis!Reply(kind)))
  <2>1. PICK kind \in {"fails", "done"}, step \in {"first", "last"} :
          Redis!Connects(kind, step, Redis!Answers(0, Redis!Reply(kind)))
    BY <1>2
  <2> DEFINE ts == Redis!Reply(kind)
             g == Answers(0, ts)
             c == Call(0, kind, FALSE, step)
  <2>2. Connects(kind, step, g)
    BY <2>1, RedisShares
  <2>3. Len(asked) \in Nat /\ 0 \in 0..Len(asked)
    BY DEF SessionInv, Session, FieldTypes
  <2>4. ts \in Seq(Types)
    BY RedisReplyTells
  <2>5. c.q = 0 /\ c.kind = kind /\ c.step = step /\ c.got = <<>> /\ ~c.bound
    BY DEF Call
  <2> HIDE DEF ts, c
  <2>6. g \in Streams(Len(asked))
    BY <2>3, <2>4, AnswersHold DEF Streams
  <2>7. RedisOwn(c, g)
    BY <2>5 DEF RedisOwn, ts
  <2>8. Own(protocol, c, g)
    BY <2>7 DEF Own
  <2> HIDE DEF g
  <2>9. QED
    BY <2>2, <2>6, <2>8, ConnectsOwn DEF c
<1>3. CASE /\ state = "new" /\ state' = "ready" /\ socket' = "up"
           /\ UNCHANGED <<net, buffer, call, asked, told, txn, whole, lost>>
  BY <1>3, ReadyOwn
<1>4. QED
  BY <1>1, <1>2, <1>3

\* What is asked for is added at the end of what was.
LEMMA AskedOn ==
  ASSUME SessionInv, call = NoCall, NEW a, asked' = Append(asked, a)
  PROVE  told \in Seq(Outcomes(Len(asked))) /\ \A i \in DOMAIN told : asked'[i] = asked[i]
<1>1. told \in Seq(Outcomes(Len(asked))) /\ asked \in Seq(Requested) /\ Len(asked) \in Nat
  BY DEF SessionInv, Session, FieldTypes
<1>2. NoCall.q = 0
  BY DEF NoCall, Call
<1>3. Len(told) = Len(asked)
  BY <1>1, <1>2 DEF SessionInv, Session, ToldInOrder
<1>4. QED
  BY <1>1, <1>3

LEMMA RedisQueuedOwn ==
  ASSUME SessionInv, Owed, OwnAnswers, protocol = "redis", Redis!queued, protocol' = protocol
  PROVE  Owed' /\ OwnAnswers'
<1>1. PICK kind \in Redis!Kinds : asked' = Append(asked, [kind |-> kind, bound |-> FALSE])
  BY DEF Redis!queued
<1>2. /\ call = NoCall /\ told' = Append(told, Fails("queued"))
      /\ UNCHANGED <<state, socket, net, buffer, call, whole, lost>>
  BY RedisShares DEF Redis!queued
<1> DEFINE a == [kind |-> kind, bound |-> FALSE]
<1>3. asked' = Append(asked, a)
  BY <1>1
<1> HIDE DEF a
<1>4. told \in Seq(Outcomes(Len(asked))) /\ \A i \in DOMAIN told : asked'[i] = asked[i]
  BY <1>2, <1>3, AskedOn
<1>5. Owed'
  BY <1>2 DEF Owed
<1>6. OwnAnswers'
  BY <1>2, <1>4, OneMoreTold
<1>7. QED
  BY <1>5, <1>6

LEMMA RedisWaitingExecOwn ==
  ASSUME SessionInv, Owed, OwnAnswers, protocol = "redis", Redis!exec, socket = "failed",
         protocol' = protocol
  PROVE  Owed' /\ OwnAnswers'
<1> DEFINE a == [kind |-> "exec", bound |-> FALSE]
<1>1. /\ call = NoCall /\ asked' = Append(asked, a)
      /\ UNCHANGED <<state, socket, net, buffer, told, whole, lost>>
  BY RedisShares DEF Redis!exec
<1> HIDE DEF a
<1>2. \A i \in DOMAIN told : asked'[i] = asked[i]
  BY <1>1, AskedOn
<1>3. Owed'
  BY <1>1 DEF Owed
<1>4. OwnAnswers'
  BY <1>1, <1>2, ToldOn
<1>5. QED
  BY <1>3, <1>4

LEMMA RedisOwns ==
  ASSUME SessionInv, Owed, OwnAnswers, protocol = "redis", Redis!Next, protocol' = protocol
  PROVE  Owed' /\ OwnAnswers'
<1>1. Redis!Kinds \subseteq CallKinds /\ {"multi", "exec", "discard"} \subseteq CallKinds
      /\ {"rows", "fails"} \subseteq CallKinds
  BY DEF Redis!Kinds, CallKinds
<1>2. CASE Redis!sendCommand
  <2>1. PICK kind \in Redis!Kinds : Redis!Requests(kind, FALSE, "last", Redis!Reply(kind))
    BY <1>2 DEF Redis!sendCommand
  <2>2. QED
    BY <1>1, <2>1, RedisRequestOwn
<1>3. CASE Redis!executePipeline
  <2>1. PICK kind \in {"rows", "fails"} : Redis!Requests(kind, TRUE, "first", Redis!Reply(kind))
    BY <1>3 DEF Redis!executePipeline
  <2>2. QED
    BY <1>1, <2>1, RedisRequestOwn
<1>4. CASE Redis!multi \/ Redis!discard
  <2>1. PICK kind \in {"multi", "discard"} :
          Redis!Requests(kind, FALSE, "last", Redis!Reply("done"))
    BY <1>4 DEF Redis!multi, Redis!discard
  <2>2. Redis!Reply("done") = Redis!Reply(kind)
    BY DEF Redis!Reply
  <2>3. QED
    BY <1>1, <2>1, <2>2, RedisRequestOwn
<1>5. CASE Redis!exec
  <2>1. CASE socket = "failed"
    BY <1>5, <2>1, RedisWaitingExecOwn
  <2>2. CASE socket # "failed"
    <3>1. Redis!Requests("exec", FALSE, "last", Redis!Reply("exec"))
      BY <1>5, <2>2 DEF Redis!exec
    <3>2. QED
      BY <1>1, <3>1, RedisRequestOwn
  <2>3. QED
    BY <2>1, <2>2
<1>6. CASE Redis!connect \/ Redis!queued \/ Redis!onData
  BY <1>6, RedisConnectOwn, RedisQueuedOwn, RedisChunkOwn
<1>7. CASE Redis!onError \/ Redis!onClose \/ Redis!close
  <2>1. Rejects("failed") \/ Rejects("gone")
    BY <1>7, RedisShares DEF Redis!onError, Redis!onClose, Redis!close
  <2>2. "failed" \in {"failed", "gone"} /\ "gone" \in {"failed", "gone"}
    OBVIOUS
  <2>3. QED
    BY <2>1, <2>2, RejectsOwn
<1>8. QED
  BY <1>2, <1>3, <1>4, <1>5, <1>6, <1>7 DEF Redis!Next

-----------------------------------------------------------------------------
(* MongoDB                                                                  *)

OutcomesAreOf(ms, q) ==
  \A status, rows : /\ Outcome(status, rows, ms).status = status
                    /\ Outcome(status, rows, ms).rows = rows
                    /\ Outcome(status, rows, ms).of \subseteq {q}

LEMMA OfReply == \A q, ts : OutcomesAreOf(Part(q, ts, 2), q)
<1>1. 2 \in Nat
  OBVIOUS
<1>2. QED
  BY <1>1, OfPart DEF OutcomesAreOf

LEMMA SecondIs ==
  ASSUME NEW S, NEW g \in Seq(S), NEW m \in S
  PROVE  Len(g) = 1 => /\ Append(g, m) \in Seq(S) /\ Len(Append(g, m)) = 2
                       /\ Append(g, m)[1] = g[1] /\ Append(g, m)[2] = m
<1> DEFINE r == Append(g, m)
<1>1. /\ r \in Seq(S) /\ Len(r) = Len(g) + 1
      /\ \A i \in 1..Len(g) : r[i] = g[i]
      /\ r[Len(g) + 1] = m
  OBVIOUS
<1> HIDE DEF r
<1>2. Len(g) = 1 => /\ r \in Seq(S) /\ Len(r) = 2
                    /\ r[1] = g[1] /\ r[2] = m
  BY <1>1
<1>3. QED
  BY <1>2 DEF r

\* What the body of the reply to a command says of it.
BodyTells(kind, t) ==
  /\ t = "fails" => kind \in {"fails", "commitTransaction", "abortTransaction"}
  /\ kind = "fails" => t = "fails"
  /\ kind = "rows" => t = "rows"
  /\ t \in {"rows", "pages"} => kind \in {"rows", "pages"}

\* A reply is a header that cannot be, or a header and a body.
LEMMA MongoReplyTells ==
  ASSUME NEW kind
  PROVE  LET ts == Mongo!Reply(kind)
         IN  /\ ts \in Seq(Types) /\ ts # <<>> /\ Len(ts) \in {1, 2}
             /\ Len(ts) = 1 <=> kind = "invalid"
             /\ Len(ts) = 1 <=> ts[1] = "bad header"
             /\ Len(ts) = 2 => BodyTells(kind, ts[2])
<1> DEFINE ts == Mongo!Reply(kind)
           bad == "bad header"
<1>1. /\ kind = "invalid" => ts = <<bad>>
      /\ kind # "invalid" => ts = <<"header", IF kind \in {"rows", "pages", "done", "fails"}
                                               THEN kind ELSE "done">>
  BY Zenon DEF Mongo!Reply
<1>2. {bad, "header", "rows", "pages", "done", "fails"} \subseteq Types /\ bad # "header"
  BY Zenon DEF Types
<1> HIDE DEF ts, bad, Types
<1>3. CASE kind = "invalid"
  <2>1. ts = <<bad>>
    BY <1>1, <1>3
  <2>2. ts \in Seq(Types) /\ ts # <<>> /\ Len(ts) = 1 /\ ts[1] = bad
    BY <1>2, <2>1
  <2>3. /\ ts \in Seq(Types) /\ ts # <<>> /\ Len(ts) \in {1, 2}
        /\ Len(ts) = 1 <=> kind = "invalid"
        /\ Len(ts) = 1 <=> ts[1] = bad
        /\ Len(ts) = 2 => BodyTells(kind, ts[2])
    BY <1>3, <2>2
  <2>4. QED
    BY <2>3, Zenon DEF ts, bad
<1>4. CASE kind # "invalid"
  <2> DEFINE body == IF kind \in {"rows", "pages", "done", "fails"} THEN kind ELSE "done"
  <2>1. body \in Types /\ BodyTells(kind, body)
    BY <1>2 DEF BodyTells
  <2>2. ts = <<"header", body>>
    BY <1>1, <1>4
  <2> HIDE DEF body
  <2>3. /\ ts \in Seq(Types) /\ ts # <<>> /\ Len(ts) = 2 /\ ts[1] # bad /\ ts[2] = body
    BY <1>2, <2>1, <2>2
  <2>4. BodyTells(kind, ts[2])
    BY <2>1, <2>3
  <2>5. /\ ts \in Seq(Types) /\ ts # <<>> /\ Len(ts) \in {1, 2}
        /\ Len(ts) = 1 <=> kind = "invalid"
        /\ Len(ts) = 1 <=> ts[1] = bad
        /\ Len(ts) = 2 => BodyTells(kind, ts[2])
    BY <1>4, <2>3, <2>4
  <2>6. QED
    BY <2>5, Zenon DEF ts, bad
<1>5. QED
  BY <1>3, <1>4

\* A call that has read nothing of its reply.
LEMMA MongoAwaits ==
  ASSUME NEW n \in Nat, NEW c, c.q \in 0..n, c.got = <<>>,
         c.step \in {"saslStart", "saslContinue"} => c.q = 0
  PROVE  MongoOwn(c, Answers(c.q, Due(c)))
<1> DEFINE ts == Due(c)
           q == c.q
<1>1. \E kind : ts = Mongo!Reply(kind)
  BY Zenon DEF Due
<1>2. ts \in Seq(Types) /\ ts # <<>>
  BY <1>1, MongoReplyTells, Zenon
<1> HIDE DEF ts, q
<1>3. q \in 0..n
  BY DEF q
<1>4. Pending(q, ts, 0) = Answers(q, ts) /\ Part(q, ts, 0) = <<>>
  BY <1>2, <1>3, PendingEnds
<1>5. 0 \in 0..(Len(ts) - 1)
  <2>1. Len(ts) \in Nat /\ Len(ts) # 0
    BY <1>2, EmptySeq
  <2>2. QED
    BY <2>1
<1>6. Partly(c, Answers(q, ts), ts)
  BY <1>4, <1>5, Zenon DEF Partly, q
<1>7. QED
  BY <1>6 DEF MongoOwn, ts, q

\* What a call that has read the header makes of the body; d is the call before it
\* has read that.
LEMMA MongoBodyOwn ==
  ASSUME NEW n \in Nat, NEW c \in Callers(n), c.step # "none",
         NEW ts \in Seq(Types), Len(ts) = 2, ts = Due(c), c.got = Part(c.q, ts, 1),
         c.step \in {"saslStart", "saslContinue"} => c.q = 0,
         c.q > 0 => BodyTells(c.kind, ts[2]) /\ c.kind # "invalid",
         NEW d, d.q = c.q, d.kind = c.kind, d.bound = c.bound,
         NEW b \in Streams(n), NEW s \in Streams(n), b \o s = Pending(c.q, ts, 1)
  PROVE  KeepsOwn("mongodb", d, Mongo!readBody(c, b), s)
<1> DEFINE turn == Mongo!readBody(c, b)
           q == c.q
           m == Message(q, ts[2], 2)
           seen == Part(q, ts, 2)
           more == Answers(0, Mongo!Reply(IF c.kind = "denied" THEN "fails" ELSE "done"))
<1>1. q \in 0..n /\ c.kind \in CallKinds /\ c.got \in Streams(n)
  BY DEF Callers
<1>2. turn = IF Len(b) < 2 THEN Waits(c, b, <<>>) ELSE Mongo!Replies(c, b[2], Drop(b, 2))
  BY MongoReadBody
<1>3. c # NoCall
  BY DEF NoCall, Call
<1> HIDE DEF turn, q, more
<1>4. b \o s = Pending(q, ts, 1) /\ c.got = Part(q, ts, 1)
  BY DEF q
<1>5. CASE Len(b) < 2
  <2>1. b \o (s \o <<>>) = b \o s
    BY ConcatEmptySeq DEF Streams
  <2>2. 1 \in 0..(Len(ts) - 1)
    OBVIOUS
  <2>3. Partly(c, b \o s, ts)
    BY <1>4, <2>2, Zenon DEF Partly, q
  <2>4. Own("mongodb", c, b \o (s \o <<>>))
    BY <2>1, <2>3 DEF Own, MongoOwn
  <2>5. KeepsOwn("mongodb", d, Waits(c, b, <<>>), s)
    BY <1>3, <2>4, WaitsOwn
  <2>6. QED
    BY <1>2, <1>5, <2>5 DEF turn
<1>6. CASE ~(Len(b) < 2)
  <2>1. /\ Len(b) = 2 /\ s = <<>> /\ b[2] = m
    <3>1. 1 \in 0..Len(ts) /\ Arrives(q, ts, 1, b, s)
      <4>1. 1 \in 0..Len(ts)
        OBVIOUS
      <4>2. Arrives(q, ts, 1, b, s)
        BY <1>1, <1>4, <4>1, AnswerArrives, Zenon
      <4>3. QED
        BY <4>1, <4>2
    <3>2. /\ Len(b) \in Nat /\ 1 + (Len(b) \div 2) \in 0..Len(ts)
          /\ Len(Messages(b)) = Len(b) \div 2
          /\ \A i \in 1..(Len(b) \div 2) : Messages(b)[i] = Message(q, ts[i + 1], i + 1)
      BY <3>1, Zenon DEF Arrives
    <3>3. /\ Len(b) + Len(s) = 2 * Len(ts) - 2 * 1 /\ Len(s) \in Nat
      <4>1. Len(b \o s) = Len(b) + Len(s) /\ Len(s) \in Nat
        BY JoinHolds DEF Streams
      <4>2. Len(Pending(q, ts, 1)) = 2 * Len(ts) - 2 * 1
        BY <1>1, <3>1, PendingHolds
      <4>3. QED
        BY <1>4, <4>1, <4>2
    <3>4. Len(b) = 2 /\ Len(s) = 0
      BY <1>6, <3>2, <3>3
    <3>5. 1 \in 1..(Len(b) \div 2) /\ 1 + 1 = 2 /\ 2 * 1 = 2
      BY <3>4
    <3>6. Messages(b)[1] = m
      BY <3>2, <3>5
    <3>7. Messages(b)[1] = b[2]
      BY <3>5 DEF Messages
    <3>8. s = <<>>
      BY <3>4, EmptySeq DEF Streams
    <3>9. QED
      BY <3>4, <3>6, <3>7, <3>8
  <2>2. Drop(b, 2) = <<>>
    <3>1. Drop(b, Len(b)) = <<>>
      BY DropAll DEF Streams
    <3>2. QED
      BY <2>1, <3>1
  <2>3. Append(c.got, m) = seen
    <3>1. 1 \in 0..Len(ts) /\ 2 \in 0..Len(ts)
      OBVIOUS
    <3> DEFINE g == Part(q, ts, 1)
    <3>2. g \in Seq(Pieces(n)) /\ seen \in Seq(Pieces(n))
      BY <1>1, <3>1, PartTyped DEF Streams
    <3>3. /\ Len(g) = 1 /\ g[1] = Message(q, ts[1], 1)
          /\ Len(seen) = 2 /\ seen[1] = Message(q, ts[1], 1) /\ seen[2] = m
      BY PartStarts, Zenon
    <3> HIDE DEF g, seen, m
    <3>4. m \in Pieces(n)
      <4>1. Len(seen) = 2 /\ seen[2] = m /\ seen \in Seq(Pieces(n))
        BY <3>2, <3>3, Zenon
      <4>2. \A S : seen \in Seq(S) => seen[2] \in S
        <5>1. 2 \in 1..Len(seen)
          BY <4>1
        <5>2. QED
          BY <5>1
      <4>3. QED
        BY <4>1, <4>2, Zenon
    <3>5. /\ Append(g, m) \in Seq(Pieces(n)) /\ Len(Append(g, m)) = 2
          /\ Append(g, m)[1] = g[1] /\ Append(g, m)[2] = m
      <4>1. g \in Seq(Pieces(n)) /\ Len(g) = 1
        BY <3>2, <3>3, Zenon
      <4>2. QED
        BY <3>4, <4>1, SecondIs
    <3>6. \A i \in 1..Len(Append(g, m)) : Append(g, m)[i] = seen[i]
      BY <3>3, <3>5
    <3>7. Append(g, m) = seen
      BY <3>2, <3>3, <3>5, <3>6, SeqEqual
    <3>8. QED
      BY <1>4, <3>7 DEF g
  <2>4. m.t = ts[2]
    BY DEF Message
  <2> DEFINE next == [c EXCEPT !.step = "saslContinue", !.got = <<>>]
  <2>5. turn = IF ts[2] = "fails" THEN Ends(Outcome("error", 0, seen), <<>>)
               ELSE IF c.step = "saslStart" THEN Waits(next, <<>>, more)
               ELSE IF c.step = "saslContinue" /\ c.kind = "impostor"
               THEN Ends(Fails("error"), <<>>)
               ELSE Ends(Outcome("result", Mongo!Rows(m), seen), <<>>)
    <3>1. turn = Mongo!Replies(c, m, <<>>)
      BY <1>2, <1>6, <2>1, <2>2
    <3> HIDE DEF m, seen
    <3>2. Mongo!Replies(c, m, <<>>) =
            IF m.t = "fails" THEN Ends(Outcome("error", 0, Append(c.got, m)), <<>>)
            ELSE IF c.step = "saslStart" THEN Waits(next, <<>>, more)
            ELSE IF c.step = "saslContinue" /\ c.kind = "impostor"
            THEN Ends(Fails("error"), <<>>)
            ELSE Ends(Outcome("result", Mongo!Rows(m), Append(c.got, m)), <<>>)
      BY MongoReplies, Zenon DEF more
    <3>3. QED
      BY <2>3, <2>4, <3>1, <3>2, Zenon
  <2>6. <<>> \o s = <<>> /\ s \in Seq(Pieces(n))
    BY <2>1 DEF Streams
  <2>7. ASSUME NEW o, d.q > 0 => Answered("mongodb", d.q, [kind |-> d.kind, bound |-> d.bound], o)
        PROVE  KeepsOwn("mongodb", d, Ends(o, <<>>), s)
    BY <2>6, <2>7, EndsOwn
  <2>8. OutcomesAreOf(seen, q)
    BY OfReply
  <2>9. Misread["mongodb"] = {"pages", "rejects", "commitTransaction", "abortTransaction"}
    BY DEF Misread
  <2> HIDE DEF seen, next, m
  <2>10. CASE ts[2] = "fails"
    <3> DEFINE o == Outcome("error", 0, seen)
    <3>1. o.status = "error" /\ o.rows = 0 /\ o.of \subseteq {q}
      BY <2>8 DEF OutcomesAreOf
    <3> HIDE DEF o
    <3>2. ASSUME d.q > 0
          PROVE  Answered("mongodb", d.q, [kind |-> d.kind, bound |-> d.bound], o)
      <4>1. c.kind \in {"fails", "commitTransaction", "abortTransaction"}
        BY <2>10, <3>2 DEF BodyTells
      <4>2. c.kind \notin Misread["mongodb"] =>
              [status |-> o.status, rows |-> o.rows] = Mongo!Expected(c.kind, c.bound)
        BY <2>9, <3>1, <4>1 DEF Mongo!Expected
      <4>3. QED
        BY <3>1, <4>2 DEF Answered, ExpectedOf, q
    <3>3. KeepsOwn("mongodb", d, Ends(o, <<>>), s)
      BY <2>7, <3>2
    <3>4. QED
      BY <2>5, <2>10, <3>3 DEF o, turn
  <2>11. CASE ts[2] # "fails" /\ c.step = "saslStart"
    <3>1. /\ next.q = 0 /\ next.kind = c.kind /\ next.step = "saslContinue"
          /\ next.got = <<>> /\ next # NoCall
      BY <2>11 DEF next, Callers, NoCall, Call
    <3>2. Due(next) = Mongo!Reply(IF c.kind = "denied" THEN "fails" ELSE "done")
      BY <3>1, Zenon DEF Due
    <3>3. MongoOwn(next, more)
      <4>1. 0 \in 0..n /\ next.q \in 0..n
        BY <1>1, <3>1
      <4>2. MongoOwn(next, Answers(next.q, Due(next)))
        BY <3>1, <4>1, MongoAwaits
      <4>3. QED
        BY <3>1, <3>2, <4>2, Zenon DEF more
    <3>4. <<>> \o (s \o more) = more
      <4>1. more \in Seq(Pieces(n))
        <5>1. 0 \in 0..n
          OBVIOUS
        <5>2. more \in Streams(n)
          BY <5>1, MongoReplyFits, Zenon DEF more
        <5>3. QED
          BY <5>2 DEF Streams
      <4>2. <<>> \o more = more
        BY <4>1, ConcatEmptySeq
      <4>3. QED
        BY <2>1, <4>2
    <3>5. Own("mongodb", next, <<>> \o (s \o more))
      BY <3>3, <3>4 DEF Own
    <3>6. KeepsOwn("mongodb", d, Waits(next, <<>>, more), s)
      BY <3>1, <3>5, WaitsOwn
    <3>7. QED
      BY <2>5, <2>11, <3>6 DEF turn
  <2>12. CASE ts[2] # "fails" /\ c.step = "saslContinue" /\ c.kind = "impostor"
    <3>1. ~(d.q > 0)
      BY <2>12
    <3>2. KeepsOwn("mongodb", d, Ends(Fails("error"), <<>>), s)
      BY <2>7, <3>1
    <3>3. QED
      BY <2>5, <2>12, <3>2 DEF turn
  <2>13. CASE /\ ts[2] # "fails" /\ c.step # "saslStart"
              /\ ~(c.step = "saslContinue" /\ c.kind = "impostor")
    <3> DEFINE rows == Mongo!Rows(m)
               o == Outcome("result", rows, seen)
    <3>1. rows = IF ts[2] \in {"rows", "pages"} THEN 1 ELSE 0
      BY <2>4 DEF Mongo!Rows
    <3> HIDE DEF rows
    <3>2. o.status = "result" /\ o.rows = rows /\ o.of \subseteq {q}
      BY <2>8 DEF OutcomesAreOf
    <3> HIDE DEF o
    <3>3. ASSUME d.q > 0
          PROVE  Answered("mongodb", d.q, [kind |-> d.kind, bound |-> d.bound], o)
      <4>1. BodyTells(c.kind, ts[2]) /\ c.kind # "invalid"
        BY <3>3
      <4>2. ASSUME c.kind \notin {"pages", "rejects", "commitTransaction", "abortTransaction"}
            PROVE  [status |-> "result", rows |-> rows] = Mongo!Expected(c.kind, c.bound)
        <5>1. CASE c.kind = "rows"
          <6>1. rows = 1
            BY <3>1, <4>1, <5>1 DEF BodyTells
          <6>2. QED
            BY <5>1, <6>1 DEF Mongo!Expected
        <5>2. CASE c.kind # "rows"
          <6>1. rows = 0 /\ c.kind # "fails"
            BY <2>13, <3>1, <4>1, <4>2, <5>2 DEF BodyTells
          <6>2. QED
            BY <4>1, <4>2, <5>2, <6>1 DEF Mongo!Expected
        <5>3. QED
          BY <5>1, <5>2
      <4>3. c.kind \notin Misread["mongodb"] =>
              [status |-> o.status, rows |-> o.rows] = Mongo!Expected(c.kind, c.bound)
        BY <2>9, <3>2, <4>2
      <4>4. QED
        BY <3>2, <4>3 DEF Answered, ExpectedOf, q
    <3>4. KeepsOwn("mongodb", d, Ends(o, <<>>), s)
      BY <2>7, <3>3
    <3>5. QED
      BY <2>5, <2>13, <3>4 DEF o, rows, turn
  <2>14. QED
    BY <2>10, <2>11, <2>12, <2>13
<1>7. QED
  BY <1>5, <1>6

\* The first half of MongoBodyOwn's premises: how a reply has been read so far.
LEMMA MongoHasRead ==
  ASSUME NEW n \in Nat, NEW c \in Callers(n), NEW w, MongoOwn(c, w)
  PROVE  \E ts \in Seq(Types) :
           /\ ts = Due(c) /\ Len(ts) \in {1, 2}
           /\ Len(ts) = 1 <=> ts[1] = "bad header"
           /\ c.q > 0 => (Len(ts) = 1 <=> c.kind = "invalid")
           /\ c.q > 0 /\ Len(ts) = 2 => BodyTells(c.kind, ts[2])
           /\ \/ c.got = <<>> /\ w = Pending(c.q, ts, 0)
              \/ c.got = Part(c.q, ts, 1) /\ w = Pending(c.q, ts, 1) /\ Len(ts) = 2
<1> DEFINE ts == Due(c)
           bad == "bad header"
           kind == IF c.kind \in {"commitTransaction", "abortTransaction"} THEN "fails" ELSE c.kind
<1>1. \E k : ts = Mongo!Reply(k) /\ (c.q > 0 => k = kind)
  <2>1. CASE c.step \in {"saslStart", "saslContinue"}
    <3>1. c.q = 0 /\ ~(c.q > 0)
      BY <2>1 DEF MongoOwn
    <3>2. \E k : ts = Mongo!Reply(k)
      BY Zenon DEF Due
    <3>3. QED
      BY <3>1, <3>2, Zenon
  <2>2. CASE c.step \notin {"saslStart", "saslContinue"}
    <3>1. c.step # "saslStart" /\ c.step # "saslContinue"
      BY <2>2
    <3>2. ts = Mongo!Reply(kind)
      BY <3>1, Zenon DEF Due
    <3>3. QED
      BY <3>2, Zenon
  <2>3. QED
    BY <2>1, <2>2
<1>2. PICK k : ts = Mongo!Reply(k) /\ (c.q > 0 => k = kind)
  BY <1>1
<1>3. /\ ts \in Seq(Types) /\ ts # <<>> /\ Len(ts) \in {1, 2}
      /\ Len(ts) = 1 <=> k = "invalid"
      /\ Len(ts) = 1 <=> ts[1] = bad
      /\ Len(ts) = 2 => BodyTells(k, ts[2])
  BY <1>2, MongoReplyTells, Zenon
<1>4. Partly(c, w, ts)
  BY DEF MongoOwn
<1> HIDE DEF ts, bad
<1>5. PICK j \in 0..(Len(ts) - 1) : c.got = Part(c.q, ts, j) /\ w = Pending(c.q, ts, j)
  BY <1>4 DEF Partly
<1>6. j = 0 \/ (j = 1 /\ Len(ts) = 2)
  <2>1. \A l \in {1, 2} : \A i \in 0..(l - 1) : i = 0 \/ (i = 1 /\ l = 2)
    OBVIOUS
  <2>2. Len(ts) \in {1, 2}
    BY <1>3, Zenon
  <2>3. QED
    BY <2>1, <2>2, Zenon
<1>7. Part(c.q, ts, 0) = <<>>
  <2>1. c.q \in 0..n
    BY DEF Callers
  <2> DEFINE q == c.q
  <2> HIDE DEF q
  <2>2. q \in 0..n
    BY <2>1 DEF q
  <2>3. Part(q, ts, 0) = <<>>
    BY <1>3, <2>2, PendingEnds
  <2>4. QED
    BY <2>3 DEF q
<1>8. \/ c.got = <<>> /\ w = Pending(c.q, ts, 0)
      \/ c.got = Part(c.q, ts, 1) /\ w = Pending(c.q, ts, 1) /\ Len(ts) = 2
  BY <1>5, <1>6, <1>7, Zenon
<1>9. k = kind => (k = "invalid" <=> c.kind = "invalid")
  OBVIOUS
<1>10. ASSUME k = kind, Len(ts) = 2
       PROVE  BodyTells(c.kind, ts[2])
  <2>1. BodyTells(k, ts[2])
    BY <1>3, <1>10
  <2>2. QED
    BY <1>10, <2>1 DEF BodyTells
<1> HIDE DEF kind
<1>11. /\ c.q > 0 => (Len(ts) = 1 <=> c.kind = "invalid")
       /\ c.q > 0 /\ Len(ts) = 2 => BodyTells(c.kind, ts[2])
  BY <1>2, <1>3, <1>9, <1>10, Zenon
<1>12. ts = Due(c)
  BY DEF ts
<1>13. QED
  BY <1>3, <1>8, <1>11, <1>12, Zenon DEF bad

\* execute() reads the header and then the body of one reply.
LEMMA MongoTurnOwn ==
  ASSUME NEW n \in Nat, NEW c \in Callers(n), c.step # "none",
         NEW b \in Streams(n), NEW s \in Streams(n), MongoOwn(c, b \o s)
  PROVE  KeepsOwn("mongodb", c, Mongo!Reads(c, b), s)
<1> DEFINE turn == Mongo!Reads(c, b)
           q == c.q
           bad == "bad header"
<1>1. PICK ts \in Seq(Types) :
        /\ ts = Due(c) /\ Len(ts) \in {1, 2}
        /\ Len(ts) = 1 <=> ts[1] = bad
        /\ c.q > 0 => (Len(ts) = 1 <=> c.kind = "invalid")
        /\ c.q > 0 /\ Len(ts) = 2 => BodyTells(c.kind, ts[2])
        /\ \/ c.got = <<>> /\ b \o s = Pending(c.q, ts, 0)
           \/ c.got = Part(c.q, ts, 1) /\ b \o s = Pending(c.q, ts, 1) /\ Len(ts) = 2
  BY MongoHasRead, Zenon
<1>2. /\ q \in 0..n /\ c.kind \in CallKinds /\ c.got \in Streams(n)
      /\ c.step \in {"saslStart", "saslContinue"} => c.q = 0
  BY DEF Callers, MongoOwn
<1>3. c # NoCall
  BY DEF NoCall, Call
<1>4. turn = IF InStep(b)
             THEN IF c.got # <<>> THEN Mongo!readBody(c, b)
                  ELSE IF Len(b) < 2 THEN Waits(c, b, <<>>)
                  ELSE IF b[2].t = bad THEN Ends(Fails("error"), Drop(b, 2))
                  ELSE Mongo!readBody([c EXCEPT !.got = <<b[2]>>], Drop(b, 2))
             ELSE Astray(c)
  BY MongoReads, MongoExecute, Zenon
<1>5. Part(q, ts, 1) # <<>>
  BY PartStarts, EmptySeq
<1> HIDE DEF turn, bad, q
<1>6. c.q > 0 => (Len(ts) = 2 => c.kind # "invalid")
  BY <1>1
<1>7. CASE c.got = Part(q, ts, 1) /\ b \o s = Pending(q, ts, 1) /\ Len(ts) = 2
  <2>1. 1 \in 0..Len(ts)
    BY <1>7
  <2>2. InStep(b)
    BY <1>2, <1>7, <2>1, ArrivesInOrder
  <2>3. turn = Mongo!readBody(c, b)
    BY <1>4, <1>5, <1>7, <2>2
  <2>4. /\ c.got = Part(c.q, ts, 1) /\ b \o s = Pending(c.q, ts, 1) /\ Len(ts) = 2
        /\ ts = Due(c)
        /\ c.q > 0 => BodyTells(c.kind, ts[2]) /\ c.kind # "invalid"
    BY <1>1, <1>6, <1>7, Zenon DEF q
  <2>5. KeepsOwn("mongodb", c, Mongo!readBody(c, b), s)
    BY <1>2, <2>4, MongoBodyOwn
  <2>6. QED
    BY <2>3, <2>5 DEF turn
<1>8. CASE c.got = <<>> /\ b \o s = Pending(q, ts, 0)
  <2>1. 0 \in 0..Len(ts) /\ 0 \in 0..(Len(ts) - 1) /\ Len(ts) \in Nat
    BY <1>1
  <2>2. /\ InStep(b) /\ Len(b) + Len(s) = 2 * Len(ts) /\ Len(b) \in Nat /\ Len(s) \in Nat
    <3>1. InStep(b)
      <4>1. Arrives(q, ts, 0, b, s)
        BY <1>2, <1>8, <2>1, AnswerArrives
      <4>2. QED
        BY <4>1, Zenon DEF Arrives
    <3>2. Len(b \o s) = Len(b) + Len(s) /\ Len(b) \in Nat /\ Len(s) \in Nat
      BY JoinHolds DEF Streams
    <3>3. Len(b \o s) = 2 * Len(ts)
      <4>1. b \o s = Answers(q, ts)
        BY <1>2, <1>8, PendingEnds
      <4>2. Len(Answers(q, ts)) = 2 * Len(ts)
        BY <1>2, AnswersHold
      <4>3. QED
        BY <4>1, <4>2
    <3>4. QED
      BY <3>1, <3>2, <3>3
  <2>3. CASE Len(b) < 2
    <3>1. turn = Waits(c, b, <<>>)
      BY <1>4, <1>8, <2>2, <2>3
    <3>2. b \o (s \o <<>>) = b \o s
      BY ConcatEmptySeq DEF Streams
    <3>3. Own("mongodb", c, b \o (s \o <<>>))
      BY <3>2 DEF Own
    <3>4. KeepsOwn("mongodb", c, Waits(c, b, <<>>), s)
      BY <1>3, <3>3, WaitsOwn
    <3>5. QED
      BY <3>1, <3>4 DEF turn
  <2>4. CASE ~(Len(b) < 2)
    <3> DEFINE d == Drop(b, 2)
               m == b[2]
    <3>1. m = Message(q, ts[1], 1)
      <4>1. \A i \in 1..(Len(b) \div 2) : Messages(b)[i] = Message(q, ts[i + 0], i + 0)
        <5>1. Arrives(q, ts, 0, b, s)
          BY <1>2, <1>8, <2>1, AnswerArrives
        <5>2. QED
          BY <5>1, Zenon DEF Arrives
      <4>2. 1 \in 1..(Len(b) \div 2) /\ 1 + 0 = 1 /\ 2 * 1 = 2
        BY <2>2, <2>4
      <4>3. Messages(b)[1] = Message(q, ts[1], 1)
        BY <4>1, <4>2
      <4>4. Messages(b)[1] = b[2]
        BY <4>2 DEF Messages
      <4>5. QED
        BY <4>3, <4>4
    <3>2. 2 \in 0..Len(b)
      BY <2>2, <2>4
    <3>3. d \in Streams(n) /\ d \o s = Pending(q, ts, 1)
      <4> DEFINE w == Answers(q, ts)
      <4>1. d \in Seq(Pieces(n)) /\ s \in Seq(Pieces(n))
        BY <3>2, DropHolds DEF Streams
      <4>2. d \o s = Drop(b \o s, 2)
        BY <3>2, DropJoins DEF Streams
      <4>3. b \o s = w
        BY <1>2, <1>8, PendingEnds
      <4>4. Pending(q, ts, 1) = Drop(w, 2 * 1)
        BY Zenon DEF Pending
      <4> HIDE DEF d, w
      <4>5. 2 * 1 = 2
        OBVIOUS
      <4>6. QED
        BY <4>1, <4>2, <4>3, <4>4, <4>5, Zenon DEF Streams
    <3>4. m.t = ts[1]
      BY <3>1 DEF Message
    <3> HIDE DEF d, m
    <3>5. turn = IF m.t = bad THEN Ends(Fails("error"), d)
                 ELSE Mongo!readBody([c EXCEPT !.got = <<m>>], d)
      BY <1>4, <1>8, <2>2, <2>4 DEF m, d
    <3>6. CASE m.t = bad
      <4>1. Len(ts) = 1
        BY <1>1, <3>4, <3>6
      <4>2. Pending(q, ts, Len(ts)) = <<>>
        BY <1>2, PendingEnds
      <4>3. d \o s = <<>>
        BY <3>3, <4>1, <4>2
      <4>4. s \in Seq(Pieces(n))
        BY DEF Streams
      <4>5. ASSUME c.q > 0
            PROVE  Answered("mongodb", c.q, [kind |-> c.kind, bound |-> c.bound], Fails("error"))
        <5>1. c.kind = "invalid"
          BY <1>1, <4>1, <4>5
        <5>2. Mongo!Expected(c.kind, c.bound) = [status |-> "error", rows |-> 0]
          BY <5>1 DEF Mongo!Expected
        <5>3. /\ Fails("error").status = "error" /\ Fails("error").rows = 0
              /\ Fails("error").of = {}
          BY DEF Fails, Outcome
        <5>4. QED
          BY <5>2, <5>3 DEF Answered, ExpectedOf
      <4>6. KeepsOwn("mongodb", c, Ends(Fails("error"), d), s)
        BY <4>3, <4>4, <4>5, EndsOwn
      <4>7. QED
        BY <3>5, <3>6, <4>6 DEF turn
    <3>7. CASE m.t # bad
      <4> DEFINE x == [c EXCEPT !.got = <<m>>]
      <4>1. Len(ts) = 2
        BY <1>1, <3>4, <3>7
      <4>2. <<m>> = Part(q, ts, 1)
        <5> DEFINE g == Part(q, ts, 1)
        <5>1. g \in Seq(Pieces(n))
          <6>1. 1 \in 0..Len(ts)
            BY <4>1
          <6>2. QED
            BY <1>2, <6>1, PartTyped DEF Streams
        <5>2. Len(g) = 1 /\ g[1] = m
          BY <3>1, PartStarts
        <5> HIDE DEF g
        <5>3. g = <<m>>
          BY <5>1, <5>2
        <5>4. QED
          BY <5>3 DEF g
      <4>3. <<m>> \in Streams(n)
        <5>1. 1 \in 0..Len(ts)
          BY <4>1
        <5>2. QED
          BY <1>2, <4>2, <5>1, PartTyped
      <4>4. /\ x \in Callers(n) /\ x.q = c.q /\ x.kind = c.kind /\ x.bound = c.bound
            /\ x.step = c.step /\ x.got = <<m>>
        BY <4>3 DEF Callers
      <4>5. turn = Mongo!readBody(x, d)
        BY <3>5, <3>7
      <4> HIDE DEF x
      <4>6. Due(x) = Due(c)
        BY <4>4, Zenon DEF Due
      <4>7. /\ x.got = Part(x.q, ts, 1) /\ d \o s = Pending(x.q, ts, 1) /\ ts = Due(x)
            /\ x.step # "none"
            /\ x.step \in {"saslStart", "saslContinue"} => x.q = 0
        BY <1>1, <1>2, <3>3, <4>2, <4>4, <4>6 DEF q
      <4>8. x.q > 0 => BodyTells(x.kind, ts[2]) /\ x.kind # "invalid"
        BY <1>1, <1>6, <4>1, <4>4
      <4>9. c.q = x.q /\ c.kind = x.kind /\ c.bound = x.bound
        BY <4>4
      <4>10. KeepsOwn("mongodb", c, Mongo!readBody(x, d), s)
        BY <3>3, <4>1, <4>4, <4>7, <4>8, <4>9, MongoBodyOwn
      <4>11. QED
        BY <4>5, <4>10 DEF turn
    <3>8. QED
      BY <3>6, <3>7
  <2>5. QED
    BY <2>3, <2>4
<1>9. QED
  BY <1>1, <1>7, <1>8 DEF q

LEMMA MongoRequestOwn ==
  ASSUME SessionInv, Owed, OwnAnswers, protocol = "mongodb", NEW kind \in CallKinds,
         NEW bound \in BOOLEAN, NEW k,
         k = IF kind \in {"commitTransaction", "abortTransaction"} THEN "fails" ELSE kind,
         Mongo!Requests(kind, bound, "execute", Mongo!Reply(k)), protocol' = protocol
  PROVE  Owed' /\ OwnAnswers'
<1> DEFINE n == Len(asked) + 1
           c == NextCall(kind, bound, "execute")
           answer == Mongo!Reply(k)
           turn == Mongo!Reads(c, buffer)
           a == Answers(n, answer)
<1>1. Asks(c, answer, turn)
  BY MongoShares DEF Mongo!Requests
<1>2. "execute" \in Steps \ {"none"} /\ "execute" # "none"
      /\ "execute" # "saslStart" /\ "execute" # "saslContinue"
  BY Zenon DEF Steps
<1>3. /\ n \in Nat /\ n \in 0..n /\ c \in Callers(n)
      /\ c.q = n /\ c.kind = kind /\ c.step = "execute" /\ c.got = <<>>
  BY <1>2, NextCallIs
<1> HIDE DEF n, c
<1>4. Due(c) = answer
  BY <1>2, <1>3, Zenon DEF Due
<1> HIDE DEF turn, answer
<1>5. a \in Streams(n)
  <2>1. answer \in Seq(Types)
    BY MongoReplyTells, Zenon DEF answer
  <2>2. QED
    BY <1>3, <2>1, AnswersHold DEF Streams
<1>6. MongoOwn(c, a)
  <2>1. MongoOwn(c, Answers(c.q, Due(c)))
    BY <1>2, <1>3, MongoAwaits
  <2>2. QED
    BY <1>3, <1>4, <2>1, Zenon
<1>7. ASSUME buffer = <<>>
      PROVE  KeepsOwn("mongodb", c, turn, a)
  <2>1. buffer \in Streams(n)
    BY <1>7 DEF Streams
  <2>2. buffer \o a = a
    BY <1>5, <1>7, ConcatEmptySeq DEF Streams
  <2>3. MongoOwn(c, buffer \o a)
    BY <1>6, <2>2
  <2>4. c.step # "none"
    BY <1>2, <1>3
  <2>5. QED
    BY <1>3, <1>5, <2>1, <2>3, <2>4, MongoTurnOwn DEF turn
<1>8. QED
  BY <1>1, <1>3, <1>5, <1>7, AsksOwn DEF n

LEMMA MongoChunkOwn ==
  ASSUME SessionInv, Owed, OwnAnswers, protocol = "mongodb", Mongo!onData, protocol' = protocol
  PROVE  Owed' /\ OwnAnswers'
<1>1. PICK n \in 1..Len(net) :
        Mongo!Receives(n, Mongo!Reads(call, Mongo!Arrived(n)),
                       n < Len(net) /\ Mongo!Torn(net[n + 1]))
  BY DEF Mongo!onData
<1> DEFINE turn == Mongo!Reads(call, Arrived(n))
           torn == n < Len(net) /\ Mongo!Torn(net[n + 1])
<1>2. Receives(n, turn, torn)
  BY <1>1, MongoShares
<1>3. torn \in BOOLEAN
  OBVIOUS
<1>4. ASSUME call # NoCall, Own(protocol, call, Arrived(n) \o Drop(net, n)),
             call.step # "none", Arrived(n) \in Streams(Len(asked)),
             Drop(net, n) \in Streams(Len(asked)), call \in Callers(Len(asked)),
             Len(asked) \in Nat,
             Drop(net, n) # <<>> => n < Len(net) /\ Drop(net, n)[1] = net[n + 1],
             ~torn
      PROVE  KeepsOwn(protocol, call, turn, Drop(net, n))
  <2>1. MongoOwn(call, Arrived(n) \o Drop(net, n))
    BY <1>4 DEF Own
  <2>2. QED
    BY <1>4, <2>1, MongoTurnOwn
<1> HIDE DEF turn, torn
<1>5. QED
  BY <1>2, <1>3, <1>4, ChunkOwn, Zenon

LEMMA MongoConnectOwn ==
  ASSUME SessionInv, Owed, OwnAnswers, protocol = "mongodb", Mongo!connect, protocol' = protocol
  PROVE  Owed' /\ OwnAnswers'
<1>1. CASE \E auth \in Mongo!Auths :
             Mongo!Connects(auth, "saslStart", Mongo!Answers(0, Mongo!Reply("done")))
  <2>1. PICK auth \in Mongo!Auths :
          Mongo!Connects(auth, "saslStart", Mongo!Answers(0, Mongo!Reply("done")))
    BY <1>1
  <2> DEFINE ts == Mongo!Reply("done")
             g == Answers(0, ts)
             c == Call(0, auth, FALSE, "saslStart")
  <2>2. Connects(auth, "saslStart", g)
    BY <2>1, MongoShares
  <2>3. Len(asked) \in Nat /\ 0 \in 0..Len(asked)
    BY DEF SessionInv, Session, FieldTypes
  <2>4. ts \in Seq(Types)
    BY MongoReplyTells, Zenon
  <2>5. c.q = 0 /\ c.step = "saslStart" /\ c.got = <<>>
    BY DEF Call
  <2> HIDE DEF ts, c
  <2>6. g \in Streams(Len(asked))
    BY <2>3, <2>4, AnswersHold DEF Streams
  <2>7. Due(c) = ts
    BY <2>5, Zenon DEF Due, ts
  <2>8. MongoOwn(c, g)
    <3>1. c.q \in 0..Len(asked)
      BY <2>3, <2>5
    <3>2. MongoOwn(c, Answers(c.q, Due(c)))
      BY <2>3, <2>5, <3>1, MongoAwaits
    <3>3. QED
      BY <2>5, <2>7, <3>2, Zenon
  <2>9. Own(protocol, c, g)
    BY <2>8 DEF Own
  <2> HIDE DEF g
  <2>10. QED
    BY <2>2, <2>6, <2>9, ConnectsOwn DEF c
<1>2. CASE /\ state = "new" /\ state' = "ready" /\ socket' = "up"
           /\ UNCHANGED <<net, buffer, call, asked, told, txn, whole, lost>>
  BY <1>2, ReadyOwn
<1>3. QED
  BY <1>1, <1>2 DEF Mongo!connect

LEMMA MongoStartsOwn ==
  ASSUME SessionInv, Owed, OwnAnswers, protocol = "mongodb", Mongo!startTransaction,
         protocol' = protocol
  PROVE  Owed' /\ OwnAnswers'
<1>1. UNCHANGED <<state, socket, net, buffer, call, asked, told, whole, lost>>
  BY DEF Mongo!startTransaction
<1>2. Owed'
  BY <1>1 DEF Owed
<1>3. OwnAnswers'
  BY <1>1, ToldOn
<1>4. QED
  BY <1>2, <1>3

LEMMA MongoOwns ==
  ASSUME SessionInv, Owed, OwnAnswers, protocol = "mongodb", Mongo!Next, protocol' = protocol
  PROVE  Owed' /\ OwnAnswers'
<1>1. Mongo!Kinds \subseteq CallKinds
      /\ {"commitTransaction", "abortTransaction"} \subseteq CallKinds
      /\ \A kind \in Mongo!Kinds : kind \notin {"commitTransaction", "abortTransaction"}
  BY DEF Mongo!Kinds, CallKinds
<1>2. CASE Mongo!executeCommand
  <2>1. PICK kind \in Mongo!Kinds :
          \E bound \in BOOLEAN : Mongo!Requests(kind, bound, "execute", Mongo!Reply(kind))
    BY <1>2 DEF Mongo!executeCommand
  <2>2. /\ kind \in CallKinds
        /\ kind = IF kind \in {"commitTransaction", "abortTransaction"} THEN "fails" ELSE kind
    BY <1>1
  <2>3. QED
    BY <2>1, <2>2, MongoRequestOwn
<1>3. CASE Mongo!endTransaction
  <2>1. PICK kind \in {"commitTransaction", "abortTransaction"} :
          \E bound \in BOOLEAN : Mongo!Requests(kind, bound, "execute", Mongo!Reply("fails"))
    BY <1>3 DEF Mongo!endTransaction
  <2>2. /\ kind \in CallKinds
        /\ "fails" = IF kind \in {"commitTransaction", "abortTransaction"} THEN "fails" ELSE kind
    BY <1>1
  <2>3. QED
    BY <2>1, <2>2, MongoRequestOwn
<1>4. CASE Mongo!connect \/ Mongo!startTransaction \/ Mongo!onData
  BY <1>4, MongoConnectOwn, MongoStartsOwn, MongoChunkOwn
<1>5. CASE Mongo!onError \/ Mongo!onClose \/ Mongo!close
  <2>1. Rejects("failed") \/ Rejects("gone")
    BY <1>5, MongoShares DEF Mongo!onError, Mongo!onClose, Mongo!close
  <2>2. "failed" \in {"failed", "gone"} /\ "gone" \in {"failed", "gone"}
    OBVIOUS
  <2>3. QED
    BY <2>1, <2>2, RejectsOwn
<1>6. QED
  BY <1>2, <1>3, <1>4, <1>5 DEF Mongo!Next

-----------------------------------------------------------------------------
(* The theorem                                                              *)

LEMMA AnswersBegin == SessionsInit => AnswersInv
<1>1. SUFFICES ASSUME SessionsInit PROVE AnswersInv
  OBVIOUS
<1>2. SessionInv
  BY <1>1, SessionsBegin
<1>3. /\ state = "new" /\ socket = "none" /\ told = <<>> /\ lost = FALSE
  BY <1>1 DEF SessionsInit, Init
<1>4. Owed
  BY <1>3 DEF Owed
<1>5. OwnAnswers
  BY <1>3 DEF OwnAnswers
<1>6. QED
  BY <1>2, <1>4, <1>5 DEF AnswersInv

\* As long as the readers could bear every cut, none is lost.
LEMMA LostOwn ==
  ASSUME Owed, LostReads
  PROVE  Owed' /\ OwnAnswers'
<1>1. ~whole'
  BY DEF Owed, LostReads, Misreads
<1>2. QED
  BY <1>1 DEF Owed, OwnAnswers

LEMMA AnswersGoOn == AnswersInv /\ [SessionsNext]_<<vars, protocol>> => AnswersInv'
<1>1. SUFFICES ASSUME SessionInv, Owed, OwnAnswers, [SessionsNext]_<<vars, protocol>>
               PROVE  AnswersInv'
  BY DEF AnswersInv
<1>2. SessionInv'
  BY <1>1, SessionsGoOn
<1>3. CASE SessionsNext
  <2>1. protocol' = protocol
    BY <1>3 DEF SessionsNext
  <2>2. CASE protocol = "pg" /\ PG!Next
    BY <1>1, <1>2, <2>1, <2>2, PGOwns DEF AnswersInv
  <2>3. CASE protocol = "mysql" /\ MySQL!Next
    BY <1>1, <1>2, <2>1, <2>3, MySQLOwns DEF AnswersInv
  <2>4. CASE protocol = "redis" /\ Redis!Next
    BY <1>1, <1>2, <2>1, <2>4, RedisOwns DEF AnswersInv
  <2>5. CASE protocol = "mongodb" /\ Mongo!Next
    BY <1>1, <1>2, <2>1, <2>5, MongoOwns DEF AnswersInv
  <2>6. CASE LostReads
    BY <1>1, <1>2, <2>6, LostOwn DEF AnswersInv
  <2>7. QED
    BY <1>3, <2>2, <2>3, <2>4, <2>5, <2>6 DEF SessionsNext
<1>4. CASE UNCHANGED <<vars, protocol>>
  <2>1. /\ UNCHANGED <<state, socket, net, buffer, call, asked, told, txn, whole, lost>>
        /\ protocol' = protocol
    BY <1>4 DEF vars
  <2>2. Owed'
    BY <1>1, <2>1 DEF Owed
  <2>3. OwnAnswers'
    BY <1>1, <2>1, ToldOn
  <2>4. QED
    BY <1>2, <2>2, <2>3 DEF AnswersInv
<1>5. QED
  BY <1>1, <1>3, <1>4

(* For all four drivers and any number of calls: while every chunk has ended    *)
(* where the reader of the protocol can bear it, the caller of each method is   *)
(* told of the server's answer to its own call and of no other, or that the       *)
(* connection is closed, or that Redis has queued the command.  The status and    *)
(* the number of rows are the server's, but for the kinds of request that         *)
(* Misread names, whose answers the driver reads well and reports wrongly.        *)
THEOREM CallersGetTheirOwnAnswers == Spec => []OwnAnswers
<1>1. AnswersInv => OwnAnswers
  BY DEF AnswersInv
<1>2. QED
  BY AnswersBegin, AnswersGoOn, <1>1, PTL DEF Spec

\* No cut can tear a reply of MongoDB.
MongoIsWhole == protocol = "mongodb" => whole

LEMMA MongoStaysWhole ==
  ASSUME MongoIsWhole, [SessionsNext]_<<vars, protocol>>
  PROVE  MongoIsWhole'
<1>1. CASE SessionsNext /\ protocol = "mongodb"
  <2>1. protocol' = protocol /\ whole
    BY <1>1 DEF SessionsNext, MongoIsWhole
  <2>2. Mongo!Next \/ LostReads
    BY <1>1 DEF SessionsNext
  <2>3. CASE Mongo!onData
    <3>1. PICK n \in 1..Len(net) :
            Mongo!Receives(n, Mongo!Reads(call, Mongo!Arrived(n)),
                           n < Len(net) /\ Mongo!Torn(net[n + 1]))
      BY <2>3 DEF Mongo!onData
    <3>2. whole' = (whole /\ ~(n < Len(net) /\ Mongo!Torn(net[n + 1])))
      BY <3>1 DEF Mongo!Receives
    <3>3. QED
      BY <2>1, <3>2 DEF Mongo!Torn, MongoIsWhole
  <2>4. CASE ~Mongo!onData
    <3>1. whole' = whole
      BY <2>2, <2>4 DEF Mongo!Next, Mongo!connect, Mongo!Connects, Mongo!executeCommand,
         Mongo!endTransaction, Mongo!Requests, Mongo!Asks, Mongo!startTransaction,
         Mongo!onError, Mongo!onClose, Mongo!close, Mongo!Rejects, LostReads, Misreads
    <3>2. QED
      BY <2>1, <3>1 DEF MongoIsWhole
  <2>5. QED
    BY <2>3, <2>4
<1>2. CASE protocol # "mongodb" \/ UNCHANGED <<vars, protocol>>
  BY <1>2 DEF SessionsNext, MongoIsWhole, vars
<1>3. QED
  BY <1>1, <1>2

(* With MongoDB every call is told of its own reply, or that the connection is   *)
(* closed, wherever the network cuts the stream: #readBytes() waits until the    *)
(* whole header, and then the whole body, is there.                           *)
THEOREM MongoDBBearsEveryCut ==
  Spec => [](protocol = "mongodb" =>
               \A i \in DOMAIN told : Answered("mongodb", i, asked[i], told[i]))
<1> DEFINE Told == \A i \in DOMAIN told : Answered("mongodb", i, asked[i], told[i])
<1>1. SessionsInit => MongoIsWhole
  BY DEF SessionsInit, Init, MongoIsWhole
<1>2. MongoIsWhole /\ [SessionsNext]_<<vars, protocol>> => MongoIsWhole'
  BY MongoStaysWhole
<1>3. OwnAnswers /\ MongoIsWhole => (protocol = "mongodb" => Told)
  BY AnsweredAlways DEF MongoIsWhole
<1>4. QED
  BY CallersGetTheirOwnAnswers, <1>1, <1>2, <1>3, PTL DEF Spec
=============================================================================
