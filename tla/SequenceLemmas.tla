--------------------------- MODULE SequenceLemmas ---------------------------
(***************************************************************************)
(* What the sequence operations of the models do to the elements a sequence  *)
(* holds and to their being distinct: the queue of items and the list of     *)
(* idle connections are sequences without repetition.                        *)
(***************************************************************************)
EXTENDS Sequences, Naturals, Functions, SequenceTheorems, TLAPS

NoRepeat(q) == \A i, j \in DOMAIN q : q[i] = q[j] => i = j

\* Enqueueing adds one item behind the others.
LEMMA AppendHolds ==
  ASSUME NEW S, NEW q \in Seq(S), NEW e \in S
  PROVE  /\ Append(q, e) \in Seq(S)
         /\ Append(q, e) # <<>>
         /\ Range(Append(q, e)) = Range(q) \cup {e}
         /\ NoRepeat(q) /\ e \notin Range(q) => NoRepeat(Append(q, e))
<1>1. /\ Append(q, e) \in Seq(S)
      /\ Len(Append(q, e)) = Len(q) + 1
      /\ Len(q) \in Nat
      /\ DOMAIN q = 1..Len(q)
      /\ DOMAIN Append(q, e) = 1..(Len(q) + 1)
      /\ Append(q, e)[Len(q) + 1] = e
      /\ \A i \in 1..Len(q) : Append(q, e)[i] = q[i]
  OBVIOUS
<1>2. Range(Append(q, e)) = Range(q) \cup {e}
  <2>1. 1..(Len(q) + 1) = 1..Len(q) \cup {Len(q) + 1}
    BY <1>1
  <2>2. QED
    BY <1>1, <2>1 DEF Range
<1>3. Append(q, e) # <<>>
  BY <1>1
<1>4. ASSUME NoRepeat(q), e \notin Range(q)
      PROVE  NoRepeat(Append(q, e))
  <2>1. \A i \in 1..Len(q) : q[i] # e
    BY <1>1, <1>4 DEF Range
  <2>2. QED
    BY <1>1, <1>4, <2>1 DEF NoRepeat
<1>5. QED
  BY <1>1, <1>2, <1>3, <1>4

\* Dequeueing takes the oldest item and keeps the others.
LEMMA TailHolds ==
  ASSUME NEW S, NEW q \in Seq(S), q # <<>>
  PROVE  /\ Tail(q) \in Seq(S)
         /\ Head(q) \in S
         /\ Range(q) = Range(Tail(q)) \cup {Head(q)}
         /\ NoRepeat(q) => NoRepeat(Tail(q)) /\ Head(q) \notin Range(Tail(q))
<1>1. /\ Tail(q) \in Seq(S)
      /\ Head(q) \in S
      /\ Len(q) \in Nat \ {0}
      /\ Len(Tail(q)) = Len(q) - 1
      /\ Head(q) = q[1]
      /\ DOMAIN q = 1..Len(q)
      /\ DOMAIN Tail(q) = 1..(Len(q) - 1)
      /\ \A i \in 1..(Len(q) - 1) : Tail(q)[i] = q[i + 1]
  BY HeadTailProperties, EmptySeq
<1>2. Range(q) = Range(Tail(q)) \cup {Head(q)}
  <2>1. \A i \in 1..Len(q) : i = 1 \/ (i - 1 \in 1..(Len(q) - 1) /\ q[i] = Tail(q)[i - 1])
    BY <1>1
  <2>2. \A i \in 1..(Len(q) - 1) : i + 1 \in 1..Len(q) /\ Tail(q)[i] = q[i + 1]
    BY <1>1
  <2>3. 1 \in 1..Len(q)
    BY <1>1
  <2>4. ASSUME NEW x \in Range(q)
        PROVE  x \in Range(Tail(q)) \cup {Head(q)}
    <3>1. PICK i \in 1..Len(q) : x = q[i]
      BY <1>1, <2>4 DEF Range
    <3>2. CASE i = 1
      BY <1>1, <3>1, <3>2
    <3>3. CASE i # 1
      BY <1>1, <2>1, <3>1, <3>3 DEF Range
    <3>4. QED
      BY <3>2, <3>3
  <2>5. ASSUME NEW x \in Range(Tail(q)) \cup {Head(q)}
        PROVE  x \in Range(q)
    <3>1. CASE x = Head(q)
      BY <1>1, <2>3, <3>1 DEF Range
    <3>2. CASE x \in Range(Tail(q))
      <4>1. PICK i \in 1..(Len(q) - 1) : x = Tail(q)[i]
        BY <1>1, <3>2 DEF Range
      <4>2. QED
        BY <1>1, <2>2, <4>1 DEF Range
    <3>3. QED
      BY <2>5, <3>1, <3>2
  <2>6. QED
    BY <2>4, <2>5
<1>3. ASSUME NoRepeat(q)
      PROVE  NoRepeat(Tail(q)) /\ Head(q) \notin Range(Tail(q))
  BY <1>1, <1>3 DEF NoRepeat, Range
<1>4. QED
  BY <1>1, <1>2, <1>3

\* The empty queue holds nothing.
LEMMA EmptyHolds ==
  ASSUME NEW S
  PROVE  <<>> \in Seq(S) /\ Range(<<>>) = {} /\ NoRepeat(<<>>)
BY DEF Range, NoRepeat

\* A prefix of a sequence, cut before position i.
LEMMA PrefixHolds ==
  ASSUME NEW S, NEW q \in Seq(S), NEW i \in 1..Len(q)
  PROVE  /\ SubSeq(q, 1, i - 1) \in Seq(S)
         /\ Len(SubSeq(q, 1, i - 1)) = i - 1
         /\ Range(SubSeq(q, 1, i - 1)) = {q[j] : j \in 1..(i - 1)}
         /\ Range(SubSeq(q, 1, i - 1)) \subseteq Range(q)
         /\ NoRepeat(q) => /\ NoRepeat(SubSeq(q, 1, i - 1))
                           /\ q[i] \notin Range(SubSeq(q, 1, i - 1))
<1> DEFINE p == SubSeq(q, 1, i - 1)
<1>1. /\ p \in Seq(S)
      /\ Len(p) = i - 1
      /\ Len(q) \in Nat
      /\ i - 1 \in Nat
      /\ DOMAIN p = 1..(i - 1)
      /\ DOMAIN q = 1..Len(q)
      /\ 1..(i - 1) \subseteq 1..Len(q)
      /\ \A j \in 1..(i - 1) : p[j] = q[j]
  OBVIOUS
<1> HIDE DEF p
<1>2. Range(p) = {q[j] : j \in 1..(i - 1)}
  BY <1>1 DEF Range
<1>3. Range(p) \subseteq Range(q)
  BY <1>1, <1>2 DEF Range
<1>4. ASSUME NoRepeat(q)
      PROVE  NoRepeat(p) /\ q[i] \notin Range(p)
  BY <1>1, <1>2, <1>4 DEF NoRepeat
<1>5. QED
  BY <1>1, <1>2, <1>3, <1>4 DEF p
=============================================================================
