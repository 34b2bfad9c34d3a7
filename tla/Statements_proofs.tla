------------------------- MODULE Statements_proofs -------------------------
(***************************************************************************)
(* Proofs about the prepared statements of a connection, for every set of   *)
(* texts, statements, Statement objects and transactions, and every size of *)
(* the cache.                                                             *)
(***************************************************************************)
EXTENDS Statements, SequenceLemmas, FiniteSetTheorems, TLAPS

-----------------------------------------------------------------------------
(* Sequences that are kept in the order of use *)

\* In the sequence s, which has no repetition, a comes before b.
Before(s, a, b) == \E i, j \in DOMAIN s : i < j /\ s[i] = a /\ s[j] = b

\* Where the elements are once q has been taken out.
LEMMA WithoutIndices ==
  ASSUME NEW S, NEW s \in Seq(S), NEW q \in Range(s)
  PROVE  \E i \in 1..Len(s) :
           /\ s[i] = q
           /\ Without(s, q) \in Seq(S)
           /\ Len(Without(s, q)) = Len(s) - 1
           /\ DOMAIN Without(s, q) = 1..(Len(s) - 1)
           /\ \A k \in 1..(Len(s) - 1) :
                Without(s, q)[k] = IF k < i THEN s[k] ELSE s[k + 1]
<1>1. Len(s) \in Nat /\ DOMAIN s = 1..Len(s)
  OBVIOUS
<1>2. PICK i \in 1..Len(s) :
        /\ s[i] = q
        /\ Without(s, q) = SubSeq(s, 1, i - 1) \o SubSeq(s, i + 1, Len(s))
  BY <1>1 DEF Without, Range
<1> DEFINE l == SubSeq(s, 1, i - 1)
           r == SubSeq(s, i + 1, Len(s))
<1>3. Without(s, q) = l \o r
  BY <1>2
<1>4. /\ l \in Seq(S) /\ Len(l) = i - 1
      /\ \A k \in 1..(i - 1) : l[k] = s[k]
  BY <1>1, <1>2
<1>5. /\ r \in Seq(S) /\ Len(r) = Len(s) - i
      /\ \A k \in 1..(Len(s) - i) : r[k] = s[i + k]
  <2>1. /\ i + 1 \in Int /\ Len(s) \in Int
        /\ \A j \in (i + 1)..Len(s) : s[j] \in S
    BY <1>1, <1>2
  <2>2. /\ r \in Seq(S)
        /\ Len(r) = IF i + 1 <= Len(s) THEN Len(s) - (i + 1) + 1 ELSE 0
        /\ \A k \in 1..(Len(s) - (i + 1) + 1) : r[k] = s[i + 1 + k - 1]
    <3>1. ASSUME NEW m \in Int, NEW n \in Int, \A j \in m..n : s[j] \in S
          PROVE  /\ SubSeq(s, m, n) \in Seq(S)
                 /\ Len(SubSeq(s, m, n)) = IF m <= n THEN n - m + 1 ELSE 0
                 /\ \A k \in 1..(n - m + 1) : SubSeq(s, m, n)[k] = s[m + k - 1]
      BY <3>1, SubSeqProperties
    <3>2. QED
      BY <2>1, <3>1
  <2>3. \A k \in 1..(Len(s) - i) : i + 1 + k - 1 = i + k
    BY <1>1
  <2>4. QED
    BY <2>2, <2>3
<1> HIDE DEF l, r
<1>6. /\ l \o r \in Seq(S)
      /\ Len(l \o r) = Len(s) - 1
      /\ DOMAIN (l \o r) = 1..(Len(s) - 1)
  <2>1. l \o r \in Seq(S) /\ Len(l \o r) = Len(l) + Len(r)
    BY <1>4, <1>5, ConcatProperties
  <2>2. Len(l \o r) = Len(s) - 1
    BY <1>1, <1>2, <1>4, <1>5, <2>1
  <2>3. DOMAIN (l \o r) = 1..Len(l \o r)
    BY <2>1
  <2>4. QED
    BY <2>1, <2>2, <2>3
<1>7. ASSUME NEW k \in 1..(Len(s) - 1)
      PROVE  (l \o r)[k] = IF k < i THEN s[k] ELSE s[k + 1]
  <2>1. CASE k < i
    <3>1. k \in 1..Len(l)
      BY <1>2, <1>4, <2>1
    <3>2. (l \o r)[k] = l[k]
      BY <1>4, <1>5, <3>1
    <3>3. QED
      BY <1>2, <1>4, <2>1, <3>1, <3>2
  <2>2. CASE ~(k < i)
    <3>1. /\ k \in (Len(l) + 1)..(Len(l) + Len(r))
          /\ k - Len(l) \in 1..(Len(s) - i)
          /\ i + (k - Len(l)) = k + 1
      BY <1>1, <1>2, <1>4, <1>5, <2>2
    <3>2. (l \o r)[k] = r[k - Len(l)]
      BY <1>4, <1>5, <3>1, SMTT(30)
    <3>3. QED
      BY <1>5, <2>2, <3>1, <3>2
  <2>3. QED
    BY <2>1, <2>2
<1>8. QED
  BY <1>2, <1>3, <1>6, <1>7

\* Taking an element out of a sequence without repetition keeps the others and
\* their order.
LEMMA WithoutHolds ==
  ASSUME NEW S, NEW s \in Seq(S), NEW q, NoRepeat(s)
  PROVE  /\ Without(s, q) \in Seq(S)
         /\ NoRepeat(Without(s, q))
         /\ Range(Without(s, q)) = Range(s) \ {q}
         /\ Len(Without(s, q)) <= Len(s)
         /\ q \in Range(s) => Len(Without(s, q)) = Len(s) - 1
         /\ \A a, b : Before(Without(s, q), a, b)
                        <=> Before(s, a, b) /\ a # q /\ b # q
<1>1. Len(s) \in Nat /\ DOMAIN s = 1..Len(s)
  OBVIOUS
<1>2. CASE q \notin Range(s)
  <2>1. Without(s, q) = s
    BY <1>2 DEF Without
  <2>2. \A a, b : Before(s, a, b) => a # q /\ b # q
    BY <1>2 DEF Before, Range
  <2>3. Range(s) = Range(s) \ {q} /\ Len(s) <= Len(s)
    BY <1>1, <1>2
  <2>4. QED
    BY <1>2, <2>1, <2>2, <2>3, Zenon
<1>3. CASE q \in Range(s)
  <2> DEFINE t == Without(s, q)
             n == Len(s)
  <2>1. PICK i \in 1..n :
          /\ s[i] = q
          /\ t \in Seq(S) /\ Len(t) = n - 1 /\ DOMAIN t = 1..(n - 1)
          /\ \A k \in 1..(n - 1) : t[k] = IF k < i THEN s[k] ELSE s[k + 1]
    BY <1>3, WithoutIndices
  <2> HIDE DEF t, n
  <2>2. n \in Nat /\ DOMAIN s = 1..n
    BY <1>1 DEF n
  <2>3. \A j \in 1..n : s[j] = q => j = i
    BY <2>1, <2>2 DEF NoRepeat
  \* The element at j moves to f(j).
  <2>4. \A j \in 1..n : j # i =>
          /\ (IF j < i THEN j ELSE j - 1) \in 1..(n - 1)
          /\ t[IF j < i THEN j ELSE j - 1] = s[j]
    BY <2>1, <2>2
  <2>5. \A k \in 1..(n - 1) :
          /\ (IF k < i THEN k ELSE k + 1) \in 1..n
          /\ (IF k < i THEN k ELSE k + 1) # i
          /\ t[k] = s[IF k < i THEN k ELSE k + 1]
    BY <2>1, <2>2
  <2>6. NoRepeat(t)
    <3> SUFFICES ASSUME NEW k \in 1..(n - 1), NEW m \in 1..(n - 1), t[k] = t[m]
                 PROVE  k = m
      BY <2>1 DEF NoRepeat
    <3>1. (IF k < i THEN k ELSE k + 1) = (IF m < i THEN m ELSE m + 1)
      BY <2>2, <2>5 DEF NoRepeat
    <3>2. QED
      BY <2>1, <2>2, <3>1
  <2>7. Range(t) = Range(s) \ {q}
    <3>1. ASSUME NEW x \in Range(t) PROVE x \in Range(s) \ {q}
      <4>1. PICK k \in 1..(n - 1) : x = t[k]
        BY <2>1 DEF Range
      <4>2. QED
        BY <2>2, <2>3, <2>5, <4>1 DEF Range
    <3>2. ASSUME NEW x \in Range(s) \ {q} PROVE x \in Range(t)
      <4>1. PICK j \in 1..n : x = s[j]
        BY <2>2 DEF Range
      <4>2. j # i
        BY <2>1, <4>1
      <4>3. QED
        BY <2>1, <2>4, <4>1, <4>2 DEF Range
    <3>3. QED
      BY <3>1, <3>2
  <2>8. ASSUME NEW a, NEW b, Before(t, a, b)
        PROVE  Before(s, a, b) /\ a # q /\ b # q
    <3>1. PICK k \in 1..(n - 1), m \in 1..(n - 1) : k < m /\ t[k] = a /\ t[m] = b
      BY <2>1, <2>8 DEF Before
    <3>2. (IF k < i THEN k ELSE k + 1) < (IF m < i THEN m ELSE m + 1)
      BY <2>1, <2>2, <3>1
    <3>3. Before(s, a, b)
      BY <2>2, <2>5, <3>1, <3>2 DEF Before
    <3>4. QED
      BY <2>3, <2>5, <3>1, <3>3
  <2>9. ASSUME NEW a, NEW b, Before(s, a, b), a # q, b # q
        PROVE  Before(t, a, b)
    <3>1. PICK j \in 1..n, m \in 1..n : j < m /\ s[j] = a /\ s[m] = b
      BY <2>2, <2>9 DEF Before
    <3>2. j # i /\ m # i
      BY <2>1, <2>9, <3>1
    <3>3. (IF j < i THEN j ELSE j - 1) < (IF m < i THEN m ELSE m - 1)
      BY <2>1, <2>2, <3>1, <3>2
    <3>4. QED
      BY <2>1, <2>4, <3>1, <3>2, <3>3 DEF Before
  <2>10. Len(t) <= Len(s) /\ Len(t) = Len(s) - 1
    BY <2>1, <2>2 DEF n
  <2>11. QED
    BY <2>1, <2>6, <2>7, <2>8, <2>9, <2>10 DEF t
<1>4. QED
  BY <1>2, <1>3

\* Appending puts the new element behind all the others.
LEMMA AppendBefore ==
  ASSUME NEW S, NEW s \in Seq(S), NEW e \in S, NEW a, NEW b
  PROVE  Before(Append(s, e), a, b) <=> Before(s, a, b) \/ (a \in Range(s) /\ b = e)
<1>1. /\ Len(s) \in Nat
      /\ DOMAIN s = 1..Len(s)
      /\ DOMAIN Append(s, e) = 1..(Len(s) + 1)
      /\ Append(s, e)[Len(s) + 1] = e
      /\ \A i \in 1..Len(s) : Append(s, e)[i] = s[i]
  OBVIOUS
<1>2. ASSUME Before(Append(s, e), a, b)
      PROVE  Before(s, a, b) \/ (a \in Range(s) /\ b = e)
  <2>1. PICK i \in 1..(Len(s) + 1), j \in 1..(Len(s) + 1) :
          i < j /\ Append(s, e)[i] = a /\ Append(s, e)[j] = b
    BY <1>1, <1>2 DEF Before
  <2>2. i \in 1..Len(s) /\ s[i] = a
    BY <1>1, <2>1
  <2>3. CASE j = Len(s) + 1
    BY <1>1, <2>1, <2>2, <2>3 DEF Range
  <2>4. CASE j # Len(s) + 1
    BY <1>1, <2>1, <2>2, <2>4 DEF Before
  <2>5. QED
    BY <2>3, <2>4
<1>3. ASSUME Before(s, a, b) PROVE Before(Append(s, e), a, b)
  <2>1. PICK i \in 1..Len(s), j \in 1..Len(s) : i < j /\ s[i] = a /\ s[j] = b
    BY <1>1, <1>3 DEF Before
  <2>2. i \in 1..(Len(s) + 1) /\ j \in 1..(Len(s) + 1)
    BY <1>1
  <2>3. QED
    BY <1>1, <2>1, <2>2 DEF Before
<1>4. ASSUME a \in Range(s), b = e PROVE Before(Append(s, e), a, b)
  <2>1. PICK i \in 1..Len(s) : s[i] = a
    BY <1>1, <1>4 DEF Range
  <2>2. i \in 1..(Len(s) + 1) /\ Len(s) + 1 \in 1..(Len(s) + 1) /\ i < Len(s) + 1
    BY <1>1
  <2>3. QED
    BY <1>1, <1>4, <2>1, <2>2 DEF Before
<1>5. QED
  BY <1>2, <1>3, <1>4

\* What is ordered in the tail is ordered in the sequence, behind its head.
LEMMA TailBefore ==
  ASSUME NEW S, NEW s \in Seq(S), s # <<>>, NEW a, NEW b
  PROVE  /\ Before(Tail(s), a, b) => Before(s, a, b)
         /\ b \in Range(Tail(s)) => Before(s, Head(s), b)
<1>1. /\ Len(s) \in Nat \ {0}
      /\ DOMAIN s = 1..Len(s)
      /\ DOMAIN Tail(s) = 1..(Len(s) - 1)
      /\ \A i \in 1..(Len(s) - 1) : Tail(s)[i] = s[i + 1] /\ i + 1 \in 1..Len(s)
      /\ Head(s) = s[1] /\ 1 \in 1..Len(s)
  BY HeadTailProperties, EmptySeq
<1>2. ASSUME Before(Tail(s), a, b) PROVE Before(s, a, b)
  <2>1. PICK i \in 1..(Len(s) - 1), j \in 1..(Len(s) - 1) :
          i < j /\ s[i + 1] = a /\ s[j + 1] = b
    BY <1>1, <1>2 DEF Before
  <2>2. i + 1 < j + 1 /\ i + 1 \in DOMAIN s /\ j + 1 \in DOMAIN s
    BY <1>1, <2>1
  <2>3. QED
    BY <2>1, <2>2 DEF Before
<1>3. ASSUME b \in Range(Tail(s)) PROVE Before(s, Head(s), b)
  <2>1. PICK i \in 1..(Len(s) - 1) : s[i + 1] = b
    BY <1>1, <1>3 DEF Range
  <2>2. 1 < i + 1 /\ i + 1 \in DOMAIN s
    BY <1>1, <2>1
  <2>3. QED
    BY <1>1, <2>1, <2>2 DEF Before
<1>4. QED
  BY <1>2, <1>3

\* The keys of the cache stand in the order of their last get().
Recency(o, r) ==
  /\ NoRepeat(r)
  /\ Range(o) \subseteq Range(r)
  /\ \A a, b \in Sqls : Before(o, a, b) => Before(r, a, b)

\* A text that is got goes behind the others in both.
LEMMA RecencyOfUse ==
  ASSUME NEW o \in Seq(Sqls), NEW r \in Seq(Sqls), NEW q \in Sqls,
         NoRepeat(o), Recency(o, r)
  PROVE  /\ Append(Without(o, q), q) \in Seq(Sqls)
         /\ NoRepeat(Append(Without(o, q), q))
         /\ Range(Append(Without(o, q), q)) = Range(o) \cup {q}
         /\ Append(Without(r, q), q) \in Seq(Sqls)
         /\ Recency(Append(Without(o, q), q), Append(Without(r, q), q))
<1> DEFINE o1 == Without(o, q)
           r1 == Without(r, q)
<1>1. /\ o1 \in Seq(Sqls) /\ NoRepeat(o1) /\ Range(o1) = Range(o) \ {q}
      /\ \A a, b : Before(o1, a, b) <=> Before(o, a, b) /\ a # q /\ b # q
  BY WithoutHolds
<1>2. /\ r1 \in Seq(Sqls) /\ NoRepeat(r1) /\ Range(r1) = Range(r) \ {q}
      /\ \A a, b : Before(r1, a, b) <=> Before(r, a, b) /\ a # q /\ b # q
  BY WithoutHolds DEF Recency
<1> HIDE DEF o1, r1
<1>3. /\ Append(o1, q) \in Seq(Sqls)
      /\ NoRepeat(Append(o1, q))
      /\ Range(Append(o1, q)) = Range(o) \cup {q}
  BY <1>1, AppendHolds
<1>4. /\ Append(r1, q) \in Seq(Sqls)
      /\ NoRepeat(Append(r1, q))
      /\ Range(Append(r1, q)) = Range(r) \cup {q}
  BY <1>2, AppendHolds
<1>5. ASSUME NEW a \in Sqls, NEW b \in Sqls, Before(Append(o1, q), a, b)
      PROVE  Before(Append(r1, q), a, b)
  <2>1. CASE Before(o1, a, b)
    BY <1>1, <1>2, <2>1, AppendBefore DEF Recency
  <2>2. CASE a \in Range(o1) /\ b = q
    BY <1>1, <1>2, <2>2, AppendBefore DEF Recency
  <2>3. QED
    BY <1>1, <1>5, <2>1, <2>2, AppendBefore
<1>6. QED
  BY <1>3, <1>4, <1>5 DEF o1, r1, Recency

-----------------------------------------------------------------------------
(* The inductive invariant *)

\* What a Statement object keeps is the statement of its text, or was finalized:
\* a statement is never used for another text while an object refers to it.
WrapperTexts ==
  \A w \in Wrappers : wrapper[w] # NoWrapper =>
    text[wrapper[w].native] \in {wrapper[w].sql, None}

\* The statements of a transaction, in progress or kept after its end, are not those
\* of the cache, so that what it finalizes is never handed out again.
ContextsApart ==
  \A x \in Contexts : Exists(x) =>
    \A p \in DirectSqls, q \in Sqls : cached[q] # None => stmtCache[x][p] # cached[q]

\* The cache evicts by the order of the last get() calls, the oldest first.
OrderIsRecency == Recency(order, recent)

IInv ==
  /\ TypeOK
  /\ CachedAreLive
  /\ OnlyStraysAreUnowned
  /\ WrapperTexts
  /\ ContextsApart
  /\ OrderIsRecency

\* The variables of the cache, and those of whoever uses it.
CacheTypeOK ==
  /\ order \in Seq(Sqls) /\ Len(order) <= MaxSize
  /\ NoRepeat(order)
  /\ cached \in [Sqls -> Stmts \cup {None}]
  /\ {q \in Sqls : cached[q] # None} = Range(order)
  /\ text \in [Stmts -> Sqls \cup {None}]
  /\ recent \in Seq(Sqls)
  /\ stray \subseteq {s \in Stmts : Live(s)}

OwnersTypeOK ==
  /\ wrapper \in [Wrappers -> [sql : Sqls, native : Stmts] \cup {NoWrapper}]
  /\ stmtCache \in [Contexts -> [DirectSqls -> Stmts \cup {None}] \cup {NoContext}]
  /\ ended \subseteq {x \in Contexts : Exists(x)}
  /\ closed \in BOOLEAN

LEMMA TypeParts == TypeOK <=> CacheTypeOK /\ OwnersTypeOK
BY DEF TypeOK, CacheTypeOK, OwnersTypeOK, NoRepeat, Range

LEMMA TypePartsNext == TypeOK' <=> CacheTypeOK' /\ OwnersTypeOK'
BY DEF TypeOK, CacheTypeOK, OwnersTypeOK, NoRepeat, Range

\* What is true of the cache and the native statements, whoever calls.
CacheInv ==
  /\ CacheTypeOK
  /\ CachedAreLive
  /\ OnlyStraysAreUnowned
  /\ ContextsApart
  /\ OrderIsRecency

LEMMA InitEstablishes == Init => IInv
<1> SUFFICES ASSUME Init PROVE IInv
  OBVIOUS
<1>1. CacheTypeOK
  <2>1. \A q \in Sqls : cached[q] = None
    BY DEF Init
  <2>2. {q \in Sqls : cached[q] # None} = Range(order)
    BY <2>1, EmptyHolds DEF Init
  <2>3. Len(order) <= MaxSize
    BY StatementsAssumption DEF Init
  <2>4. QED
    BY <2>2, <2>3, EmptyHolds DEF Init, CacheTypeOK
<1>2. OwnersTypeOK
  BY DEF Init, OwnersTypeOK
<1>3. CachedAreLive /\ OnlyStraysAreUnowned /\ WrapperTexts /\ ContextsApart
  BY DEF Init, CachedAreLive, OnlyStraysAreUnowned, WrapperTexts, ContextsApart, Live, Exists
<1>4. OrderIsRecency
  BY EmptyHolds DEF Init, OrderIsRecency, Recency, Before
<1>5. QED
  BY <1>1, <1>2, <1>3, <1>4, TypeParts DEF IInv

\* The order that #evict leaves, and what it finalizes.
LEMMA EvictHolds ==
  ASSUME IInv
  PROVE  /\ Kept \in Seq(Sqls) /\ NoRepeat(Kept) /\ Len(Kept) + 1 <= MaxSize
         /\ Range(Kept) = Range(order) \ Evicted
         /\ Evicted \subseteq Range(order)
         /\ \A a, b : Before(Kept, a, b) => Before(order, a, b)
<1>1. CacheTypeOK
  BY TypeParts DEF IInv
<1>2. Len(order) \in Nat /\ MaxSize \in Nat \ {0}
  BY <1>1, StatementsAssumption DEF CacheTypeOK
<1>3. CASE Len(order) >= MaxSize
  <2>1. order # <<>>
    BY <1>2, <1>3
  <2>2. Evicted = {Head(order)} /\ Kept = Tail(order)
    BY <1>3 DEF Evicted, Kept
  <2>3. Len(Tail(order)) = Len(order) - 1
    BY <1>1, <2>1, HeadTailProperties DEF CacheTypeOK
  <2>4. /\ Tail(order) \in Seq(Sqls) /\ NoRepeat(Tail(order))
        /\ Range(order) = Range(Tail(order)) \cup {Head(order)}
        /\ Head(order) \notin Range(Tail(order))
    BY <1>1, <2>1, TailHolds DEF CacheTypeOK
  <2>5. \A a, b : Before(Tail(order), a, b) => Before(order, a, b)
    BY <1>1, <2>1, TailBefore DEF CacheTypeOK
  <2>6. Len(Tail(order)) + 1 <= MaxSize
    BY <1>1, <1>2, <2>3 DEF CacheTypeOK
  <2>7. Range(Tail(order)) = Range(order) \ {Head(order)} /\ {Head(order)} \subseteq Range(order)
    BY <2>4
  <2>8. QED
    BY <2>2, <2>4, <2>5, <2>6, <2>7
<1>4. CASE ~(Len(order) >= MaxSize)
  <2>1. Evicted = {} /\ Kept = order
    BY <1>4 DEF Evicted, Kept
  <2>2. Len(order) + 1 <= MaxSize
    BY <1>2, <1>4
  <2>3. QED
    BY <1>1, <2>1, <2>2 DEF CacheTypeOK
<1>5. QED
  BY <1>3, <1>4

\* The map after an eviction, and the statements.
LEMMA EvictedStatements ==
  ASSUME IInv
  PROVE  /\ KeptCached \in [Sqls -> Stmts \cup {None}]
         /\ {q \in Sqls : KeptCached[q] # None} = Range(Kept)
         /\ \A q \in Sqls : KeptCached[q] # None => KeptCached[q] = cached[q]
         /\ LET left == Finalized({cached[p] : p \in Evicted})
            IN /\ left \in [Stmts -> Sqls \cup {None}]
               /\ \A s \in Stmts : left[s] # None => left[s] = text[s]
               /\ \A q \in Sqls : KeptCached[q] # None => left[cached[q]] = q
               /\ \A s \in Stmts, q \in Sqls :
                    left[s] # None /\ cached[q] = s => KeptCached[q] = s
               /\ \A s \in Stmts : (\A q \in Sqls : cached[q] # s) => left[s] = text[s]
<1>1. CacheTypeOK /\ CachedAreLive /\ None \notin Sqls \cup Stmts
  BY TypeParts, StatementsAssumption DEF IInv
<1>2. /\ Range(Kept) = Range(order) \ Evicted /\ Evicted \subseteq Range(order)
      /\ Range(order) \subseteq Sqls
  BY <1>1, EvictHolds DEF CacheTypeOK
<1>3. /\ KeptCached \in [Sqls -> Stmts \cup {None}]
      /\ \A q \in Sqls : KeptCached[q] # None => KeptCached[q] = cached[q] /\ q \notin Evicted
      /\ \A q \in Sqls : q \notin Evicted => KeptCached[q] = cached[q]
      /\ \A q \in Sqls : q \in Evicted => KeptCached[q] = None
  BY <1>1 DEF KeptCached, CacheTypeOK
<1>4. {q \in Sqls : KeptCached[q] # None} = Range(Kept)
  <2>1. \A q \in Sqls : q \in Range(order) <=> cached[q] # None
    BY <1>1 DEF CacheTypeOK
  <2>2. QED
    BY <1>2, <1>3, <2>1
<1> DEFINE left == Finalized({cached[p] : p \in Evicted})
<1>5. /\ left \in [Stmts -> Sqls \cup {None}]
      /\ \A s \in Stmts : left[s] # None => left[s] = text[s] /\ \A p \in Evicted : s # cached[p]
      /\ \A s \in Stmts : (\A p \in Evicted : s # cached[p]) => left[s] = text[s]
  BY <1>1 DEF Finalized, CacheTypeOK
<1> HIDE DEF left
<1>6. ASSUME NEW q \in Sqls, KeptCached[q] # None PROVE left[cached[q]] = q
  <2>1. cached[q] \in Stmts /\ text[cached[q]] = q /\ q \notin Evicted
    BY <1>1, <1>3, <1>6 DEF CacheTypeOK, CachedAreLive
  <2>2. \A p \in Evicted : cached[p] # cached[q]
    <3> SUFFICES ASSUME NEW p \in Evicted, cached[p] = cached[q] PROVE FALSE
      OBVIOUS
    <3>1. p \in Sqls /\ cached[p] # None
      BY <1>1, <1>2, <2>1
    <3>2. text[cached[p]] = p
      BY <1>1, <3>1 DEF CachedAreLive
    <3>3. QED
      BY <2>1, <3>2
  <2>3. QED
    BY <1>5, <2>1, <2>2
<1>7. \A s \in Stmts, q \in Sqls : left[s] # None /\ cached[q] = s => KeptCached[q] = s
  BY <1>3, <1>5
<1>8. \A s \in Stmts : (\A q \in Sqls : cached[q] # s) => left[s] = text[s]
  BY <1>2, <1>5
<1>9. QED
  BY <1>3, <1>4, <1>5, <1>6, <1>7, <1>8 DEF left

\* The owners of a statement that no call of the cache changes.
LEMMA OwnershipKept ==
  ASSUME OnlyStraysAreUnowned,
         \A s \in Stmts : Live(s)' =>
           /\ Live(s)
           /\ s \in stray' <=> s \in stray
           /\ Owned(s)' <=> Owned(s)
  PROVE  OnlyStraysAreUnowned'
<1> SUFFICES ASSUME NEW s \in Stmts, Live(s)' PROVE s \in stray' <=> ~Owned(s)'
  BY DEF OnlyStraysAreUnowned
<1>1. s \in stray <=> ~Owned(s)
  BY DEF OnlyStraysAreUnowned
<1>2. QED
  BY <1>1

\* Nobody owns a stray statement, and it is not the one that db.prepare returns.
LEMMA StraysApart ==
  ASSUME IInv, NEW s \in stray
  PROVE  /\ s \in Stmts /\ text[s] # None
         /\ \A q \in Sqls : cached[q] # s
         /\ \A x \in Contexts, q \in DirectSqls : Open(x) => stmtCache[x][q] # s
         /\ s \notin Unused
<1>1. s \in Stmts /\ Live(s)
  BY DEF IInv, TypeOK
<1>2. ~Owned(s)
  BY <1>1 DEF IInv, OnlyStraysAreUnowned
<1>3. QED
  BY <1>1, <1>2 DEF Live, Owned, Unused

-----------------------------------------------------------------------------
(* StatementCache.get *)

\* Using a text that the cache has changes the order alone.
LEMMA HitKeeps ==
  ASSUME IInv, NEW q \in Sqls, Hit(q), UNCHANGED <<stmtCache, ended, stray>>
  PROVE  CacheInv' /\ text' = text /\ cached'[q] # None
<1> USE DEF Hit
<1>1. CacheTypeOK /\ CachedAreLive /\ OnlyStraysAreUnowned /\ ContextsApart /\ OrderIsRecency
  BY TypeParts DEF IInv
<1>2. q \in Range(order)
  BY <1>1 DEF CacheTypeOK
<1>3. /\ order' \in Seq(Sqls) /\ NoRepeat(order') /\ Range(order') = Range(order) \cup {q}
      /\ recent' \in Seq(Sqls) /\ Recency(order', recent')
  BY <1>1, RecencyOfUse DEF CacheTypeOK, OrderIsRecency, Latest
<1>4. Len(order') <= MaxSize
  <2>1. /\ Without(order, q) \in Seq(Sqls)
        /\ Len(Without(order, q)) = Len(order) - 1
    BY <1>1, <1>2, WithoutHolds DEF CacheTypeOK
  <2>2. Len(order') = Len(Without(order, q)) + 1
    BY <2>1
  <2>3. QED
    BY <1>1, <2>1, <2>2 DEF CacheTypeOK
<1>5. CacheTypeOK'
  BY <1>1, <1>2, <1>3, <1>4 DEF CacheTypeOK, Live
<1>6. CachedAreLive' /\ OnlyStraysAreUnowned' /\ ContextsApart' /\ OrderIsRecency'
  BY <1>1, <1>3 DEF CachedAreLive, OnlyStraysAreUnowned, ContextsApart, OrderIsRecency,
                    Live, Owned, Open, Exists
<1>7. QED
  BY <1>5, <1>6 DEF CacheInv

\* The statement that db.prepare returns is nobody's.
LEMMA NewStatementIsUnused ==
  ASSUME Unused # {}
  PROVE  NewStatement \in Stmts /\ ~Live(NewStatement) /\ ~Held(NewStatement)
BY DEF NewStatement, Unused

\* A text that the cache does not have: the oldest entry goes if the map is full,
\* and the new statement takes the place of no other.
LEMMA MissKeeps ==
  ASSUME IInv, NEW q \in Sqls, Miss(q), UNCHANGED <<stmtCache, ended, stray>>
  PROVE  /\ CacheInv'
         /\ cached'[q] = NewStatement /\ text'[NewStatement] = q
         /\ \A s \in Stmts \ {NewStatement} : text'[s] \in {text[s], None}
<1> DEFINE new == NewStatement
           left == Finalized({cached[p] : p \in Evicted})
<1>1. CacheTypeOK /\ CachedAreLive /\ OnlyStraysAreUnowned /\ ContextsApart /\ OrderIsRecency
  BY TypeParts DEF IInv
<1>2. /\ None \notin Sqls \cup Stmts
      /\ new \in Stmts /\ text[new] = None /\ ~Held(new)
  BY StatementsAssumption, NewStatementIsUnused DEF Miss, Live
<1> HIDE DEF new
<1>3. /\ KeptCached \in [Sqls -> Stmts \cup {None}]
      /\ {p \in Sqls : KeptCached[p] # None} = Range(Kept)
      /\ \A p \in Sqls : KeptCached[p] # None => KeptCached[p] = cached[p]
      /\ left \in [Stmts -> Sqls \cup {None}]
      /\ \A s \in Stmts : left[s] # None => left[s] = text[s]
      /\ \A p \in Sqls : KeptCached[p] # None => left[cached[p]] = p
      /\ \A s \in Stmts, p \in Sqls : left[s] # None /\ cached[p] = s => KeptCached[p] = s
      /\ \A s \in Stmts : (\A p \in Sqls : cached[p] # s) => left[s] = text[s]
  BY EvictedStatements
<1> HIDE DEF left
<1>4. /\ cached' = [KeptCached EXCEPT ![q] = new]
      /\ text' = [left EXCEPT ![new] = q]
      /\ order' = Append(Kept, q) /\ recent' = Latest(q)
      /\ cached[q] = None
  BY DEF Miss, left, new
<1>5. /\ cached' \in [Sqls -> Stmts \cup {None}]
      /\ cached'[q] = new /\ \A p \in Sqls \ {q} : cached'[p] = KeptCached[p]
      /\ text' \in [Stmts -> Sqls \cup {None}]
      /\ text'[new] = q /\ \A s \in Stmts \ {new} : text'[s] = left[s]
  BY <1>2, <1>3, <1>4
<1>6. q \notin Range(order) /\ q \notin Range(Kept) /\ Range(Kept) \subseteq Range(order)
  BY <1>1, <1>4, EvictHolds DEF CacheTypeOK
<1>7. /\ Kept \in Seq(Sqls) /\ NoRepeat(Kept) /\ Len(Kept) + 1 <= MaxSize
      /\ \A a, b : Before(Kept, a, b) => Before(order, a, b)
  BY EvictHolds
<1>8. CacheTypeOK'
  <2>1. /\ order' \in Seq(Sqls) /\ NoRepeat(order') /\ Range(order') = Range(Kept) \cup {q}
        /\ Len(order') <= MaxSize
    BY <1>4, <1>6, <1>7, AppendHolds
  <2>2. {p \in Sqls : cached'[p] # None} = Range(order')
    BY <1>2, <1>3, <1>5, <2>1
  <2>3. recent' \in Seq(Sqls)
    BY <1>1, <1>4, RecencyOfUse DEF CacheTypeOK, OrderIsRecency, Latest
  <2>4. stray' \subseteq {s \in Stmts : Live(s)'}
    BY <1>2, <1>3, <1>5, StraysApart DEF Live
  <2>5. QED
    BY <1>5, <2>1, <2>2, <2>3, <2>4 DEF CacheTypeOK
<1>9. OrderIsRecency'
  <2>1. Without(Kept, q) = Kept
    BY <1>6 DEF Without
  <2>2. Recency(Kept, recent)
    BY <1>1, <1>6, <1>7 DEF OrderIsRecency, Recency
  <2>3. Recency(Append(Without(Kept, q), q), Append(Without(recent, q), q))
    BY <1>1, <1>7, <2>2, RecencyOfUse DEF CacheTypeOK
  <2>4. QED
    BY <1>4, <2>1, <2>3 DEF OrderIsRecency, Latest
<1>10. CachedAreLive'
  <2> SUFFICES ASSUME NEW p \in Sqls, cached'[p] # None PROVE text'[cached'[p]] = p
    BY DEF CachedAreLive
  <2>1. CASE p = q
    BY <1>5, <2>1
  <2>2. CASE p # q
    <3>1. cached'[p] = cached[p] /\ cached[p] \in Stmts /\ left[cached[p]] = p
      BY <1>3, <1>5, <2>2
    <3>2. cached[p] # new
      BY <1>2 DEF Held
    <3>3. QED
      BY <1>5, <3>1, <3>2
  <2>3. QED
    BY <2>1, <2>2
<1>11. OnlyStraysAreUnowned'
  <2> SUFFICES ASSUME NEW s \in Stmts, text'[s] # None
               PROVE  s \in stray <=> ~Owned(s)'
    BY DEF OnlyStraysAreUnowned, Live
  <2>1. CASE s = new
    <3>1. Owned(s)'
      BY <1>5, <2>1 DEF Owned
    <3>2. s \notin stray
      BY <1>2, <2>1, StraysApart
    <3>3. QED
      BY <3>1, <3>2
  <2>2. CASE s # new
    <3>1. left[s] # None /\ Live(s)
      BY <1>3, <1>5, <2>2 DEF Live
    <3>2. ASSUME NEW p \in Sqls, cached[p] = s PROVE cached'[p] = s
      <4>1. KeptCached[p] = s /\ p # q
        BY <1>2, <1>3, <1>4, <3>1, <3>2
      <4>2. QED
        BY <1>5, <4>1
    <3>3. ASSUME NEW p \in Sqls, cached'[p] = s PROVE cached[p] = s
      <4>1. p # q /\ KeptCached[p] = s /\ s # None
        BY <1>2, <1>5, <2>2, <3>3
      <4>2. QED
        BY <1>3, <4>1
    <3>4. Owned(s)' <=> Owned(s)
      BY <3>2, <3>3 DEF Owned, Open, Exists
    <3>5. QED
      BY <1>1, <3>1, <3>4 DEF OnlyStraysAreUnowned
  <2>3. QED
    BY <2>1, <2>2
<1>12. ContextsApart'
  <2> SUFFICES ASSUME NEW x \in Contexts, Exists(x), NEW t \in DirectSqls, NEW p \in Sqls, cached'[p] # None
               PROVE  stmtCache[x][t] # cached'[p]
    BY DEF ContextsApart, Exists
  <2>1. CASE p = q
    BY <1>2, <1>5, <2>1 DEF Held
  <2>2. CASE p # q
    BY <1>1, <1>3, <1>5, <2>2 DEF ContextsApart
  <2>3. QED
    BY <2>1, <2>2
<1>13. QED
  BY <1>3, <1>5, <1>8, <1>9, <1>10, <1>11, <1>12 DEF CacheInv, new

\* db.prepare throws: the eviction alone has happened.
LEMMA MissFailsKeeps ==
  ASSUME IInv, NEW q \in Sqls, MissFails(q), UNCHANGED <<stmtCache, ended, stray>>
  PROVE  CacheInv' /\ \A s \in Stmts : text'[s] \in {text[s], None}
<1> DEFINE left == Finalized({cached[p] : p \in Evicted})
<1>1. CacheTypeOK /\ CachedAreLive /\ OnlyStraysAreUnowned /\ ContextsApart /\ OrderIsRecency
  BY TypeParts DEF IInv
<1>2. None \notin Sqls \cup Stmts
  BY StatementsAssumption
<1>3. /\ KeptCached \in [Sqls -> Stmts \cup {None}]
      /\ {p \in Sqls : KeptCached[p] # None} = Range(Kept)
      /\ \A p \in Sqls : KeptCached[p] # None => KeptCached[p] = cached[p]
      /\ left \in [Stmts -> Sqls \cup {None}]
      /\ \A s \in Stmts : left[s] # None => left[s] = text[s]
      /\ \A p \in Sqls : KeptCached[p] # None => left[cached[p]] = p
      /\ \A s \in Stmts, p \in Sqls : left[s] # None /\ cached[p] = s => KeptCached[p] = s
      /\ \A s \in Stmts : (\A p \in Sqls : cached[p] # s) => left[s] = text[s]
  BY EvictedStatements
<1>4. cached' = KeptCached /\ text' = left /\ order' = Kept /\ recent' = recent
  BY DEF MissFails
<1> HIDE DEF left
<1>5. /\ Kept \in Seq(Sqls) /\ NoRepeat(Kept) /\ Len(Kept) <= MaxSize
      /\ Range(Kept) \subseteq Range(order)
      /\ \A a, b : Before(Kept, a, b) => Before(order, a, b)
  <2>1. Kept \in Seq(Sqls) /\ Len(Kept) + 1 <= MaxSize
    BY EvictHolds
  <2>2. Len(Kept) <= MaxSize
    BY <2>1, StatementsAssumption
  <2>3. QED
    BY <2>2, EvictHolds
<1>6. CacheTypeOK'
  <2>1. stray' \subseteq {s \in Stmts : Live(s)'}
    BY <1>3, <1>4, StraysApart DEF Live
  <2>2. QED
    BY <1>1, <1>3, <1>4, <1>5, <2>1 DEF CacheTypeOK
<1>7. OrderIsRecency'
  BY <1>1, <1>4, <1>5 DEF OrderIsRecency, Recency
<1>8. CachedAreLive'
  BY <1>3, <1>4 DEF CachedAreLive
<1>9. OnlyStraysAreUnowned'
  <2> SUFFICES ASSUME NEW s \in Stmts, Live(s)'
               PROVE  Live(s) /\ (Owned(s)' <=> Owned(s))
    BY <1>1, OwnershipKept
  <2>1. left[s] # None /\ Live(s)
    BY <1>3, <1>4 DEF Live
  <2>2. \A p \in Sqls : cached'[p] = s <=> cached[p] = s
    BY <1>2, <1>3, <1>4, <2>1
  <2>3. QED
    BY <2>1, <2>2 DEF Owned, Open, Exists
<1>10. ContextsApart'
  BY <1>1, <1>3, <1>4 DEF ContextsApart, Exists
<1>11. QED
  BY <1>3, <1>4, <1>6, <1>7, <1>8, <1>9, <1>10 DEF CacheInv

-----------------------------------------------------------------------------
(* Every action preserves the invariant *)

LEMMA PartsMakeInvariant ==
  ASSUME CacheInv', OwnersTypeOK', WrapperTexts'
  PROVE  IInv'
BY TypePartsNext DEF IInv, CacheInv

\* A call that runs its statement at once.
LEMMA ExecutePreserves ==
  ASSUME IInv, NEW q \in Sqls, Execute(q)
  PROVE  IInv'
<1> USE DEF Execute
<1>1. OwnersTypeOK' /\ WrapperTexts
  BY TypeParts DEF IInv, OwnersTypeOK, Exists, Hit, Miss, MissFails, Get
<1>2. CASE Hit(q)
  <2>1. WrapperTexts'
    BY <1>1, <1>2, HitKeeps DEF WrapperTexts
  <2>2. QED
    BY <1>1, <1>2, <2>1, HitKeeps, PartsMakeInvariant
<1>3. CASE Miss(q)
  <2>1. \A w \in Wrappers : wrapper[w] # NoWrapper =>
          wrapper[w].native # NewStatement /\ wrapper[w].native \in Stmts
    BY <1>1, <1>3, NewStatementIsUnused DEF Miss, Held, OwnersTypeOK
  <2>2. WrapperTexts'
    BY <1>1, <1>3, <2>1, MissKeeps DEF WrapperTexts
  <2>3. QED
    BY <1>1, <1>3, <2>2, MissKeeps, PartsMakeInvariant
<1>4. CASE MissFails(q)
  <2>1. \A w \in Wrappers : wrapper[w] # NoWrapper => wrapper[w].native \in Stmts
    BY <1>1 DEF OwnersTypeOK
  <2>2. WrapperTexts'
    BY <1>1, <1>4, <2>1, MissFailsKeeps DEF WrapperTexts
  <2>3. QED
    BY <1>1, <1>4, <2>2, MissFailsKeeps, PartsMakeInvariant
<1>5. QED
  BY <1>2, <1>3, <1>4 DEF Get

\* prepare(): the new Statement object has the statement that the cache has.
LEMMA PreparePreserves ==
  ASSUME IInv, NEW w \in Wrappers, NEW q \in Sqls, Prepare(w, q)
  PROVE  IInv'
<1> USE DEF Prepare
<1>1. OwnersTypeOK /\ WrapperTexts
  BY TypeParts DEF IInv
<1>2. /\ CacheInv' /\ cached'[q] # None
      /\ \A v \in Wrappers : wrapper[v] # NoWrapper =>
           text'[wrapper[v].native] \in {text[wrapper[v].native], None}
  <2>1. CASE Hit(q)
    BY <2>1, HitKeeps
  <2>2. CASE Miss(q)
    <3>1. NewStatement \in Stmts /\ ~Held(NewStatement)
      BY <2>2, NewStatementIsUnused DEF Miss
    <3>2. \A v \in Wrappers : wrapper[v] # NoWrapper =>
            wrapper[v].native # NewStatement /\ wrapper[v].native \in Stmts
      BY <1>1, <3>1 DEF Held, OwnersTypeOK
    <3>3. QED
      BY <2>2, <3>1, <3>2, MissKeeps, StatementsAssumption
  <2>3. QED
    BY <2>1, <2>2 DEF Get
<1>3. cached'[q] \in Stmts /\ text'[cached'[q]] = q
  BY <1>2 DEF CacheInv, CacheTypeOK, CachedAreLive
<1>4. wrapper' = [wrapper EXCEPT ![w] = [sql |-> q, native |-> cached'[q]]]
  OBVIOUS
<1>5. OwnersTypeOK'
  <2>1. [sql |-> q, native |-> cached'[q]] \in [sql : Sqls, native : Stmts]
    BY <1>3
  <2>2. wrapper' \in [Wrappers -> [sql : Sqls, native : Stmts] \cup {NoWrapper}]
    BY <1>1, <1>4, <2>1 DEF OwnersTypeOK
  <2>3. QED
    BY <1>1, <2>2 DEF OwnersTypeOK, Exists
<1>6. WrapperTexts'
  <2> SUFFICES ASSUME NEW v \in Wrappers, wrapper'[v] # NoWrapper
               PROVE  text'[wrapper'[v].native] \in {wrapper'[v].sql, None}
    BY DEF WrapperTexts
  <2>1. CASE v = w
    BY <1>1, <1>3, <1>4, <2>1 DEF OwnersTypeOK
  <2>2. CASE v # w
    <3>1. wrapper'[v] = wrapper[v]
      BY <1>1, <1>4, <2>2 DEF OwnersTypeOK
    <3>2. QED
      BY <1>1, <1>2, <3>1 DEF WrapperTexts
  <2>3. QED
    BY <2>1, <2>2
<1>7. QED
  BY <1>2, <1>5, <1>6, PartsMakeInvariant

\* finalize() of a Statement object: remove() by its text.
LEMMA FinalizePreserves ==
  ASSUME IInv, NEW w \in Wrappers, Finalize(w)
  PROVE  IInv'
<1> DEFINE q == wrapper[w].sql
<1> USE DEF Finalize
<1>1. CacheTypeOK /\ OwnersTypeOK /\ CachedAreLive /\ OnlyStraysAreUnowned /\ WrapperTexts
      /\ ContextsApart /\ OrderIsRecency /\ None \notin Sqls \cup Stmts
  BY TypeParts, StatementsAssumption DEF IInv
<1>2. q \in Sqls
  BY <1>1 DEF OwnersTypeOK
<1>3. /\ text' = [s \in Stmts |-> IF s = cached[q] THEN None ELSE text[s]]
      /\ cached' = [cached EXCEPT ![q] = None]
      /\ order' = Without(order, q)
  BY DEF RemoveStatement, Finalized
<1> HIDE DEF q
<1>4. /\ order' \in Seq(Sqls) /\ NoRepeat(order') /\ Range(order') = Range(order) \ {q}
      /\ Len(order') <= Len(order)
      /\ \A a, b : Before(order', a, b) => Before(order, a, b)
  BY <1>1, <1>3, WithoutHolds DEF CacheTypeOK
<1>5. CacheTypeOK'
  <2>1. Len(order') <= MaxSize
    BY <1>1, <1>4, StatementsAssumption DEF CacheTypeOK
  <2>2. {p \in Sqls : cached'[p] # None} = Range(order')
    BY <1>1, <1>2, <1>3, <1>4 DEF CacheTypeOK
  <2>3. stray' \subseteq {s \in Stmts : Live(s)'}
    BY <1>2, <1>3, StraysApart DEF Live
  <2>4. QED
    BY <1>1, <1>2, <1>3, <1>4, <2>1, <2>2, <2>3 DEF CacheTypeOK
<1>6. OrderIsRecency'
  BY <1>1, <1>4 DEF OrderIsRecency, Recency
<1>7. CachedAreLive'
  <2> SUFFICES ASSUME NEW p \in Sqls, cached'[p] # None PROVE text'[cached'[p]] = p
    BY DEF CachedAreLive
  <2>1. p # q /\ cached'[p] = cached[p] /\ cached[p] \in Stmts /\ text[cached[p]] = p
    BY <1>1, <1>2, <1>3 DEF CacheTypeOK, CachedAreLive
  <2>2. cached[q] # cached[p]
    BY <1>1, <1>2, <2>1 DEF CachedAreLive
  <2>3. QED
    BY <1>3, <2>1, <2>2
<1>8. OnlyStraysAreUnowned'
  <2> SUFFICES ASSUME NEW s \in Stmts, Live(s)'
               PROVE  Live(s) /\ (Owned(s)' <=> Owned(s))
    BY <1>1, OwnershipKept
  <2>1. Live(s) /\ s # cached[q]
    BY <1>3 DEF Live
  <2>2. \A p \in Sqls : cached'[p] = s <=> cached[p] = s
    BY <1>1, <1>2, <1>3, <2>1 DEF CacheTypeOK
  <2>3. QED
    BY <2>1, <2>2 DEF Owned, Open, Exists
<1>9. ContextsApart'
  BY <1>1, <1>2, <1>3 DEF ContextsApart, Exists, CacheTypeOK
<1>10. OwnersTypeOK'
  BY <1>1 DEF OwnersTypeOK, Exists
<1>11. WrapperTexts'
  BY <1>1, <1>3 DEF WrapperTexts, OwnersTypeOK
<1>12. QED
  BY <1>5, <1>6, <1>7, <1>8, <1>9, <1>10, <1>11, PartsMakeInvariant DEF CacheInv

\* A step of the Statement objects alone leaves the cache and the transactions.
LEMMA CacheUntouched ==
  ASSUME IInv, UNCHANGED <<order, cached, text, stmtCache, ended, recent, stray>>
  PROVE  CacheInv'
<1>1. CacheInv
  BY TypeParts DEF IInv, CacheInv
<1>2. CacheTypeOK' /\ CachedAreLive' /\ ContextsApart' /\ OrderIsRecency'
  BY <1>1 DEF CacheInv, CacheTypeOK, CachedAreLive, ContextsApart, OrderIsRecency, Live, Exists
<1>3. OnlyStraysAreUnowned'
  BY <1>1 DEF CacheInv, OnlyStraysAreUnowned, Live, Owned, Open, Exists
<1>4. QED
  BY <1>2, <1>3 DEF CacheInv

LEMMA ForgetPreserves ==
  ASSUME IInv, NEW w \in Wrappers, Forget(w)
  PROVE  IInv'
<1>1. OwnersTypeOK /\ WrapperTexts
  BY TypeParts DEF IInv
<1>2. CacheInv'
  BY CacheUntouched DEF Forget
<1>3. OwnersTypeOK' /\ WrapperTexts'
  BY <1>1 DEF Forget, OwnersTypeOK, WrapperTexts, Exists
<1>4. QED
  BY <1>2, <1>3, PartsMakeInvariant

\* close() finalizes every cached statement, and no transaction in progress has others.
LEMMA ClosePreserves ==
  ASSUME IInv, Close
  PROVE  IInv'
<1> USE DEF Close, Clear
<1>1. CacheTypeOK /\ OwnersTypeOK /\ OnlyStraysAreUnowned /\ WrapperTexts /\ OrderIsRecency
      /\ None \notin Sqls \cup Stmts
  BY TypeParts, StatementsAssumption DEF IInv
<1>2. \A p \in Sqls : cached'[p] = None
  OBVIOUS
<1>3. \A s \in Stmts : text'[s] = IF s \in {cached[q] : q \in Sqls} THEN None ELSE text[s]
  BY DEF Finalized
<1>4. CacheTypeOK'
  <2>1. {p \in Sqls : cached'[p] # None} = Range(order')
    BY <1>2, EmptyHolds
  <2>2. Len(order') <= MaxSize
    BY StatementsAssumption
  <2>3. text' \in [Stmts -> Sqls \cup {None}] /\ cached' \in [Sqls -> Stmts \cup {None}]
    BY <1>1 DEF Finalized, CacheTypeOK
  <2>4. stray' \subseteq {s \in Stmts : Live(s)'}
    BY <1>3, StraysApart DEF Live
  <2>5. QED
    BY <1>1, <2>1, <2>2, <2>3, <2>4, EmptyHolds DEF CacheTypeOK
<1>5. CachedAreLive' /\ ContextsApart'
  BY <1>2 DEF CachedAreLive, ContextsApart
<1>6. OnlyStraysAreUnowned'
  <2> SUFFICES ASSUME NEW s \in Stmts, Live(s)'
               PROVE  Live(s) /\ (Owned(s)' <=> Owned(s))
    BY <1>1, OwnershipKept
  <2>1. Live(s) /\ \A q \in Sqls : cached[q] # s
    BY <1>3 DEF Live
  <2>2. \A q \in Sqls : cached'[q] # s
    BY <1>1, <1>2
  <2>3. QED
    BY <2>1, <2>2 DEF Owned, Open, Exists
<1>7. OrderIsRecency'
  BY <1>1, EmptyHolds DEF OrderIsRecency, Recency, Before
<1>8. OwnersTypeOK'
  BY <1>1 DEF OwnersTypeOK, Exists
<1>9. WrapperTexts'
  BY <1>1, <1>3 DEF WrapperTexts, OwnersTypeOK
<1>10. QED
  BY <1>4, <1>5, <1>6, <1>7, <1>8, <1>9, PartsMakeInvariant DEF CacheInv

\* A transaction begins with no statements.
LEMMA TxBeginsPreserves ==
  ASSUME IInv, NEW x \in Contexts, TxBegins(x)
  PROVE  IInv'
<1> USE DEF TxBegins
<1>1. CacheTypeOK /\ OwnersTypeOK /\ CachedAreLive /\ OnlyStraysAreUnowned /\ WrapperTexts
      /\ ContextsApart /\ OrderIsRecency /\ None \notin Sqls \cup Stmts
  BY TypeParts, StatementsAssumption DEF IInv
<1>2. /\ stmtCache'[x] = [q \in DirectSqls |-> None]
      /\ \A y \in Contexts \ {x} : stmtCache'[y] = stmtCache[y]
  BY <1>1 DEF OwnersTypeOK
<1>3. OwnersTypeOK'
  <2>1. ended' \subseteq {y \in Contexts : Exists(y)'}
    BY <1>1, <1>2 DEF OwnersTypeOK, Exists
  <2>2. QED
    BY <1>1, <2>1 DEF OwnersTypeOK
<1>4. OnlyStraysAreUnowned'
  <2> SUFFICES ASSUME NEW s \in Stmts, Live(s)
               PROVE  Owned(s)' <=> Owned(s)
    BY <1>1, OwnershipKept DEF Live
  <2>1. s # None /\ ~Open(x)
    BY <1>1 DEF Live, Open
  <2>2. ~(\E q \in DirectSqls : stmtCache'[x][q] = s)
    BY <1>2, <2>1
  <2>3. \A y \in Contexts \ {x} : Open(y)' <=> Open(y)
    BY <1>2 DEF Open, Exists
  <2>4. QED
    BY <1>2, <2>1, <2>2, <2>3 DEF Owned
<1>5. ContextsApart'
  <2> SUFFICES ASSUME NEW y \in Contexts, Exists(y)', NEW p \in DirectSqls,
                      NEW q \in Sqls, cached[q] # None
               PROVE  stmtCache'[y][p] # cached[q]
    BY DEF ContextsApart
  <2>1. CASE y = x
    BY <1>2, <2>1
  <2>2. CASE y # x
    BY <1>1, <1>2, <2>2 DEF ContextsApart, Exists
  <2>3. QED
    BY <2>1, <2>2
<1>6. CacheTypeOK' /\ CachedAreLive' /\ OrderIsRecency' /\ WrapperTexts'
  BY <1>1 DEF CacheTypeOK, CachedAreLive, OrderIsRecency, WrapperTexts, Live
<1>7. QED
  BY <1>3, <1>4, <1>5, <1>6, PartsMakeInvariant DEF CacheInv

\* A transaction prepares a statement of its own, or one that nobody will finalize
\* when it has ended.
LEMMA GetOrPreparePreserves ==
  ASSUME IInv, NEW x \in Contexts, NEW t \in DirectSqls, GetOrPrepare(x, t)
  PROVE  IInv'
<1> DEFINE new == NewStatement
<1> USE DEF GetOrPrepare
<1>1. CacheTypeOK /\ OwnersTypeOK /\ CachedAreLive /\ OnlyStraysAreUnowned /\ WrapperTexts
      /\ ContextsApart /\ OrderIsRecency /\ None \notin Sqls \cup Stmts
      /\ t \in Sqls /\ Exists(x)
  BY TypeParts, StatementsAssumption DEF IInv
<1>2. new \in Stmts /\ text[new] = None /\ ~Held(new)
  BY NewStatementIsUnused DEF Live
<1>3. /\ stmtCache' = [stmtCache EXCEPT ![x][t] = new]
      /\ text' = [text EXCEPT ![new] = t]
      /\ stray' = IF Open(x) THEN stray ELSE stray \cup {new}
  OBVIOUS
<1> HIDE DEF new
<1>4. stmtCache[x] \in [DirectSqls -> Stmts \cup {None}]
  BY <1>1 DEF Exists, OwnersTypeOK
<1>5. /\ stmtCache'[x] \in [DirectSqls -> Stmts \cup {None}]
      /\ stmtCache'[x][t] = new
      /\ \A q \in DirectSqls \ {t} : stmtCache'[x][q] = stmtCache[x][q]
      /\ \A y \in Contexts \ {x} : stmtCache'[y] = stmtCache[y]
  BY <1>1, <1>2, <1>3, <1>4 DEF OwnersTypeOK
<1>6. \A y \in Contexts : Exists(y)' <=> Exists(y)
  <2>1. DOMAIN stmtCache'[x] = DirectSqls
    BY <1>5
  <2>2. DOMAIN <<>> = {}
    OBVIOUS
  <2>3. Exists(x)'
    BY <2>1, <2>2 DEF Exists, NoContext
  <2>4. QED
    BY <1>1, <1>5, <2>3 DEF Exists
<1>7. OwnersTypeOK'
  <2>1. ended' \subseteq {y \in Contexts : Exists(y)'}
    BY <1>1, <1>6 DEF OwnersTypeOK
  <2>2. QED
    BY <1>1, <1>3, <1>5, <2>1 DEF OwnersTypeOK
<1>8. CacheTypeOK' /\ OrderIsRecency'
  <2>1. /\ text' \in [Stmts -> Sqls \cup {None}]
        /\ text'[new] # None /\ \A s \in Stmts \ {new} : text'[s] = text[s]
    BY <1>1, <1>2, <1>3 DEF CacheTypeOK
  <2>2. stray' \subseteq {s \in Stmts : Live(s)'}
    BY <1>1, <1>2, <1>3, <2>1 DEF CacheTypeOK, Live
  <2>3. QED
    BY <1>1, <2>1, <2>2 DEF CacheTypeOK, OrderIsRecency
<1>9. CachedAreLive'
  BY <1>1, <1>2, <1>3 DEF CachedAreLive, CacheTypeOK, Held
<1>10. WrapperTexts'
  <2> SUFFICES ASSUME NEW w \in Wrappers, wrapper[w] # NoWrapper
               PROVE  text'[wrapper[w].native] \in {wrapper[w].sql, None}
    BY DEF WrapperTexts
  <2>1. wrapper[w].native # new /\ wrapper[w].native \in Stmts
    BY <1>1, <1>2 DEF Held, OwnersTypeOK
  <2>2. QED
    BY <1>1, <1>2, <1>3, <2>1 DEF WrapperTexts, CacheTypeOK
<1>11. OnlyStraysAreUnowned'
  <2> SUFFICES ASSUME NEW s \in Stmts, text'[s] # None
               PROVE  s \in stray' <=> ~Owned(s)'
    BY DEF OnlyStraysAreUnowned, Live
  <2>1. \A y \in Contexts : Open(y)' <=> Open(y)
    BY <1>6 DEF Open
  <2>2. CASE s = new
    <3>1. s \notin stray
      BY <1>1, <1>2, <2>2 DEF CacheTypeOK, Live
    <3>2. CASE Open(x)
      <4>1. Owned(s)'
        BY <1>5, <2>1, <2>2, <3>2 DEF Owned
      <4>2. QED
        BY <1>3, <3>1, <3>2, <4>1
    <3>3. CASE ~Open(x)
      <4>1. ~Owned(s)'
        BY <1>2, <1>5, <2>1, <2>2, <3>3 DEF Owned, Held, Open
      <4>2. QED
        BY <1>3, <2>2, <3>3, <4>1
    <3>4. QED
      BY <3>2, <3>3
  <2>3. CASE s # new
    <3>1. Live(s) /\ (s \in stray' <=> s \in stray)
      BY <1>1, <1>2, <1>3, <2>3 DEF Live, CacheTypeOK
    <3>2. s # None
      BY <1>1
    <3>3. \A y \in Contexts, q \in DirectSqls : stmtCache'[y][q] = s <=> stmtCache[y][q] = s
      BY <1>1, <1>5, <2>3, <3>2
    <3>4. Owned(s)' <=> Owned(s)
      BY <2>1, <3>3 DEF Owned
    <3>5. QED
      BY <1>1, <3>1, <3>4 DEF OnlyStraysAreUnowned
  <2>4. QED
    BY <2>2, <2>3
<1>12. ContextsApart'
  <2> SUFFICES ASSUME NEW y \in Contexts, Exists(y), NEW p \in DirectSqls,
                      NEW q \in Sqls, cached[q] # None
               PROVE  stmtCache'[y][p] # cached[q]
    BY <1>6 DEF ContextsApart
  <2>1. CASE y = x /\ p = t
    BY <1>2, <1>5, <2>1 DEF Held
  <2>2. CASE y = x /\ p # t
    BY <1>1, <1>5, <2>2 DEF ContextsApart
  <2>3. CASE y # x
    BY <1>1, <1>5, <2>3 DEF ContextsApart
  <2>4. QED
    BY <2>1, <2>2, <2>3
<1>13. QED
  BY <1>7, <1>8, <1>9, <1>10, <1>11, <1>12, PartsMakeInvariant DEF CacheInv

\* finalize() inside a transaction, and the end of the transaction, finalize
\* statements that the cache does not have.
LEMMA FinalizedApart ==
  ASSUME IInv, NEW S, text' = Finalized(S),
         \A q \in Sqls : cached[q] # None => cached[q] \notin S,
         stray' \subseteq stray, \A s \in S : s \notin stray',
         UNCHANGED <<order, cached, wrapper, recent>>
  PROVE  CacheTypeOK' /\ CachedAreLive' /\ OrderIsRecency' /\ WrapperTexts'
<1>1. CacheTypeOK /\ CachedAreLive /\ OrderIsRecency /\ WrapperTexts /\ OwnersTypeOK
  BY TypeParts DEF IInv
<1>2. /\ text' \in [Stmts -> Sqls \cup {None}]
      /\ \A s \in Stmts : text'[s] = IF s \in S THEN None ELSE text[s]
  BY <1>1 DEF Finalized, CacheTypeOK
<1>3. CacheTypeOK' /\ OrderIsRecency'
  <2>1. stray' \subseteq {s \in Stmts : Live(s)'}
    BY <1>1, <1>2 DEF CacheTypeOK, Live
  <2>2. QED
    BY <1>1, <1>2, <2>1 DEF CacheTypeOK, OrderIsRecency
<1>4. CachedAreLive'
  BY <1>1, <1>2 DEF CachedAreLive, CacheTypeOK
<1>5. WrapperTexts'
  BY <1>1, <1>2 DEF WrapperTexts, OwnersTypeOK
<1>6. QED
  BY <1>3, <1>4, <1>5

LEMMA TxFinalizePreserves ==
  ASSUME IInv, NEW x \in Contexts, NEW t \in DirectSqls, TxFinalize(x, t)
  PROVE  IInv'
<1> USE DEF TxFinalize
<1>1. OwnersTypeOK /\ OnlyStraysAreUnowned /\ ContextsApart /\ Exists(x)
  BY TypeParts DEF IInv
<1>2. \A q \in Sqls : cached[q] # None => cached[q] \notin {stmtCache[x][t]}
  BY <1>1 DEF ContextsApart
<1>3. CacheTypeOK' /\ CachedAreLive' /\ OrderIsRecency' /\ WrapperTexts'
  BY <1>2, FinalizedApart
<1>4. OnlyStraysAreUnowned'
  <2>1. ASSUME NEW s \in Stmts, Live(s)' PROVE Live(s) /\ s # stmtCache[x][t]
    BY <2>1 DEF Live, Finalized
  <2>2. \A s \in Stmts : Owned(s)' <=> Owned(s)
    BY DEF Owned, Open, Exists
  <2>3. QED
    BY <1>1, <2>1, <2>2, OwnershipKept
<1>5. ContextsApart' /\ OwnersTypeOK'
  BY <1>1 DEF ContextsApart, OwnersTypeOK, Exists
<1>6. QED
  BY <1>3, <1>4, <1>5, PartsMakeInvariant DEF CacheInv

\* The end of a transaction finalizes what it has, and nobody else owns that.
LEMMA TxEndsPreserves ==
  ASSUME IInv, NEW x \in Contexts, TxEnds(x)
  PROVE  IInv'
<1> DEFINE S == {stmtCache[x][t] : t \in DirectSqls}
<1> USE DEF TxEnds
<1>1. OwnersTypeOK /\ OnlyStraysAreUnowned /\ ContextsApart /\ Open(x) /\ Exists(x)
  BY TypeParts DEF IInv, Open
<1>2. \A q \in Sqls : cached[q] # None => cached[q] \notin S
  BY <1>1 DEF ContextsApart
<1>3. \A s \in S : s \notin stray
  BY <1>1, StraysApart
<1>4. CacheTypeOK' /\ CachedAreLive' /\ OrderIsRecency' /\ WrapperTexts'
  BY <1>2, <1>3, FinalizedApart
<1>5. OnlyStraysAreUnowned'
  <2> SUFFICES ASSUME NEW s \in Stmts, Live(s)'
               PROVE  Live(s) /\ (Owned(s)' <=> Owned(s))
    BY <1>1, OwnershipKept
  <2>1. Live(s) /\ \A t \in DirectSqls : stmtCache[x][t] # s
    BY DEF Live, Finalized
  <2>2. \A y \in Contexts \ {x} : Open(y)' <=> Open(y)
    BY DEF Open, Exists
  <2>3. ~Open(x)'
    BY DEF Open
  <2>4. QED
    BY <2>1, <2>2, <2>3 DEF Owned
<1>6. OwnersTypeOK' /\ ContextsApart'
  BY <1>1 DEF OwnersTypeOK, ContextsApart, Exists
<1>7. QED
  BY <1>4, <1>5, <1>6, PartsMakeInvariant DEF CacheInv

\* Dropping a context that owns nothing any more.
LEMMA TxForgetPreserves ==
  ASSUME IInv, NEW x \in Contexts, TxForget(x)
  PROVE  IInv'
<1> USE DEF TxForget
<1>1. CacheTypeOK /\ OwnersTypeOK /\ CachedAreLive /\ OnlyStraysAreUnowned /\ WrapperTexts
      /\ ContextsApart /\ OrderIsRecency
  BY TypeParts DEF IInv
<1>2. /\ stmtCache'[x] = NoContext
      /\ \A y \in Contexts \ {x} : stmtCache'[y] = stmtCache[y]
  BY <1>1 DEF OwnersTypeOK
<1>3. OwnersTypeOK'
  <2>1. ended' \subseteq {y \in Contexts : Exists(y)'}
    BY <1>1, <1>2 DEF OwnersTypeOK, Exists
  <2>2. QED
    BY <1>1, <2>1 DEF OwnersTypeOK
<1>4. OnlyStraysAreUnowned'
  <2>1. ~Open(x) /\ ~Open(x)'
    BY <1>2 DEF Open, Exists
  <2>2. \A y \in Contexts \ {x} : Open(y)' <=> Open(y)
    BY <1>2 DEF Open, Exists
  <2>3. \A s \in Stmts : Owned(s)' <=> Owned(s)
    BY <1>2, <2>1, <2>2 DEF Owned
  <2>4. QED
    BY <1>1, <2>3, OwnershipKept DEF Live
<1>5. ContextsApart'
  BY <1>1, <1>2 DEF ContextsApart, Exists
<1>6. CacheTypeOK' /\ CachedAreLive' /\ OrderIsRecency' /\ WrapperTexts'
  BY <1>1 DEF CacheTypeOK, CachedAreLive, OrderIsRecency, WrapperTexts, Live
<1>7. QED
  BY <1>3, <1>4, <1>5, <1>6, PartsMakeInvariant DEF CacheInv

\* A statement that is prepared past the cache is nobody's.
LEMMA PrepareDirectPreserves ==
  ASSUME IInv, NEW q \in DirectSqls, PrepareDirect(q)
  PROVE  IInv'
<1> DEFINE new == NewStatement
<1> USE DEF PrepareDirect
<1>1. CacheTypeOK /\ OwnersTypeOK /\ CachedAreLive /\ OnlyStraysAreUnowned /\ WrapperTexts
      /\ ContextsApart /\ OrderIsRecency /\ None \notin Sqls \cup Stmts /\ q \in Sqls
  BY TypeParts, StatementsAssumption DEF IInv
<1>2. new \in Stmts /\ text[new] = None /\ ~Held(new)
  BY NewStatementIsUnused DEF Live
<1>3. text' = [text EXCEPT ![new] = q] /\ stray' = stray \cup {new}
  OBVIOUS
<1> HIDE DEF new
<1>4. /\ text' \in [Stmts -> Sqls \cup {None}]
      /\ text'[new] = q /\ \A s \in Stmts \ {new} : text'[s] = text[s]
  BY <1>1, <1>2, <1>3 DEF CacheTypeOK
<1>5. CacheTypeOK' /\ OrderIsRecency'
  <2>1. stray' \subseteq {s \in Stmts : Live(s)'}
    BY <1>1, <1>2, <1>3, <1>4 DEF CacheTypeOK, Live
  <2>2. QED
    BY <1>1, <1>4, <2>1 DEF CacheTypeOK, OrderIsRecency
<1>6. CachedAreLive'
  BY <1>1, <1>2, <1>4 DEF CachedAreLive, CacheTypeOK, Held
<1>7. WrapperTexts'
  <2> SUFFICES ASSUME NEW w \in Wrappers, wrapper[w] # NoWrapper
               PROVE  text'[wrapper[w].native] \in {wrapper[w].sql, None}
    BY DEF WrapperTexts
  <2>1. wrapper[w].native # new /\ wrapper[w].native \in Stmts
    BY <1>1, <1>2 DEF Held, OwnersTypeOK
  <2>2. QED
    BY <1>1, <1>4, <2>1 DEF WrapperTexts
<1>8. OnlyStraysAreUnowned'
  <2> SUFFICES ASSUME NEW s \in Stmts, text'[s] # None
               PROVE  s \in stray' <=> ~Owned(s)'
    BY DEF OnlyStraysAreUnowned, Live
  <2>1. Owned(s)' <=> Owned(s)
    BY DEF Owned, Open, Exists
  <2>2. CASE s = new
    BY <1>2, <1>3, <2>1, <2>2 DEF Owned, Held, Open
  <2>3. CASE s # new
    BY <1>1, <1>3, <1>4, <2>1, <2>3 DEF OnlyStraysAreUnowned, Live
  <2>4. QED
    BY <2>2, <2>3
<1>9. ContextsApart' /\ OwnersTypeOK'
  BY <1>1 DEF ContextsApart, OwnersTypeOK, Exists
<1>10. QED
  BY <1>5, <1>6, <1>7, <1>8, <1>9, PartsMakeInvariant DEF CacheInv

\* The garbage collector takes what nobody refers to.
LEMMA CollectPreserves ==
  ASSUME IInv, NEW s \in Stmts, Collect(s)
  PROVE  IInv'
<1> USE DEF Collect
<1>1. OwnersTypeOK /\ OnlyStraysAreUnowned /\ ContextsApart
  BY TypeParts DEF IInv
<1>2. \A q \in Sqls : cached[q] # None => cached[q] \notin {s}
  BY StraysApart
<1>3. CacheTypeOK' /\ CachedAreLive' /\ OrderIsRecency' /\ WrapperTexts'
  BY <1>2, FinalizedApart
<1>4. OnlyStraysAreUnowned'
  <2>1. ASSUME NEW r \in Stmts, Live(r)' PROVE Live(r) /\ r # s
    BY <2>1 DEF Live, Finalized
  <2>2. \A r \in Stmts : Owned(r)' <=> Owned(r)
    BY DEF Owned, Open, Exists
  <2>3. QED
    BY <1>1, <2>1, <2>2, OwnershipKept
<1>5. ContextsApart' /\ OwnersTypeOK'
  BY <1>1 DEF ContextsApart, OwnersTypeOK, Exists
<1>6. QED
  BY <1>3, <1>4, <1>5, PartsMakeInvariant DEF CacheInv

-----------------------------------------------------------------------------
(* The theorems *)

LEMMA Inductive == Spec => []IInv
<1>1. IInv /\ [Next]_vars => IInv'
  <2> SUFFICES ASSUME IInv, [Next]_vars PROVE IInv'
    OBVIOUS
  <2>1. CASE \E q \in Sqls : Execute(q)
    BY <2>1, ExecutePreserves
  <2>2. CASE \E w \in Wrappers, q \in Sqls : Prepare(w, q)
    BY <2>2, PreparePreserves
  <2>3. CASE \E w \in Wrappers : Finalize(w) \/ Forget(w)
    BY <2>3, FinalizePreserves, ForgetPreserves
  <2>4. CASE \E x \in Contexts : TxBegins(x) \/ TxEnds(x) \/ TxForget(x)
    BY <2>4, TxBeginsPreserves, TxEndsPreserves, TxForgetPreserves
  <2>5. CASE \E x \in Contexts, q \in DirectSqls : GetOrPrepare(x, q) \/ TxFinalize(x, q)
    BY <2>5, GetOrPreparePreserves, TxFinalizePreserves
  <2>6. CASE \E q \in DirectSqls : PrepareDirect(q)
    BY <2>6, PrepareDirectPreserves
  <2>7. CASE \E s \in Stmts : Collect(s)
    BY <2>7, CollectPreserves
  <2>8. CASE Close
    BY <2>8, ClosePreserves
  <2>9. CASE UNCHANGED vars
    <3>1. CacheInv'
      BY <2>9, CacheUntouched DEF vars
    <3>2. OwnersTypeOK' /\ WrapperTexts'
      BY <2>9, TypeParts DEF vars, IInv, OwnersTypeOK, WrapperTexts, Exists
    <3>3. QED
      BY <3>1, <3>2, PartsMakeInvariant
  <2>10. QED
    BY <2>1, <2>2, <2>3, <2>4, <2>5, <2>6, <2>7, <2>8, <2>9 DEF Next
<1>2. QED
  BY <1>1, InitEstablishes, PTL DEF Spec

\* The map never has more than maxSize statements, nor one text twice, and its
\* values and its order have the same keys (statement-cache.ts get, #evict).
THEOREM TypeCorrect == Spec => []TypeOK
<1>1. IInv => TypeOK
  BY DEF IInv
<1>2. QED
  BY <1>1, Inductive, PTL

\* Whatever is evicted, removed, finalized twice or used again by the driver, get()
\* answers with a statement of the text asked for that is not finalized.
THEOREM CacheGivesLiveStatements == Spec => []CachedAreLive
<1>1. IInv => CachedAreLive
  BY DEF IInv
<1>2. QED
  BY <1>1, Inductive, PTL

\* A native statement stays prepared with nobody to finalize it exactly when it was
\* prepared past the cache and outside a transaction in progress; every other one is
\* in the cache or belongs to a transaction whose finally block is still to come.
THEOREM OnlyStrayStatementsLeak == Spec => []OnlyStraysAreUnowned
<1>1. IInv => OnlyStraysAreUnowned
  BY DEF IInv
<1>2. QED
  BY <1>1, Inductive, PTL

-----------------------------------------------------------------------------
(* What is evicted has not been used lately *)

\* Behind the place of h there is room for everything that comes after h.
LEMMA RoomBehind ==
  ASSUME NEW S, NEW s \in Seq(S), NoRepeat(s),
         NEW o \in Seq(S), NoRepeat(o),
         NEW j \in 1..Len(s),
         \A k \in 1..Len(o) : Before(s, s[j], o[k])
  PROVE  j + Len(o) <= Len(s)
<1> DEFINE T == (j + 1)..Len(s)
           place(k) == CHOOSE m \in T : s[m] = o[k]
           f == [k \in 1..Len(o) |-> place(k)]
<1>1. Len(s) \in Nat /\ DOMAIN s = 1..Len(s) /\ Len(o) \in Nat /\ DOMAIN o = 1..Len(o)
  OBVIOUS
<1>2. ASSUME NEW k \in 1..Len(o) PROVE place(k) \in T /\ s[place(k)] = o[k]
  <2>1. PICK i \in 1..Len(s), m \in 1..Len(s) : i < m /\ s[i] = s[j] /\ s[m] = o[k]
    BY <1>1 DEF Before
  <2>2. i = j
    BY <1>1, <2>1 DEF NoRepeat
  <2>3. m \in T
    BY <1>1, <2>1, <2>2
  <2>4. QED
    BY <2>1, <2>3
<1> HIDE DEF place
<1>3. f \in Injection(1..Len(o), T)
  <2>1. f \in [1..Len(o) -> T]
    BY <1>2
  <2>2. ASSUME NEW k \in 1..Len(o), NEW l \in 1..Len(o), f[k] = f[l] PROVE k = l
    <3>1. o[k] = o[l]
      BY <1>2, <2>2
    <3>2. QED
      BY <1>1, <3>1 DEF NoRepeat
  <2>3. QED
    BY <2>1, <2>2 DEF Injection, IsInjective
<1> HIDE DEF f
<1>4. /\ IsFiniteSet(T)
      /\ Cardinality(T) = IF j + 1 > Len(s) THEN 0 ELSE Len(s) - (j + 1) + 1
  <2>1. j + 1 \in Int /\ Len(s) \in Int
    BY <1>1
  <2>2. QED
    BY <2>1, FS_Interval
<1>5. Cardinality(1..Len(o)) = Len(o)
  <2>1. Cardinality(1..Len(o)) = IF 1 > Len(o) THEN 0 ELSE Len(o) - 1 + 1
    BY <1>1, 1 \in Int, Len(o) \in Int, FS_Interval
  <2>2. QED
    BY <1>1, <2>1
<1>6. Cardinality(1..Len(o)) <= Cardinality(T)
  BY <1>3, <1>4, FS_Injection
<1> HIDE DEF T
<1>7. QED
  BY <1>1, <1>4, <1>5, <1>6

\* A Miss that evicts: the text that goes is not among the last MaxSize got.
LEMMA EvictedIsOld ==
  ASSUME IInv, NEW q \in Sqls, Miss(q), NEW h \in Evicted
  PROVE  h \notin LastGot(MaxSize)
<1> USE DEF Miss
<1>1. CacheTypeOK /\ OrderIsRecency /\ MaxSize \in Nat \ {0}
  BY TypeParts, StatementsAssumption DEF IInv
<1>2. /\ Len(order) >= MaxSize /\ h = Head(order)
      /\ order # <<>> /\ Kept = Tail(order) /\ order' = Append(Tail(order), q)
  <2>1. Len(order) >= MaxSize /\ Evicted = {Head(order)}
    BY DEF Evicted
  <2>2. order # <<>>
    BY <1>1, <2>1
  <2>3. Kept = Tail(order)
    BY <2>1 DEF Kept
  <2>4. QED
    BY <2>1, <2>2, <2>3
<1>3. q \notin Range(order)
  BY <1>1 DEF CacheTypeOK
<1>4. /\ recent' \in Seq(Sqls) /\ NoRepeat(recent')
      /\ Range(recent') = Range(recent) \cup {q}
      /\ recent' = Append(Without(recent, q), q)
      /\ Without(recent, q) \in Seq(Sqls)
      /\ Range(Without(recent, q)) = Range(recent) \ {q}
      /\ \A b : Before(recent, h, b) /\ h # q /\ b # q => Before(Without(recent, q), h, b)
  <2>1. /\ Without(recent, q) \in Seq(Sqls) /\ NoRepeat(Without(recent, q))
        /\ Range(Without(recent, q)) = Range(recent) \ {q}
        /\ \A b : Before(recent, h, b) /\ h # q /\ b # q => Before(Without(recent, q), h, b)
    BY <1>1, WithoutHolds DEF CacheTypeOK, OrderIsRecency, Recency
  <2>2. recent' = Append(Without(recent, q), q)
    BY DEF Latest
  <2>3. QED
    BY <2>1, <2>2, AppendHolds
<1>5. /\ Tail(order) \in Seq(Sqls) /\ Len(Tail(order)) = Len(order) - 1
      /\ NoRepeat(Tail(order)) /\ Range(Tail(order)) \subseteq Range(order)
      /\ h \in Range(order) /\ Range(order) \subseteq Sqls /\ h # q
  <2>1. Range(order) \subseteq Sqls
    BY <1>1 DEF CacheTypeOK
  <2>2. QED
    BY <1>1, <1>2, <1>3, <2>1, TailHolds, HeadTailProperties DEF CacheTypeOK
<1>6. /\ order' \in Seq(Sqls) /\ NoRepeat(order') /\ Len(order') = Len(order)
      /\ Range(order') = Range(Tail(order)) \cup {q}
  <2>1. q \notin Range(Tail(order))
    BY <1>3, <1>5
  <2>2. order' \in Seq(Sqls) /\ NoRepeat(order') /\ Range(order') = Range(Tail(order)) \cup {q}
    <3>1. /\ Append(Tail(order), q) \in Seq(Sqls)
          /\ Range(Append(Tail(order), q)) = Range(Tail(order)) \cup {q}
          /\ NoRepeat(Append(Tail(order), q))
      BY <1>5, <2>1, AppendHolds, ZenonT(60)
    <3>2. QED
      BY <1>2, <3>1
  <2>3. Len(order') = Len(Tail(order)) + 1
    BY <1>2, <1>5
  <2>4. QED
    BY <1>1, <1>5, <2>2, <2>3 DEF CacheTypeOK
<1>7. ASSUME NEW b \in Range(order') PROVE Before(recent', h, b)
  <2>1. CASE b = q
    <3>1. h \in Range(Without(recent, q))
      BY <1>1, <1>4, <1>5 DEF OrderIsRecency, Recency
    <3>2. QED
      BY <1>4, <2>1, <3>1, AppendBefore
  <2>2. CASE b # q
    <3>1. b \in Range(Tail(order)) /\ b \in Sqls
      BY <1>5, <1>6, <1>7, <2>2
    <3>2. Before(order, h, b)
      BY <1>1, <1>2, <3>1, TailBefore DEF CacheTypeOK
    <3>3. Before(recent, h, b)
      BY <1>1, <1>5, <3>1, <3>2 DEF OrderIsRecency, Recency
    <3>4. Before(Without(recent, q), h, b)
      BY <1>4, <1>5, <2>2, <3>3
    <3>5. QED
      BY <1>4, <3>4, AppendBefore
  <2>3. QED
    BY <2>1, <2>2
<1>8. ASSUME NEW j \in 1..Len(recent'), recent'[j] = h
      PROVE  ~(j + MaxSize > Len(recent'))
  <2>1. \A k \in 1..Len(order') : Before(recent', recent'[j], order'[k])
    BY <1>6, <1>7, <1>8 DEF Range
  <2>2. j + Len(order') <= Len(recent')
    BY <1>4, <1>6, <2>1, RoomBehind
  <2>3. Len(recent') \in Nat /\ Len(order) \in Nat
    BY <1>1, <1>4 DEF CacheTypeOK
  <2>4. QED
    BY <1>1, <1>2, <1>6, <2>2, <2>3
<1>9. DOMAIN recent' = 1..Len(recent')
  BY <1>4
<1>10. QED
  BY <1>8, <1>9 DEF LastGot

\* A get() that succeeds never finalizes a statement whose text is among the last
\* maxSize that were got: #evict takes the text that has not been got for longest,
\* behind which maxSize others have been got since.  Running a Statement object does
\* not count, and a get() whose text cannot be prepared is left out.
THEOREM RecentObjectsStayUsable == Spec => RecentStaysUsable
<1> DEFINE Stays ==
      recent' # recent =>
        \A w \in Wrappers :
          Live(wrapper[w].native) /\ wrapper[w].sql \in LastGot(MaxSize)
            => text'[wrapper[w].native] = wrapper[w].sql
<1>1. IInv /\ [Next]_vars => [Stays]_vars
  <2> SUFFICES ASSUME IInv, [Next]_vars, recent' # recent, NEW w \in Wrappers,
                      Live(wrapper[w].native), wrapper[w].sql \in LastGot(MaxSize)
               PROVE  text'[wrapper[w].native] = wrapper[w].sql
    OBVIOUS
  <2> DEFINE s == wrapper[w].native
             t == wrapper[w].sql
  <2>1. /\ CacheTypeOK /\ CachedAreLive /\ s \in Stmts /\ text[s] = t /\ t # None
        /\ wrapper[w] # NoWrapper
    <3>1. CacheTypeOK /\ OwnersTypeOK /\ CachedAreLive /\ WrapperTexts /\ None \notin Stmts
      BY TypeParts, StatementsAssumption DEF IInv
    <3>2. s \in Stmts /\ text[s] # None
      BY DEF Live
    <3>3. wrapper[w] # NoWrapper
      BY <3>1, <3>2 DEF NoWrapper
    <3>4. QED
      BY <3>1, <3>2, <3>3 DEF WrapperTexts
  <2>2. \E q \in Sqls : Hit(q) \/ Miss(q)
    <3>1. CASE \E q \in Sqls : Execute(q)
      BY <3>1 DEF Execute, Get, MissFails
    <3>2. CASE \E v \in Wrappers, q \in Sqls : Prepare(v, q)
      BY <3>2 DEF Prepare, Get
    <3>3. QED
      BY <3>1, <3>2 DEF Next, Finalize, Forget, TxBegins, TxEnds, GetOrPrepare,
                        TxFinalize, Close, TxForget, PrepareDirect,
                        Collect, vars
  <2>3. PICK q \in Sqls : Hit(q) \/ Miss(q)
    BY <2>2
  <2>4. CASE Hit(q)
    BY <2>1, <2>4 DEF Hit
  <2>5. CASE Miss(q)
    <3> DEFINE left == Finalized({cached[p] : p \in Evicted})
    <3>1. NewStatement \in Stmts /\ s # NewStatement
      BY <2>1, <2>5, NewStatementIsUnused DEF Miss, Held
    <3>2. \A p \in Evicted : cached[p] # s
      <4> SUFFICES ASSUME NEW p \in Evicted, cached[p] = s PROVE FALSE
        OBVIOUS
      <4>1. p \in Sqls
        BY <2>1, EvictHolds DEF CacheTypeOK
      <4>2. p = t
        BY <2>1, <4>1, StatementsAssumption DEF CachedAreLive
      <4>3. QED
        BY <2>5, <4>2, EvictedIsOld
    <3>3. left[s] = text[s] /\ left \in [Stmts -> Sqls \cup {None}]
      BY <2>1, <3>2 DEF Finalized, CacheTypeOK
    <3> HIDE DEF left
    <3>4. text' = [left EXCEPT ![NewStatement] = q]
      BY <2>5 DEF Miss, left
    <3>5. QED
      BY <2>1, <3>1, <3>3, <3>4
  <2>6. QED
    BY <2>3, <2>4, <2>5
<1>2. QED
  BY <1>1, Inductive, PTL DEF Spec, RecentStaysUsable
=============================================================================
