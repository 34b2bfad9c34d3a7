---------------------- MODULE TransactionManager_proofs ----------------------
(***************************************************************************)
(* Proofs about the transactions of a BunQL database, for every set of calls, *)
(* every set of faults and every depth of nesting.  BaseInv holds whoever     *)
(* calls transaction(); what is proved from it is that the manager, the queue *)
(* and the connection agree on whether a transaction is open.  BaseInv and     *)
(* NestedInv are also kept by the facade, whose items are not all transactions. *)
(***************************************************************************)
EXTENDS TransactionManager, SequenceLemmas, TLAPS

-----------------------------------------------------------------------------
(* The connection.  The savepoints of BunQL are numbered upwards, so their      *)
(* names increase from the bottom of the stack to its top, and a row is written *)
(* once, so that no two frames have it; the lemmas say that every operation     *)
(* keeps this, and which rows are in a frame and those above it afterwards:      *)
(* what ROLLBACK TO would undo.                                              *)

Frames(R) == [name : Nat, rows : SUBSET R]

Connections(R) == [durable : SUBSET R, stack : Seq(Frames(R))]

\* The transaction is at the bottom and the savepoints are in the order they
\* were opened.
Ordered(cn) ==
  /\ cn.stack # <<>> => cn.stack[1].name = TxFrame
  /\ \A i, j \in DOMAIN cn.stack : i < j => cn.stack[i].name < cn.stack[j].name

\* Every row is in one frame at most.
Apart(cn) ==
  \A i, j \in DOMAIN cn.stack :
    i # j => cn.stack[i].rows \cap cn.stack[j].rows = {}

\* The rows of frame i and of the frames above it.
RowsFrom(cn, i) == UNION {cn.stack[j].rows : j \in i..Len(cn.stack)}

LEMMA StackFacts ==
  ASSUME NEW R, NEW cn \in Connections(R)
  PROVE  /\ cn.stack \in Seq(Frames(R))
         /\ cn.durable \in SUBSET R
         /\ Len(cn.stack) \in Nat
         /\ DOMAIN cn.stack = 1..Len(cn.stack)
         /\ \A i \in 1..Len(cn.stack) :
              /\ cn.stack[i] \in Frames(R)
              /\ cn.stack[i].name \in Nat
              /\ cn.stack[i].rows \subseteq R
         /\ InTransaction(cn) <=> Len(cn.stack) > 0
         /\ Uncommitted(cn) = RowsFrom(cn, 1)
         /\ Uncommitted(cn) \subseteq R
<1>1. cn.stack \in Seq(Frames(R)) /\ cn.durable \in SUBSET R
  BY DEF Connections
<1>2. /\ Len(cn.stack) \in Nat
      /\ DOMAIN cn.stack = 1..Len(cn.stack)
      /\ \A i \in 1..Len(cn.stack) : cn.stack[i] \in Frames(R)
  BY <1>1
<1>3. \A i \in 1..Len(cn.stack) : cn.stack[i].name \in Nat /\ cn.stack[i].rows \subseteq R
  BY <1>2 DEF Frames
<1>4. InTransaction(cn) <=> Len(cn.stack) > 0
  BY <1>1, <1>2, EmptySeq DEF InTransaction
<1>5. Uncommitted(cn) = RowsFrom(cn, 1)
  BY <1>2 DEF Uncommitted, RowsFrom
<1>6. Uncommitted(cn) \subseteq R
  BY <1>2, <1>3 DEF Uncommitted
<1>7. QED
  BY <1>1, <1>2, <1>3, <1>4, <1>5, <1>6

\* The rows above a frame are among those above a lower one.
LEMMA RowsFromShrinks ==
  ASSUME NEW R, NEW cn \in Connections(R),
         NEW i \in 1..Len(cn.stack), NEW n \in i..Len(cn.stack)
  PROVE  RowsFrom(cn, n) \subseteq RowsFrom(cn, i)
<1>1. n..Len(cn.stack) \subseteq i..Len(cn.stack)
  BY StackFacts
<1>2. QED
  BY <1>1 DEF RowsFrom

\* A savepoint is found by its name.
LEMMA FrameFound ==
  ASSUME NEW R, NEW cn \in Connections(R), Ordered(cn),
         NEW n \in 1..Len(cn.stack)
  PROVE  /\ HasSavepoint(cn, cn.stack[n].name)
         /\ FrameOf(cn, cn.stack[n].name) = n
<1>1. /\ Len(cn.stack) \in Nat /\ DOMAIN cn.stack = 1..Len(cn.stack)
      /\ \A i \in 1..Len(cn.stack) : cn.stack[i].name \in Nat
  BY StackFacts
<1>2. \A j \in 1..Len(cn.stack) : cn.stack[j].name = cn.stack[n].name => j = n
  <2> SUFFICES ASSUME NEW j \in 1..Len(cn.stack), cn.stack[j].name = cn.stack[n].name, j # n
               PROVE  FALSE
    OBVIOUS
  <2>1. CASE j < n
    BY <1>1, <2>1, SMTT(30) DEF Ordered
  <2>2. CASE n < j
    BY <1>1, <2>2, SMTT(30) DEF Ordered
  <2>3. QED
    BY <1>1, <2>1, <2>2
<1>3. HasSavepoint(cn, cn.stack[n].name)
  BY <1>1 DEF HasSavepoint
<1>4. FrameOf(cn, cn.stack[n].name) = n
  <2> DEFINE P(i) == /\ cn.stack[i].name = cn.stack[n].name
                     /\ \A j \in DOMAIN cn.stack :
                          cn.stack[j].name = cn.stack[n].name => j <= i
  <2>1. P(n) /\ \A i \in DOMAIN cn.stack : P(i) => i = n
    BY <1>1, <1>2
  <2>2. FrameOf(cn, cn.stack[n].name) = CHOOSE i \in DOMAIN cn.stack : P(i)
    BY DEF FrameOf
  <2> HIDE DEF P
  <2>3. QED
    BY <1>1, <2>1, <2>2
<1>5. QED
  BY <1>3, <1>4

\* A connection with another stack.
LEMMA OtherStack ==
  ASSUME NEW R, NEW cn \in Connections(R)
  PROVE  /\ \A st : [cn EXCEPT !.stack = st] = [durable |-> cn.durable, stack |-> st]
         /\ \A st \in Seq(Frames(R)) :
              [durable |-> cn.durable, stack |-> st] \in Connections(R)
<1>1. \A st : [cn EXCEPT !.stack = st] = [durable |-> cn.durable, stack |-> st]
  BY DEF Connections
<1>2. \A st \in Seq(Frames(R)) : [durable |-> cn.durable, stack |-> st] \in Connections(R)
  BY DEF Connections
<1>3. QED
  BY <1>1, <1>2

\* BEGIN, when no transaction is open.
LEMMA BeginHolds ==
  ASSUME NEW R, NEW cn \in Connections(R)
  PROVE  /\ Begin(cn) \in Connections(R)
         /\ Begin(cn).durable = cn.durable
         /\ Begin(cn).stack = <<[name |-> TxFrame, rows |-> {}]>>
         /\ InTransaction(Begin(cn))
         /\ Ordered(Begin(cn)) /\ Apart(Begin(cn))
         /\ Uncommitted(Begin(cn)) = {}
<1> DEFINE s == <<[name |-> TxFrame, rows |-> {}]>>
<1>1. Begin(cn) = [durable |-> cn.durable, stack |-> s] /\ cn.durable \in SUBSET R
  <2>1. Begin(cn) = [cn EXCEPT !.stack = s]
    BY DEF Begin
  <2>2. QED
    BY <2>1, OtherStack, StackFacts, Zenon
<1>2. [name |-> TxFrame, rows |-> {}] \in Frames(R)
  <2>1. TxFrame \in Nat /\ {} \in SUBSET R
    BY DEF TxFrame
  <2>2. QED
    BY <2>1, Zenon DEF Frames
<1>3. s \in Seq(Frames(R)) /\ DOMAIN s = {1} /\ s # <<>>
  BY <1>2
<1>4. s[1].name = TxFrame /\ s[1].rows = {}
  OBVIOUS
<1> HIDE DEF s
<1>5. /\ Begin(cn) \in Connections(R)
      /\ Begin(cn).durable = cn.durable /\ Begin(cn).stack = s
  BY <1>1, <1>3 DEF Connections
<1>6. Ordered(Begin(cn)) /\ Apart(Begin(cn)) /\ Uncommitted(Begin(cn)) = {}
  BY <1>3, <1>4, <1>5 DEF Ordered, Apart, Uncommitted
<1>7. InTransaction(Begin(cn))
  BY <1>3, <1>5 DEF InTransaction
<1>8. QED
  BY <1>5, <1>6, <1>7 DEF s

\* ROLLBACK leaves the committed rows.
LEMMA RollbackHolds ==
  ASSUME NEW R, NEW cn \in Connections(R)
  PROVE  /\ Rollback(cn) \in Connections(R)
         /\ Rollback(cn) = [durable |-> cn.durable, stack |-> <<>>]
         /\ ~InTransaction(Rollback(cn))
         /\ Ordered(Rollback(cn)) /\ Apart(Rollback(cn))
         /\ Uncommitted(Rollback(cn)) = {}
<1>1. /\ Rollback(cn) = [durable |-> cn.durable, stack |-> <<>>]
      /\ cn.durable \in SUBSET R
  BY DEF Rollback, Connections
<1>2. <<>> \in Seq(Frames(R)) /\ DOMAIN <<>> = {}
  OBVIOUS
<1>3. QED
  BY <1>1, <1>2 DEF Connections, Ordered, Apart, Uncommitted, InTransaction

\* COMMIT makes the rows of every frame durable.
LEMMA CommitHolds ==
  ASSUME NEW R, NEW cn \in Connections(R)
  PROVE  /\ Commit(cn) \in Connections(R)
         /\ Commit(cn) = [durable |-> cn.durable \cup Uncommitted(cn), stack |-> <<>>]
         /\ ~InTransaction(Commit(cn))
         /\ Ordered(Commit(cn)) /\ Apart(Commit(cn))
         /\ Uncommitted(Commit(cn)) = {}
<1>1. /\ Commit(cn) = [durable |-> cn.durable \cup Uncommitted(cn), stack |-> <<>>]
      /\ cn.durable \in SUBSET R /\ Uncommitted(cn) \subseteq R
  BY StackFacts DEF Commit, Visible
<1>2. <<>> \in Seq(Frames(R)) /\ DOMAIN <<>> = {}
  OBVIOUS
<1>3. QED
  BY <1>1, <1>2 DEF Connections, Ordered, Apart, Uncommitted, InTransaction

\* The connection sp is cn with an empty frame on top.
AddsFrame(cn, sp, nm) ==
  LET n == Len(cn.stack)
  IN /\ sp.durable = cn.durable
     /\ Len(sp.stack) = n + 1
     /\ \A i \in 1..n : sp.stack[i].name = cn.stack[i].name
                        /\ RowsFrom(sp, i) = RowsFrom(cn, i)
     /\ sp.stack[n + 1].name = nm /\ RowsFrom(sp, n + 1) = {}
     /\ Uncommitted(sp) = Uncommitted(cn)

\* SAVEPOINT, inside a transaction and with a new name.
LEMMA SavepointHolds ==
  ASSUME NEW R, NEW cn \in Connections(R), InTransaction(cn), Ordered(cn), Apart(cn),
         NEW nm \in Nat, \A i \in DOMAIN cn.stack : cn.stack[i].name < nm
  PROVE  /\ Savepoint(cn, nm) \in Connections(R) /\ InTransaction(Savepoint(cn, nm))
         /\ Ordered(Savepoint(cn, nm)) /\ Apart(Savepoint(cn, nm))
         /\ AddsFrame(cn, Savepoint(cn, nm), nm)
<1> DEFINE n == Len(cn.stack)
           fr == [name |-> nm, rows |-> {}]
           sp == Savepoint(cn, nm)
<1>1. /\ n \in Nat \ {0} /\ cn.stack \in Seq(Frames(R)) /\ DOMAIN cn.stack = 1..n
      /\ \A i \in 1..n : cn.stack[i].name \in Nat
  BY StackFacts
<1>2. fr \in Frames(R) /\ fr.name = nm /\ fr.rows = {}
  <2>1. {} \in SUBSET R
    OBVIOUS
  <2>2. QED
    BY <2>1, Zenon DEF Frames
<1> HIDE DEF fr, n
<1>3. /\ sp \in Connections(R) /\ sp.durable = cn.durable
      /\ sp.stack = Append(cn.stack, fr)
  <2>1. Append(cn.stack, fr) \in Seq(Frames(R))
    BY <1>1, <1>2
  <2>2. sp = [cn EXCEPT !.stack = Append(cn.stack, fr)]
    BY DEF Savepoint, fr
  <2>3. sp = [durable |-> cn.durable, stack |-> Append(cn.stack, fr)]
    BY <2>2, OtherStack, Zenon
  <2> HIDE DEF sp
  <2>4. QED
    BY <2>1, <2>3, OtherStack
<1> HIDE DEF sp
<1>4. /\ Len(sp.stack) = n + 1 /\ DOMAIN sp.stack = 1..(n + 1)
      /\ \A i \in 1..n : sp.stack[i] = cn.stack[i]
      /\ sp.stack[n + 1] = fr
      /\ sp.stack # <<>>
  BY <1>1, <1>2, <1>3 DEF n
<1>5. ASSUME NEW i \in 1..n PROVE RowsFrom(sp, i) = RowsFrom(cn, i)
  <2>1. i..(n + 1) = i..n \cup {n + 1}
    BY <1>1
  <2>2. \A j \in i..n : j \in 1..n /\ sp.stack[j] = cn.stack[j]
    BY <1>1, <1>4
  <2>3. RowsFrom(sp, i) = UNION {sp.stack[j].rows : j \in i..(n + 1)}
    BY <1>4 DEF RowsFrom
  <2>4. RowsFrom(cn, i) = UNION {cn.stack[j].rows : j \in i..n}
    BY DEF RowsFrom, n
  <2>5. sp.stack[n + 1].rows = {}
    BY <1>2, <1>4
  <2>6. ASSUME NEW x \in RowsFrom(sp, i) PROVE x \in RowsFrom(cn, i)
    <3>1. PICK j \in i..(n + 1) : x \in sp.stack[j].rows
      BY <2>3
    <3>2. j \in i..n
      BY <2>1, <2>5, <3>1
    <3>3. QED
      BY <2>2, <2>4, <3>1, <3>2
  <2>7. ASSUME NEW x \in RowsFrom(cn, i) PROVE x \in RowsFrom(sp, i)
    BY <2>1, <2>2, <2>3, <2>4
  <2>8. QED
    BY <2>6, <2>7
<1>6. RowsFrom(sp, n + 1) = {}
  <2>1. (n + 1)..(n + 1) = {n + 1}
    BY <1>1
  <2>2. QED
    BY <1>2, <1>4, <2>1 DEF RowsFrom
<1>7. Ordered(sp)
  <2>1. sp.stack[1].name = TxFrame
    BY <1>1, <1>4, StackFacts DEF Ordered, n
  <2>2. ASSUME NEW i \in 1..(n + 1), NEW j \in 1..(n + 1), i < j
        PROVE  sp.stack[i].name < sp.stack[j].name
    <3>1. i \in 1..n
      BY <1>1, <2>2
    <3>2. CASE j = n + 1
      BY <1>1, <1>2, <1>4, <3>1, <3>2
    <3>3. CASE j # n + 1
      <4>1. j \in 1..n /\ cn.stack[i].name < cn.stack[j].name
        BY <1>1, <2>2, <3>1, <3>3, SMTT(30) DEF Ordered
      <4>2. QED
        BY <1>4, <3>1, <4>1
    <3>4. QED
      BY <3>2, <3>3
  <2>3. QED
    BY <1>4, <2>1, <2>2 DEF Ordered
<1>8. Apart(sp)
  <2>1. ASSUME NEW i \in 1..(n + 1), NEW j \in 1..(n + 1), i # j
        PROVE  sp.stack[i].rows \cap sp.stack[j].rows = {}
    <3>1. CASE i = n + 1 \/ j = n + 1
      BY <1>2, <1>4, <3>1
    <3>2. CASE i # n + 1 /\ j # n + 1
      <4>1. i \in 1..n /\ j \in 1..n
        BY <1>1, <3>2
      <4>2. cn.stack[i].rows \cap cn.stack[j].rows = {}
        BY <1>1, <2>1, <4>1 DEF Apart
      <4>3. QED
        BY <1>4, <4>1, <4>2
    <3>3. QED
      BY <3>1, <3>2
  <2>2. QED
    BY <1>4, <2>1 DEF Apart
<1>9. Uncommitted(sp) = Uncommitted(cn)
  <2>1. Uncommitted(sp) = RowsFrom(sp, 1) /\ Uncommitted(cn) = RowsFrom(cn, 1)
    BY <1>3, StackFacts
  <2>2. QED
    BY <1>1, <1>5, <2>1
<1>10. InTransaction(sp)
  BY <1>4 DEF InTransaction
<1>11. sp.stack[n + 1].name = nm /\ \A i \in 1..n : sp.stack[i].name = cn.stack[i].name
  BY <1>2, <1>4
<1>12. QED
  BY <1>3, <1>4, <1>5, <1>6, <1>7, <1>8, <1>9, <1>10, <1>11 DEF sp, n, AddsFrame

\* The connection w is cn with one more row in the frame on top.
AddsRow(cn, w, row) ==
  LET n == Len(cn.stack)
  IN /\ w.durable = cn.durable
     /\ Len(w.stack) = n
     /\ \A i \in 1..n : w.stack[i].name = cn.stack[i].name
                        /\ RowsFrom(w, i) = RowsFrom(cn, i) \cup {row}
     /\ Uncommitted(w) = Uncommitted(cn) \cup {row}

\* A statement inside a transaction writes a new row into the frame on top.
LEMMA WriteHolds ==
  ASSUME NEW R, NEW cn \in Connections(R), InTransaction(cn), Ordered(cn), Apart(cn),
         NEW row \in R, row \notin Uncommitted(cn)
  PROVE  /\ WriteRow(cn, row) \in Connections(R) /\ InTransaction(WriteRow(cn, row))
         /\ Ordered(WriteRow(cn, row)) /\ Apart(WriteRow(cn, row))
         /\ AddsRow(cn, WriteRow(cn, row), row)
<1> DEFINE n == Len(cn.stack)
           fr == [cn.stack[n] EXCEPT !.rows = @ \cup {row}]
           st == [cn.stack EXCEPT ![n] = fr]
           w == WriteRow(cn, row)
<1>1. /\ n \in Nat \ {0} /\ cn.stack \in Seq(Frames(R)) /\ DOMAIN cn.stack = 1..n
      /\ \A i \in 1..n : cn.stack[i] \in Frames(R) /\ cn.stack[i].name \in Nat
      /\ n \in 1..n
  BY StackFacts
<1>2. /\ fr \in Frames(R) /\ fr.name = cn.stack[n].name
      /\ fr.rows = cn.stack[n].rows \cup {row}
  <2>1. cn.stack[n] \in [name : Nat, rows : SUBSET R]
    BY <1>1 DEF Frames
  <2>2. QED
    BY <2>1 DEF Frames
<1> HIDE DEF fr, n
<1>3. st \in Seq(Frames(R)) /\ Len(st) = n /\ DOMAIN st = 1..n
      /\ st[n] = fr /\ \A i \in 1..n : i # n => st[i] = cn.stack[i]
  BY <1>1, <1>2 DEF n
<1>4. w \in Connections(R) /\ w.durable = cn.durable /\ w.stack = st
  <2>1. w = [cn EXCEPT !.stack = st]
    BY DEF WriteRow, st, fr, n
  <2>2. w = [durable |-> cn.durable, stack |-> st]
    BY <2>1, OtherStack, Zenon
  <2> HIDE DEF w, st
  <2>3. QED
    BY <1>3, <2>2, OtherStack
<1> HIDE DEF w, st
<1>5. ASSUME NEW i \in 1..n
      PROVE  w.stack[i].name = cn.stack[i].name /\ RowsFrom(w, i) = RowsFrom(cn, i) \cup {row}
  <2>1. w.stack[i].name = cn.stack[i].name
    BY <1>2, <1>3, <1>4
  <2>2. i..n \subseteq 1..n /\ n \in i..n
    BY <1>1
  <2>3. ASSUME NEW j \in i..n, j # n PROVE w.stack[j] = cn.stack[j]
    <3>1. j \in 1..n
      BY <2>2
    <3>2. QED
      BY <1>3, <1>4, <2>3, <3>1
  <2>4. w.stack[n].rows = cn.stack[n].rows \cup {row}
    BY <1>2, <1>3, <1>4
  <2>5. RowsFrom(w, i) = UNION {w.stack[j].rows : j \in i..n}
    BY <1>3, <1>4 DEF RowsFrom
  <2>6. RowsFrom(cn, i) = UNION {cn.stack[j].rows : j \in i..n}
    BY DEF RowsFrom, n
  <2>7. ASSUME NEW x \in RowsFrom(w, i) PROVE x \in RowsFrom(cn, i) \cup {row}
    <3>1. PICK j \in i..n : x \in w.stack[j].rows
      BY <2>5
    <3>2. QED
      BY <2>3, <2>4, <2>6, <3>1
  <2>8. ASSUME NEW x \in RowsFrom(cn, i) \cup {row} PROVE x \in RowsFrom(w, i)
    <3>1. CASE x = row
      BY <2>2, <2>4, <2>5, <3>1
    <3>2. CASE x \in RowsFrom(cn, i)
      <4>1. PICK j \in i..n : x \in cn.stack[j].rows
        BY <2>6, <3>2
      <4>2. QED
        BY <2>3, <2>4, <2>5, <4>1
    <3>3. QED
      BY <2>8, <3>1, <3>2
  <2>9. QED
    BY <2>1, <2>7, <2>8
<1>6. Ordered(w)
  <2>1. w.stack # <<>> /\ w.stack[1].name = TxFrame
    BY <1>1, <1>3, <1>4, <1>5, StackFacts DEF Ordered
  <2>2. QED
    BY <1>1, <1>3, <1>4, <1>5, <2>1 DEF Ordered
<1>7. Apart(w)
  <2> SUFFICES ASSUME NEW i \in 1..n, NEW j \in 1..n, i # j
               PROVE  w.stack[i].rows \cap w.stack[j].rows = {}
    BY <1>3, <1>4 DEF Apart
  <2>1. cn.stack[i].rows \cap cn.stack[j].rows = {}
    BY <1>1 DEF Apart
  <2>2. row \notin cn.stack[i].rows /\ row \notin cn.stack[j].rows
    BY <1>1 DEF Uncommitted
  <2>3. /\ w.stack[i].rows \subseteq cn.stack[i].rows \cup (IF i = n THEN {row} ELSE {})
        /\ w.stack[j].rows \subseteq cn.stack[j].rows \cup (IF j = n THEN {row} ELSE {})
    BY <1>2, <1>3, <1>4
  <2>4. QED
    BY <2>1, <2>2, <2>3
<1>8. Uncommitted(w) = Uncommitted(cn) \cup {row}
  <2>1. Uncommitted(w) = RowsFrom(w, 1) /\ Uncommitted(cn) = RowsFrom(cn, 1)
    BY <1>4, StackFacts
  <2>2. QED
    BY <1>1, <1>5, <2>1
<1>9. InTransaction(w)
  BY <1>1, <1>3, <1>4, StackFacts
<1>10. QED
  BY <1>3, <1>4, <1>5, <1>6, <1>7, <1>8, <1>9 DEF w, n, AddsRow

\* The stack cut above frame m, with other rows in the frame on top.
Cut(cn, m, X) ==
  [durable |-> cn.durable, stack |-> [SubSeq(cn.stack, 1, m) EXCEPT ![m].rows = X]]

LEMMA CutStack ==
  ASSUME NEW R, NEW cn \in Connections(R), NEW m \in 1..Len(cn.stack), NEW X \in SUBSET R,
         Ordered(cn)
  PROVE  LET cut == Cut(cn, m, X)
         IN /\ cut \in Connections(R) /\ InTransaction(cut) /\ Ordered(cut)
            /\ cut.durable = cn.durable
            /\ Len(cut.stack) = m /\ DOMAIN cut.stack = 1..m
            /\ cut.stack[m].rows = X
            /\ \A i \in 1..m : cut.stack[i].name = cn.stack[i].name
            /\ \A i \in 1..m : i # m => cut.stack[i].rows = cn.stack[i].rows
<1> DEFINE sub == SubSeq(cn.stack, 1, m)
           fr == [sub[m] EXCEPT !.rows = X]
           st == [sub EXCEPT ![m] = fr]
           cut == Cut(cn, m, X)
<1>1. /\ cn.stack \in Seq(Frames(R)) /\ Len(cn.stack) \in Nat
      /\ DOMAIN cn.stack = 1..Len(cn.stack)
      /\ \A i \in 1..Len(cn.stack) : cn.stack[i] \in Frames(R)
      /\ m \in Nat \ {0} /\ 1..m \subseteq 1..Len(cn.stack)
  BY StackFacts
<1>2. /\ sub \in Seq(Frames(R)) /\ Len(sub) = m /\ DOMAIN sub = 1..m
      /\ \A i \in 1..m : sub[i] = cn.stack[i]
  BY <1>1
<1> HIDE DEF sub
<1>3. fr \in Frames(R) /\ fr.name = cn.stack[m].name /\ fr.rows = X
  <2>1. sub[m] \in [name : Nat, rows : SUBSET R] /\ sub[m] = cn.stack[m]
    BY <1>1, <1>2 DEF Frames
  <2>2. QED
    BY <2>1 DEF Frames
<1> HIDE DEF fr
<1>4. /\ st \in Seq(Frames(R)) /\ Len(st) = m /\ DOMAIN st = 1..m
      /\ st[m] = fr /\ \A i \in 1..m : i # m => st[i] = cn.stack[i]
  BY <1>1, <1>2, <1>3
<1>5. cut \in Connections(R) /\ cut.durable = cn.durable /\ cut.stack = st
  <2>1. cut = [durable |-> cn.durable, stack |-> st]
    BY DEF Cut, st, fr, sub
  <2> HIDE DEF st, cut
  <2>2. QED
    BY <1>4, <2>1, OtherStack
<1> HIDE DEF st, cut
<1>6. \A i \in 1..m : st[i].name = cn.stack[i].name
  BY <1>3, <1>4
<1>7. Ordered(cut)
  <2>1. st[1].name = TxFrame
    BY <1>1, <1>6, StackFacts DEF Ordered, InTransaction
  <2>2. ASSUME NEW i \in 1..m, NEW j \in 1..m, i < j PROVE st[i].name < st[j].name
    <3>1. i \in 1..Len(cn.stack) /\ j \in 1..Len(cn.stack)
      BY <1>1
    <3>2. cn.stack[i].name < cn.stack[j].name
      BY <1>1, <2>2, <3>1 DEF Ordered
    <3>3. QED
      BY <1>6, <3>2
  <2>3. QED
    BY <1>4, <1>5, <2>1, <2>2 DEF Ordered
<1>8. InTransaction(cut)
  BY <1>1, <1>4, <1>5 DEF InTransaction
<1>9. QED
  BY <1>3, <1>4, <1>5, <1>6, <1>7, <1>8 DEF cut

\* The connection rl is cn without frame n and those above it, whose rows went
\* to the frame below.
MergesFrames(cn, rl, n) ==
  /\ rl.durable = cn.durable
  /\ Len(rl.stack) = n - 1
  /\ \A i \in 1..(n - 1) : rl.stack[i].name = cn.stack[i].name
                           /\ RowsFrom(rl, i) = RowsFrom(cn, i)
  /\ Uncommitted(rl) = Uncommitted(cn)

\* RELEASE of a savepoint: its rows, and those above, belong to the frame below.
LEMMA ReleaseHolds ==
  ASSUME NEW R, NEW cn \in Connections(R), Ordered(cn), Apart(cn),
         NEW n \in 2..Len(cn.stack)
  PROVE  LET rl == Release(cn, cn.stack[n].name)
         IN /\ rl \in Connections(R) /\ InTransaction(rl)
            /\ Ordered(rl) /\ Apart(rl)
            /\ MergesFrames(cn, rl, n)
<1> DEFINE m == n - 1
           freed == RowsFrom(cn, n)
           X == cn.stack[m].rows \cup freed
           rl == Release(cn, cn.stack[n].name)
<1>1. /\ Len(cn.stack) \in Nat /\ DOMAIN cn.stack = 1..Len(cn.stack)
      /\ n \in 1..Len(cn.stack) /\ n # 1
      /\ m \in 1..Len(cn.stack)
      /\ n..Len(cn.stack) \subseteq 1..Len(cn.stack)
      /\ \A i \in 1..Len(cn.stack) : cn.stack[i].rows \subseteq R
  BY StackFacts
<1>2. freed \subseteq R /\ X \subseteq R
  BY <1>1 DEF RowsFrom
<1>3. FrameOf(cn, cn.stack[n].name) = n
  BY <1>1, FrameFound
<1>4. rl = Cut(cn, m, X)
  <2>1. SubSeq(cn.stack, 1, m)[m].rows = cn.stack[m].rows
    BY <1>1, StackFacts
  <2>2. rl = [cn EXCEPT !.stack = [SubSeq(cn.stack, 1, n - 1) EXCEPT
               ![n - 1].rows = @ \cup UNION {cn.stack[i].rows : i \in n..Len(cn.stack)}]]
    <3> DEFINE k == FrameOf(cn, cn.stack[n].name)
    <3>1. k = n /\ k # 1
      BY <1>1, <1>3
    <3>2. k # 1 => rl = [cn EXCEPT !.stack = [SubSeq(cn.stack, 1, k - 1) EXCEPT
               ![k - 1].rows = @ \cup UNION {cn.stack[i].rows : i \in k..Len(cn.stack)}]]
      BY Zenon DEF Release
    <3> HIDE DEF k, rl
    <3>3. QED
      BY <3>1, <3>2, Zenon
  <2>3. rl = [cn EXCEPT !.stack = [SubSeq(cn.stack, 1, m) EXCEPT
               ![m].rows = SubSeq(cn.stack, 1, m)[m].rows \cup freed]]
    <3>1. freed = UNION {cn.stack[i].rows : i \in n..Len(cn.stack)}
      BY DEF RowsFrom
    <3>2. ASSUME NEW Y, Y = UNION {cn.stack[i].rows : i \in n..Len(cn.stack)}
          PROVE  rl = [cn EXCEPT !.stack = [SubSeq(cn.stack, 1, m) EXCEPT
                         ![m].rows = SubSeq(cn.stack, 1, m)[m].rows \cup Y]]
      <4> HIDE DEF rl
      <4>1. QED
        BY <2>2, <3>2, Zenon
    <3> HIDE DEF rl, freed
    <3>3. QED
      BY <3>1, <3>2, Zenon
  <2>4. rl = [cn EXCEPT !.stack = [SubSeq(cn.stack, 1, m) EXCEPT ![m].rows = X]]
    BY <2>1, <2>3, Zenon
  <2>5. QED
    BY <2>4, OtherStack, Zenon DEF Cut
<1> HIDE DEF rl, X, freed, m
<1>5. /\ rl \in Connections(R) /\ InTransaction(rl) /\ Ordered(rl)
      /\ rl.durable = cn.durable
      /\ Len(rl.stack) = m /\ DOMAIN rl.stack = 1..m
      /\ rl.stack[m].rows = X
      /\ \A i \in 1..m : rl.stack[i].name = cn.stack[i].name
      /\ \A i \in 1..m : i # m => rl.stack[i].rows = cn.stack[i].rows
  BY <1>1, <1>2, <1>4, CutStack
<1>6. ASSUME NEW i \in 1..m PROVE RowsFrom(rl, i) = RowsFrom(cn, i)
  <2>1. /\ i..Len(cn.stack) = i..m \cup n..Len(cn.stack)
        /\ m \in i..m /\ i..m \subseteq 1..m
    BY <1>1 DEF m
  <2>2. RowsFrom(rl, i) = UNION {rl.stack[j].rows : j \in i..m}
    BY <1>5 DEF RowsFrom
  <2>3. RowsFrom(cn, i) = (UNION {cn.stack[j].rows : j \in i..m}) \cup freed
    BY <2>1 DEF RowsFrom, freed
  <2>4. ASSUME NEW x \in RowsFrom(rl, i) PROVE x \in RowsFrom(cn, i)
    <3>1. PICK j \in i..m : x \in rl.stack[j].rows
      BY <2>2
    <3>2. CASE j = m
      BY <1>5, <2>1, <2>3, <3>1, <3>2 DEF X
    <3>3. CASE j # m
      BY <1>5, <2>1, <2>3, <3>1, <3>3, SMTT(30)
    <3>4. QED
      BY <3>2, <3>3
  <2>5. ASSUME NEW x \in RowsFrom(cn, i) PROVE x \in RowsFrom(rl, i)
    <3>1. CASE x \in freed
      BY <1>5, <2>1, <2>2, <3>1 DEF X
    <3>2. CASE x \in UNION {cn.stack[j].rows : j \in i..m}
      <4>1. PICK j \in i..m : x \in cn.stack[j].rows
        BY <3>2
      <4>2. CASE j = m
        BY <1>5, <2>1, <2>2, <4>1, <4>2 DEF X
      <4>3. CASE j # m
        BY <1>5, <2>1, <2>2, <4>1, <4>3
      <4>4. QED
        BY <4>2, <4>3
    <3>3. QED
      BY <2>3, <2>5, <3>1, <3>2
  <2>6. QED
    BY <2>4, <2>5
<1>7. Apart(rl)
  <2> SUFFICES ASSUME NEW i \in 1..m, NEW j \in 1..m, i # j, NEW x \in rl.stack[i].rows
               PROVE  x \notin rl.stack[j].rows
    BY <1>5 DEF Apart
  <2>1. \A k \in 1..m : k # m => k \in 1..Len(cn.stack) /\ k \notin n..Len(cn.stack)
    BY <1>1 DEF m
  <2>2. \A k \in 1..m : k # m => cn.stack[k].rows \cap cn.stack[m].rows = {}
    BY <1>1, <2>1 DEF Apart
  <2>3. \A k \in 1..m : k # m => cn.stack[k].rows \cap freed = {}
    BY <1>1, <2>1 DEF Apart, freed, RowsFrom
  <2>4. CASE i = m
    BY <1>5, <2>2, <2>3, <2>4 DEF X
  <2>5. CASE j = m
    BY <1>5, <2>2, <2>3, <2>5 DEF X
  <2>6. CASE i # m /\ j # m
    <3>1. cn.stack[i].rows \cap cn.stack[j].rows = {}
      BY <1>1, <2>1, <2>6 DEF Apart
    <3>2. QED
      BY <1>5, <2>6, <3>1
  <2>7. QED
    BY <2>4, <2>5, <2>6
<1>8. Uncommitted(rl) = Uncommitted(cn)
  <2>1. Uncommitted(rl) = RowsFrom(rl, 1) /\ Uncommitted(cn) = RowsFrom(cn, 1)
    BY <1>5, StackFacts
  <2>2. 1 \in 1..m
    BY <1>1 DEF m
  <2>3. QED
    BY <1>6, <2>1, <2>2
<1>9. QED
  BY <1>5, <1>6, <1>7, <1>8 DEF rl, m, MergesFrames

\* The connection rb is cn without the frames above frame n and without their
\* rows and its own.
UndoesFrames(cn, rb, n) ==
  /\ rb.durable = cn.durable
  /\ Len(rb.stack) = n
  /\ \A i \in 1..n : rb.stack[i].name = cn.stack[i].name
                     /\ RowsFrom(rb, i) = RowsFrom(cn, i) \ RowsFrom(cn, n)
  /\ Uncommitted(rb) = Uncommitted(cn) \ RowsFrom(cn, n)

\* ROLLBACK TO a savepoint: its rows, and those above, are gone.
LEMMA RollbackToHolds ==
  ASSUME NEW R, NEW cn \in Connections(R), Ordered(cn), Apart(cn),
         NEW n \in 1..Len(cn.stack)
  PROVE  LET rb == RollbackTo(cn, cn.stack[n].name)
         IN /\ rb \in Connections(R) /\ InTransaction(rb)
            /\ Ordered(rb) /\ Apart(rb)
            /\ UndoesFrames(cn, rb, n)
<1> DEFINE rb == RollbackTo(cn, cn.stack[n].name)
<1>1. /\ Len(cn.stack) \in Nat /\ DOMAIN cn.stack = 1..Len(cn.stack)
      /\ 1..n \subseteq 1..Len(cn.stack)
      /\ n..Len(cn.stack) \subseteq 1..Len(cn.stack)
  BY StackFacts
<1>2. FrameOf(cn, cn.stack[n].name) = n
  BY FrameFound
<1>3. rb = Cut(cn, n, {})
  <2>1. rb = [cn EXCEPT !.stack = [SubSeq(cn.stack, 1, n) EXCEPT ![n].rows = {}]]
    BY <1>2 DEF RollbackTo
  <2>2. QED
    BY <2>1, OtherStack, Zenon DEF Cut
<1> HIDE DEF rb
<1>4. /\ rb \in Connections(R) /\ InTransaction(rb) /\ Ordered(rb)
      /\ rb.durable = cn.durable
      /\ Len(rb.stack) = n /\ DOMAIN rb.stack = 1..n
      /\ rb.stack[n].rows = {}
      /\ \A i \in 1..n : rb.stack[i].name = cn.stack[i].name
      /\ \A i \in 1..n : i # n => rb.stack[i].rows = cn.stack[i].rows
  <2>1. {} \in SUBSET R
    OBVIOUS
  <2>2. QED
    BY <1>3, <2>1, CutStack
<1>5. ASSUME NEW i \in 1..n PROVE RowsFrom(rb, i) = RowsFrom(cn, i) \ RowsFrom(cn, n)
  <2>1. /\ i..n \subseteq 1..n /\ i..n \subseteq i..Len(cn.stack)
        /\ \A k \in i..Len(cn.stack) : k \notin n..Len(cn.stack) => k \in i..n /\ k # n
        /\ \A k \in i..n : k # n => k \in 1..Len(cn.stack) /\ k \notin n..Len(cn.stack)
    BY <1>1
  <2>2. RowsFrom(rb, i) = UNION {rb.stack[j].rows : j \in i..n}
    BY <1>4 DEF RowsFrom
  <2>3. ASSUME NEW x \in RowsFrom(rb, i) PROVE x \in RowsFrom(cn, i) \ RowsFrom(cn, n)
    <3>1. PICK j \in i..n : x \in rb.stack[j].rows
      BY <2>2
    <3>2. j # n /\ x \in cn.stack[j].rows
      BY <1>4, <2>1, <3>1
    <3>3. x \in RowsFrom(cn, i)
      BY <2>1, <3>2 DEF RowsFrom
    <3>4. ASSUME NEW k \in n..Len(cn.stack) PROVE x \notin cn.stack[k].rows
      BY <1>1, <2>1, <3>2 DEF Apart
    <3>5. QED
      BY <3>3, <3>4 DEF RowsFrom
  <2>4. ASSUME NEW x \in RowsFrom(cn, i) \ RowsFrom(cn, n) PROVE x \in RowsFrom(rb, i)
    <3>1. PICK j \in i..Len(cn.stack) : x \in cn.stack[j].rows
      BY <2>4 DEF RowsFrom
    <3>2. j \notin n..Len(cn.stack)
      BY <2>4, <3>1 DEF RowsFrom
    <3>3. j \in i..n /\ j # n
      BY <2>1, <3>2
    <3>4. QED
      BY <1>4, <2>1, <2>2, <3>1, <3>3
  <2>5. QED
    BY <2>3, <2>4
<1>6. Apart(rb)
  <2> SUFFICES ASSUME NEW i \in 1..n, NEW j \in 1..n, i # j
               PROVE  rb.stack[i].rows \cap rb.stack[j].rows = {}
    BY <1>4 DEF Apart
  <2>1. cn.stack[i].rows \cap cn.stack[j].rows = {}
    BY <1>1 DEF Apart
  <2>2. QED
    BY <1>4, <2>1
<1>7. Uncommitted(rb) = Uncommitted(cn) \ RowsFrom(cn, n)
  <2>1. Uncommitted(rb) = RowsFrom(rb, 1) /\ Uncommitted(cn) = RowsFrom(cn, 1)
    BY <1>4, StackFacts
  <2>2. 1 \in 1..n
    BY <1>1
  <2>3. QED
    BY <1>5, <2>1, <2>2
<1>8. QED
  BY <1>4, <1>5, <1>6, <1>7 DEF rb, UndoesFrames

-----------------------------------------------------------------------------
(* What every operation keeps, whatever the order of the calls *)

\* No savepoint has a number above k, the last one given.
Numbered(cn, k) == \A i \in DOMAIN cn.stack : cn.stack[i].name <= k

\* A connection whose rows are among those written, W.
Sound(cn, R, k, W) ==
  /\ cn \in Connections(R) /\ Ordered(cn) /\ Apart(cn)
  /\ Numbered(cn, k)
  /\ Visible(cn) \subseteq W

\* In the words of the type invariant.
LEMMA SoundIsTyped ==
  ASSUME NEW R, NEW k \in Nat, NEW cn
  PROVE  cn \in [durable : SUBSET R, stack : Seq([name : TxFrame..k, rows : SUBSET R])]
           <=> cn \in Connections(R) /\ Numbered(cn, k)
<1>1. ASSUME cn \in [durable : SUBSET R, stack : Seq([name : TxFrame..k, rows : SUBSET R])]
      PROVE  cn \in Connections(R) /\ Numbered(cn, k)
  <2>1. TxFrame..k \subseteq Nat
    BY DEF TxFrame
  <2>2. [name : TxFrame..k, rows : SUBSET R] \subseteq Frames(R)
    BY <2>1 DEF Frames
  <2> DEFINE F == [name : TxFrame..k, rows : SUBSET R]
             st == cn.stack
  <2>3. st \in Seq(Frames(R)) /\ \A i \in DOMAIN st : st[i] \in F
    <3>1. st \in Seq(F)
      BY <1>1
    <3> HIDE DEF F, st
    <3>2. Len(st) \in Nat /\ DOMAIN st = 1..Len(st) /\ \A i \in 1..Len(st) : st[i] \in F
      BY <3>1
    <3>3. \A i \in 1..Len(st) : st[i] \in Frames(R)
      BY <2>2, <3>2 DEF F
    <3>4. st \in Seq(Frames(R))
      BY <3>2, <3>3, <3>1
    <3>5. QED
      BY <3>2, <3>4
  <2>4. cn \in Connections(R)
    <3>1. cn \in [durable : SUBSET R, stack : Seq(F)]
      BY <1>1
    <3> HIDE DEF F
    <3>2. cn = [durable |-> cn.durable, stack |-> cn.stack] /\ cn.durable \in SUBSET R
      BY <3>1
    <3>3. QED
      BY <2>3, <3>2 DEF Connections
  <2>5. \A i \in DOMAIN cn.stack : cn.stack[i].name \in TxFrame..k
    BY <2>3
  <2>6. QED
    BY <2>4, <2>5 DEF Numbered, TxFrame
<1>2. ASSUME cn \in Connections(R), Numbered(cn, k)
      PROVE  cn \in [durable : SUBSET R, stack : Seq([name : TxFrame..k, rows : SUBSET R])]
  <2> DEFINE F == [name : TxFrame..k, rows : SUBSET R]
  <2>1. \A i \in 1..Len(cn.stack) :
          cn.stack[i] \in [name : Nat, rows : SUBSET R] /\ cn.stack[i].name \in TxFrame..k
    <3> SUFFICES ASSUME NEW i \in 1..Len(cn.stack)
                 PROVE  /\ cn.stack[i] \in [name : Nat, rows : SUBSET R]
                        /\ cn.stack[i].name \in TxFrame..k
      OBVIOUS
    <3>1. i \in DOMAIN cn.stack /\ cn.stack[i] \in Frames(R) /\ cn.stack[i].name \in Nat
      BY <1>2, StackFacts
    <3>2. cn.stack[i].name <= k
      BY <1>2, <3>1 DEF Numbered
    <3>3. QED
      BY <3>1, <3>2 DEF TxFrame, Frames
  <2>2. \A i \in 1..Len(cn.stack) : cn.stack[i] \in F
    BY <2>1
  <2> HIDE DEF F
  <2>3. cn.stack \in Seq(F)
    BY <1>2, <2>2, StackFacts
  <2>4. cn \in [durable : SUBSET R, stack : Seq(F)]
    BY <1>2, <2>3 DEF Connections
  <2>5. QED
    BY <2>4 DEF F
<1>3. QED
  BY <1>1, <1>2

\* BEGIN, COMMIT, ROLLBACK, SAVEPOINT with the next number, and a new row.
LEMMA OperationsKeepSound ==
  ASSUME NEW R, NEW k \in Nat, NEW W, NEW cn, Sound(cn, R, k, W)
  PROVE  /\ Sound(Begin(cn), R, k, W) /\ InTransaction(Begin(cn))
         /\ Sound(Commit(cn), R, k, W) /\ ~InTransaction(Commit(cn))
         /\ Sound(Rollback(cn), R, k, W) /\ ~InTransaction(Rollback(cn))
         /\ InTransaction(cn) => Sound(Savepoint(cn, k + 1), R, k + 1, W)
                                 /\ InTransaction(Savepoint(cn, k + 1))
         /\ \A row \in R \ W : Sound(WriteRow(cn, row), R, k, W \cup {row})
                               /\ (InTransaction(WriteRow(cn, row)) <=> InTransaction(cn))
<1> USE DEF Sound
<1>0. cn \in Connections(R) /\ Visible(cn) = cn.durable \cup Uncommitted(cn)
  BY DEF Visible
<1>1. Sound(Begin(cn), R, k, W) /\ InTransaction(Begin(cn))
  <2>1. DOMAIN Begin(cn).stack = {1} /\ Begin(cn).stack[1].name = 0
    <3>1. Begin(cn).stack = <<[name |-> TxFrame, rows |-> {}]>>
      BY BeginHolds
    <3>2. QED
      BY <3>1 DEF TxFrame
  <2>2. Numbered(Begin(cn), k)
    BY <2>1 DEF Numbered
  <2>3. Visible(Begin(cn)) \subseteq W
    BY <1>0, BeginHolds DEF Visible
  <2>4. QED
    BY <2>2, <2>3, BeginHolds
<1>2. Sound(Commit(cn), R, k, W) /\ ~InTransaction(Commit(cn))
  <2>1. /\ Commit(cn) = [durable |-> cn.durable \cup Uncommitted(cn), stack |-> <<>>]
        /\ Uncommitted(Commit(cn)) = {}
    BY CommitHolds
  <2>2. Visible(Commit(cn)) \subseteq W
    <3>1. Commit(cn).durable = Visible(cn) /\ Uncommitted(Commit(cn)) = {}
      BY <2>1 DEF Commit
    <3>2. Visible(Commit(cn)) = Visible(cn)
      BY <3>1, Zenon DEF Visible
    <3>3. QED
      BY <3>2
  <2>3. Numbered(Commit(cn), k)
    BY <2>1 DEF Numbered
  <2>4. QED
    BY <2>2, <2>3, CommitHolds
<1>3. Sound(Rollback(cn), R, k, W) /\ ~InTransaction(Rollback(cn))
  <2>1. Visible(Rollback(cn)) \subseteq W
    BY <1>0, RollbackHolds DEF Visible
  <2>2. Numbered(Rollback(cn), k)
    BY RollbackHolds DEF Numbered
  <2>3. QED
    BY <2>1, <2>2, RollbackHolds
<1>4. ASSUME InTransaction(cn)
      PROVE  Sound(Savepoint(cn, k + 1), R, k + 1, W) /\ InTransaction(Savepoint(cn, k + 1))
  <2> DEFINE sp == Savepoint(cn, k + 1)
             n == Len(cn.stack)
  <2>1. \A i \in DOMAIN cn.stack : cn.stack[i].name < k + 1
    BY StackFacts DEF Numbered
  <2>2. /\ sp \in Connections(R) /\ InTransaction(sp) /\ Ordered(sp) /\ Apart(sp)
        /\ sp.durable = cn.durable /\ Uncommitted(sp) = Uncommitted(cn)
        /\ Len(sp.stack) = n + 1
        /\ \A i \in 1..n : sp.stack[i].name = cn.stack[i].name
        /\ sp.stack[n + 1].name = k + 1
    <3>1. /\ sp \in Connections(R) /\ InTransaction(sp) /\ Ordered(sp) /\ Apart(sp)
          /\ AddsFrame(cn, sp, k + 1)
      <4> DEFINE nm == k + 1
      <4>1. nm \in Nat /\ \A i \in DOMAIN cn.stack : cn.stack[i].name < nm
        BY <2>1
      <4> HIDE DEF nm
      <4>2. /\ Savepoint(cn, nm) \in Connections(R) /\ InTransaction(Savepoint(cn, nm))
            /\ Ordered(Savepoint(cn, nm)) /\ Apart(Savepoint(cn, nm))
            /\ AddsFrame(cn, Savepoint(cn, nm), nm)
        BY <1>4, <4>1, SavepointHolds
      <4>3. QED
        BY <4>2, Zenon DEF nm
    <3> HIDE DEF sp
    <3>2. QED
      BY <3>1 DEF AddsFrame
  <2> HIDE DEF sp
  <2>3. /\ n \in Nat /\ DOMAIN cn.stack = 1..n /\ DOMAIN sp.stack = 1..(n + 1)
        /\ \A i \in 1..n : cn.stack[i].name \in Nat
    BY <2>2, StackFacts
  <2>4. Numbered(sp, k + 1)
    <3> SUFFICES ASSUME NEW i \in 1..(n + 1) PROVE sp.stack[i].name <= k + 1
      BY <2>3 DEF Numbered
    <3>1. CASE i = n + 1
      BY <2>2, <3>1
    <3>2. CASE i # n + 1
      <4>1. i \in 1..n
        BY <2>3, <3>2
      <4>2. cn.stack[i].name < k + 1 /\ cn.stack[i].name \in Nat
        BY <2>1, <2>3, <4>1
      <4>3. QED
        BY <2>2, <4>1, <4>2
    <3>3. QED
      BY <3>1, <3>2
  <2>5. Visible(sp) \subseteq W
    BY <1>0, <2>2 DEF Visible
  <2>6. QED
    BY <2>2, <2>4, <2>5 DEF sp
<1>5. ASSUME NEW row \in R \ W
      PROVE  /\ Sound(WriteRow(cn, row), R, k, W \cup {row})
             /\ InTransaction(WriteRow(cn, row)) <=> InTransaction(cn)
  <2> DEFINE w == WriteRow(cn, row)
  <2>1. row \notin Uncommitted(cn)
    BY <1>0
  <2>2. CASE InTransaction(cn)
    <3>1. /\ w \in Connections(R) /\ InTransaction(w) /\ Ordered(w) /\ Apart(w)
          /\ w.durable = cn.durable /\ Len(w.stack) = Len(cn.stack)
          /\ \A i \in 1..Len(cn.stack) : w.stack[i].name = cn.stack[i].name
          /\ Uncommitted(w) = Uncommitted(cn) \cup {row}
      <4>1. /\ w \in Connections(R) /\ InTransaction(w) /\ Ordered(w) /\ Apart(w)
            /\ AddsRow(cn, w, row)
        BY <2>1, <2>2, WriteHolds
      <4> HIDE DEF w
      <4>2. QED
        BY <4>1 DEF AddsRow
    <3> HIDE DEF w
    <3>2. Numbered(w, k)
      BY <3>1, StackFacts, SMTT(30) DEF Numbered
    <3>3. Visible(w) \subseteq W \cup {row}
      BY <1>0, <3>1 DEF Visible
    <3>4. QED
      BY <2>2, <3>1, <3>2, <3>3 DEF w
  <2>3. CASE ~InTransaction(cn)
    <3>1. w = [durable |-> cn.durable \cup {row}, stack |-> cn.stack]
      BY <2>3 DEF WriteRow, Connections
    <3>2. w \in Connections(R)
      BY <3>1 DEF Connections
    <3> HIDE DEF w
    <3>3. w.stack = cn.stack /\ w.durable = cn.durable \cup {row}
      BY <3>1
    <3>4. Ordered(w) /\ Apart(w) /\ Numbered(w, k) /\ ~InTransaction(w)
      BY <2>3, <3>3 DEF Ordered, Apart, Numbered, InTransaction
    <3>5. Visible(w) \subseteq W \cup {row}
      BY <1>0, <3>3 DEF Visible, Uncommitted
    <3>6. QED
      BY <2>3, <3>2, <3>4, <3>5 DEF w
  <2>4. QED
    BY <2>2, <2>3
<1>6. QED
  BY <1>1, <1>2, <1>3, <1>4, <1>5

\* RELEASE and ROLLBACK TO of a savepoint that is there; they leave the transaction.
LEMMA SavepointsKeepSound ==
  ASSUME NEW R, NEW k \in Nat, NEW W, NEW cn, Sound(cn, R, k, W),
         NEW nm \in Nat \ {TxFrame}, HasSavepoint(cn, nm)
  PROVE  /\ Sound(Release(cn, nm), R, k, W) /\ InTransaction(Release(cn, nm))
         /\ Sound(RollbackTo(cn, nm), R, k, W) /\ InTransaction(RollbackTo(cn, nm))
         /\ InTransaction(cn)
<1> USE DEF Sound
<1>1. PICK n \in DOMAIN cn.stack : cn.stack[n].name = nm
  BY DEF HasSavepoint
<1>2. /\ Len(cn.stack) \in Nat /\ DOMAIN cn.stack = 1..Len(cn.stack)
      /\ n \in 1..Len(cn.stack)
      /\ cn.stack # <<>>
  BY <1>1, StackFacts DEF InTransaction
<1>3. n \in 2..Len(cn.stack)
  <2>1. n # 1
    BY <1>1, <1>2 DEF Ordered
  <2>2. QED
    BY <1>2, <2>1
<1>4. Visible(cn) = cn.durable \cup Uncommitted(cn)
  BY DEF Visible
<1>5. Sound(Release(cn, nm), R, k, W) /\ InTransaction(Release(cn, nm))
  <2> DEFINE rl == Release(cn, nm)
  <2>1. /\ rl \in Connections(R) /\ InTransaction(rl) /\ Ordered(rl) /\ Apart(rl)
        /\ rl.durable = cn.durable /\ Len(rl.stack) = n - 1
        /\ \A i \in 1..(n - 1) : rl.stack[i].name = cn.stack[i].name
        /\ Uncommitted(rl) = Uncommitted(cn)
    <3>1. /\ rl \in Connections(R) /\ InTransaction(rl) /\ Ordered(rl) /\ Apart(rl)
          /\ MergesFrames(cn, rl, n)
      BY <1>1, <1>3, ReleaseHolds
    <3> HIDE DEF rl
    <3>2. QED
      BY <3>1 DEF MergesFrames
  <2> HIDE DEF rl
  <2>2. DOMAIN rl.stack = 1..(n - 1) /\ 1..(n - 1) \subseteq 1..Len(cn.stack)
    BY <1>2, <2>1, StackFacts
  <2>3. Numbered(rl, k)
    BY <1>2, <2>1, <2>2 DEF Numbered
  <2>4. Visible(rl) \subseteq W
    BY <1>4, <2>1 DEF Visible
  <2>5. QED
    BY <2>1, <2>3, <2>4 DEF rl
<1>6. Sound(RollbackTo(cn, nm), R, k, W) /\ InTransaction(RollbackTo(cn, nm))
  <2> DEFINE rb == RollbackTo(cn, nm)
  <2>1. /\ rb \in Connections(R) /\ InTransaction(rb) /\ Ordered(rb) /\ Apart(rb)
        /\ rb.durable = cn.durable /\ Len(rb.stack) = n
        /\ \A i \in 1..n : rb.stack[i].name = cn.stack[i].name
        /\ Uncommitted(rb) \subseteq Uncommitted(cn)
    <3>1. /\ rb \in Connections(R) /\ InTransaction(rb) /\ Ordered(rb) /\ Apart(rb)
          /\ UndoesFrames(cn, rb, n)
      BY <1>1, <1>2, RollbackToHolds
    <3> HIDE DEF rb
    <3>2. QED
      BY <3>1 DEF UndoesFrames
  <2> HIDE DEF rb
  <2>2. DOMAIN rb.stack = 1..n /\ 1..n \subseteq 1..Len(cn.stack)
    BY <1>2, <2>1, StackFacts
  <2>3. Numbered(rb, k)
    BY <1>2, <2>1, <2>2 DEF Numbered
  <2>4. Visible(rb) \subseteq W
    BY <1>4, <2>1 DEF Visible
  <2>5. QED
    BY <2>1, <2>3, <2>4 DEF rb
<1>7. QED
  BY <1>2, <1>5, <1>6 DEF InTransaction

\* The invariant of the write queue and the lemmas that its actions keep it.
QP == INSTANCE WriteQueue_proofs WITH Ops <- Calls

-----------------------------------------------------------------------------
(* The invariant of the manager, whoever makes the calls *)

Phases == {"idle", "queued", "open", "nested", "unwound", "done"}

\* The phases of a call that has no callback and no effect yet.
Unstarted == {"idle", "queued"}

FieldTypes ==
  /\ txProcessing \in BOOLEAN
  /\ spCounter \in Nat
  /\ phase \in [Calls -> Phases]
  /\ parent \in [Calls -> Calls \cup {NoOp}]
  /\ savepoint \in [Calls -> Nat]
  /\ wrote \subseteq Calls
  /\ result \in [Calls -> {"none", "ok", "error", "busy"}]
  /\ inside \in [Calls -> SUBSET Calls]
  /\ failed \subseteq Faults

SomeOpen == \E c \in Calls : phase[c] = "open"

\* The promise of a queued call is pending until its execute() is settled.
AnswersPending ==
  \A c \in Calls : outcome[c] = "pending" <=> phase[c] \in {"queued", "open", "unwound"}

\* The item in execution is the one call that has been started.
CurrentIsStarted == \A c \in Calls : phase[c] \in {"open", "unwound"} <=> c = current

ManagerKnows == (txProcessing <=> SomeOpen) /\ txDepth = IF SomeOpen THEN 1 ELSE 0

ConnectionFollows ==
  /\ Sound(conn, Calls, spCounter, wrote)
  /\ SomeOpen => InTransaction(conn)
  /\ InTransaction(conn) => SomeOpen \/ "commit" \in failed

SavepointsNamed ==
  \A c \in Calls :
    /\ savepoint[c] <= spCounter
    /\ phase[c] = "nested" => savepoint[c] # TxFrame
    /\ phase[c] \notin {"nested", "done"} => savepoint[c] = TxFrame

AnswersDecided ==
  \A c \in Calls : result[c] = "none" <=> phase[c] \notin {"unwound", "done"}

\* A call that waits has written nothing.
WritersStarted == \A c \in wrote : phase[c] \notin Unstarted

ManagerInv ==
  /\ FieldTypes
  /\ AnswersPending
  /\ CurrentIsStarted
  /\ ManagerKnows
  /\ ConnectionFollows
  /\ SavepointsNamed
  /\ AnswersDecided
  /\ WritersStarted

BaseInv == QP!IInv /\ ManagerInv

LEMMA InitHolds == Init => BaseInv
<1> SUFFICES ASSUME Init PROVE BaseInv
  OBVIOUS
<1>1. QP!IInv
  <2>1. QP!Init
    BY DEF Init, Q!Init, QP!Init
  <2>2. QED
    BY <2>1, TMAssumption, QP!InitEstablishes
<1>2. FieldTypes
  BY DEF Init, FieldTypes, Phases
<1>3. AnswersPending /\ CurrentIsStarted
  BY TMAssumption DEF Init, Q!Init, AnswersPending, CurrentIsStarted
<1>4. ~SomeOpen /\ ManagerKnows
  BY DEF Init, SomeOpen, ManagerKnows
<1>5. ConnectionFollows
  <2>1. /\ conn = [durable |-> {}, stack |-> <<>>] /\ spCounter = 0 /\ wrote = {}
        /\ failed = {}
    BY DEF Init, Autocommit
  <2>2. conn.durable = {} /\ conn.stack = <<>> /\ DOMAIN conn.stack = {}
    BY <2>1
  <2>3. conn \in Connections(Calls)
    BY <2>1 DEF Connections
  <2>4. Ordered(conn) /\ Apart(conn) /\ Numbered(conn, spCounter) /\ ~InTransaction(conn)
    BY <2>2 DEF Ordered, Apart, Numbered, InTransaction
  <2>5. Visible(conn) = {}
    BY <2>2 DEF Visible, Uncommitted
  <2>6. QED
    BY <1>4, <2>1, <2>3, <2>4, <2>5 DEF ConnectionFollows, Sound
<1>6. SavepointsNamed /\ AnswersDecided /\ WritersStarted
  BY DEF Init, SavepointsNamed, AnswersDecided, WritersStarted, TxFrame
<1>7. QED
  BY <1>1, <1>2, <1>3, <1>4, <1>5, <1>6 DEF BaseInv, ManagerInv

\* The item at the head of the queue is a call that waits.
LEMMA HeadIsQueued ==
  ASSUME BaseInv, items # <<>>
  PROVE  Head(items) \in Calls /\ phase[Head(items)] = "queued"
<1>1. QP!TypeOK /\ QP!HeldExactlyOnce
  BY DEF BaseInv, QP!IInv
<1>2. items \in Seq(Calls)
  BY <1>1 DEF QP!TypeOK
<1>3. 1 \in DOMAIN items /\ Head(items) = items[1] /\ Head(items) \in Calls
  BY <1>2
<1>4. outcome[Head(items)] = "pending" /\ Head(items) # current
  BY <1>1, <1>3 DEF QP!HeldExactlyOnce, QP!Pending, QP!Range, Range
<1>5. QED
  BY <1>3, <1>4 DEF BaseInv, ManagerInv, AnswersPending, CurrentIsStarted

\* The fields that only describe who made a call.
HistoryTypes == parent \in [Calls -> Calls \cup {NoOp}] /\ inside \in [Calls -> SUBSET Calls]

LEMMA MadeByTypes ==
  ASSUME BaseInv, NEW c \in Calls, NEW p \in Calls \cup {NoOp}, MadeBy(c, p)
  PROVE  HistoryTypes'
<1>1. FieldTypes
  BY DEF BaseInv, ManagerInv
<1>2. QED
  BY <1>1 DEF FieldTypes, HistoryTypes, MadeBy

\* A call that has no result yet keeps none.
LEMMA StillNone ==
  ASSUME BaseInv, NEW c \in Calls, phase[c] = "idle", UNCHANGED result
  PROVE  result' = [result EXCEPT ![c] = "none"]
BY DEF BaseInv, ManagerInv, FieldTypes, AnswersDecided

\* transaction() under a SAVEPOINT.
LEMMA NestedCallHolds ==
  ASSUME BaseInv, NEW c \in Calls, NEW p \in Calls \cup {NoOp},
         phase[c] = "idle",
         NestedCall(c, p), result' = [result EXCEPT ![c] = "none"],
         HistoryTypes', UNCHANGED <<wrote, failed>>
  PROVE  BaseInv'
<1> USE DEF BaseInv, ManagerInv
<1>0. FieldTypes /\ SomeOpen
  BY DEF NestedCall, ManagerKnows
<1>1. QP!IInv'
  BY TMAssumption, QP!StutterPreserves DEF NestedCall, queueVars, QP!vars
<1>2. FieldTypes'
  BY <1>0 DEF FieldTypes, HistoryTypes, NestedCall, Phases
<1>3. (AnswersPending /\ CurrentIsStarted)'
  BY <1>0 DEF AnswersPending, CurrentIsStarted, NestedCall, queueVars, FieldTypes
<1>4. SomeOpen'
  BY <1>0 DEF SomeOpen, NestedCall, FieldTypes
<1>5. ManagerKnows'
  BY <1>0, <1>4 DEF ManagerKnows, NestedCall
<1>6. ConnectionFollows'
  <2>1. InTransaction(conn) /\ Sound(conn, Calls, spCounter, wrote)
    BY <1>0 DEF ConnectionFollows
  <2>2. spCounter \in Nat /\ spCounter' = spCounter + 1 /\ conn' = Savepoint(conn, spCounter + 1)
    BY <1>0 DEF FieldTypes, NestedCall
  <2>3. Sound(conn', Calls, spCounter', wrote') /\ InTransaction(conn')
    BY <2>1, <2>2, OperationsKeepSound
  <2>4. QED
    BY <1>4, <2>1, <2>3 DEF ConnectionFollows
<1>7. SavepointsNamed'
  BY <1>0 DEF SavepointsNamed, NestedCall, FieldTypes, TxFrame
<1>8. (AnswersDecided /\ WritersStarted)'
  BY <1>0 DEF AnswersDecided, WritersStarted, Unstarted, NestedCall, FieldTypes
<1>9. QED
  BY <1>1, <1>2, <1>3, <1>5, <1>6, <1>7, <1>8

\* transaction() through the queue.
LEMMA QueuedCallHolds ==
  ASSUME BaseInv, NEW c \in Calls, phase[c] = "idle",
         Q!EnqueueAccepted(c), phase' = [phase EXCEPT ![c] = "queued"],
         result' = [result EXCEPT ![c] = "none"], HistoryTypes',
         UNCHANGED <<txProcessing, txDepth, spCounter, conn, savepoint, wrote, failed>>
  PROVE  BaseInv'
<1> USE DEF BaseInv, ManagerInv
<1>0. FieldTypes /\ QP!TypeOK
  BY DEF QP!IInv
<1>1. QP!IInv'
  <2>1. QP!Enqueue(c)
    BY DEF Q!EnqueueAccepted, QP!Enqueue, QP!EnqueueAccepted
  <2>2. QED
    BY <2>1, TMAssumption, QP!EnqueuePreserves
<1>2. FieldTypes'
  BY <1>0 DEF FieldTypes, HistoryTypes, Phases
<1>3. (AnswersPending /\ CurrentIsStarted)'
  BY <1>0 DEF AnswersPending, CurrentIsStarted, Q!EnqueueAccepted, FieldTypes, QP!TypeOK
<1>4. SomeOpen' <=> SomeOpen
  BY <1>0 DEF SomeOpen, FieldTypes
<1>5. ManagerKnows'
  BY <1>0, <1>4 DEF ManagerKnows
<1>6. ConnectionFollows'
  BY <1>4 DEF ConnectionFollows
<1>7. SavepointsNamed'
  BY <1>0 DEF SavepointsNamed, FieldTypes
<1>8. (AnswersDecided /\ WritersStarted)'
  BY <1>0 DEF AnswersDecided, WritersStarted, Unstarted, FieldTypes
<1>9. QED
  BY <1>1, <1>2, <1>3, <1>5, <1>6, <1>7, <1>8

\* The loop head of #process, between two items: ph is phase as the rest of the
\* step leaves it.  The call that was unwound is answered.
Between(ph) ==
  /\ ph \in [Calls -> Phases]
  /\ \A c \in Calls : phase[c] # "open" /\ ph[c] \notin {"open", "unwound"}
  /\ \A c \in Calls : \/ ph[c] = phase[c]
                      \/ phase[c] = "unwound" /\ ph[c] = "done"
  /\ UNCHANGED <<spCounter, parent, savepoint, inside, failed>>

StillQueued(ph) == \A c \in Calls : outcome'[c] = "pending" <=> ph[c] = "queued"

\* The queue is empty: #process ends.
LEMMA NothingStartsHolds ==
  ASSUME BaseInv, NEW ph, Between(ph), StillQueued(ph), current' = NoOp, phase' = ph,
         UNCHANGED <<txProcessing, txDepth, conn, wrote, result>>
  PROVE  ManagerInv'
<1> USE DEF BaseInv, ManagerInv
<1>0. FieldTypes /\ ~SomeOpen
  BY DEF SomeOpen, Between
<1>1. FieldTypes'
  BY <1>0 DEF FieldTypes, Between
<1>2. (AnswersPending /\ CurrentIsStarted)'
  BY TMAssumption DEF AnswersPending, CurrentIsStarted, Between, StillQueued
<1>3. ~SomeOpen'
  BY DEF SomeOpen, Between
<1>4. ManagerKnows' /\ ConnectionFollows'
  <2>1. ManagerKnows'
    BY <1>0, <1>3 DEF ManagerKnows
  <2>2. ConnectionFollows'
    BY <1>0, <1>3 DEF ConnectionFollows, Between
  <2>3. QED
    BY <2>1, <2>2
<1>5. SavepointsNamed'
  BY <1>0 DEF SavepointsNamed, FieldTypes, Between
<1>6. (AnswersDecided /\ WritersStarted)'
  BY <1>0 DEF AnswersDecided, WritersStarted, Unstarted, FieldTypes, Between
<1>7. QED
  BY <1>1, <1>2, <1>4, <1>5, <1>6

\* The next item is a transaction whose BEGIN succeeds.
LEMMA TransactionBeginsHolds ==
  ASSUME BaseInv, NEW ph, Between(ph), StillQueued(ph),
         NEW h \in Calls, phase[h] = "queued", ph[h] = "queued", current' = h,
         TransactionBegins(h, ph), UNCHANGED wrote
  PROVE  ManagerInv'
<1> USE DEF BaseInv, ManagerInv
<1>0. FieldTypes /\ ~SomeOpen /\ ~txProcessing /\ txDepth = 0
  BY DEF SomeOpen, ManagerKnows, FieldTypes, Between
<1>1. /\ phase' = [ph EXCEPT ![h] = "open"] /\ result' = result
      /\ txProcessing' = TRUE /\ txDepth' = 1
      /\ ~InTransaction(conn) /\ conn' = Begin(conn)
  BY <1>0 DEF TransactionBegins
<1>2. FieldTypes'
  BY <1>0, <1>1 DEF FieldTypes, Phases, Between
<1>3. (AnswersPending /\ CurrentIsStarted)'
  BY <1>1 DEF AnswersPending, CurrentIsStarted, Between, StillQueued
<1>4. SomeOpen'
  BY <1>1 DEF SomeOpen, Between
<1>5. ManagerKnows'
  BY <1>1, <1>4 DEF ManagerKnows
<1>6. ConnectionFollows'
  <2>1. Sound(conn, Calls, spCounter, wrote) /\ spCounter \in Nat
    BY <1>0 DEF ConnectionFollows, FieldTypes
  <2>2. Sound(conn', Calls, spCounter, wrote) /\ InTransaction(conn')
    BY <1>1, <2>1, OperationsKeepSound
  <2>3. QED
    BY <1>4, <2>2 DEF ConnectionFollows, Between
<1>7. SavepointsNamed'
  BY <1>0, <1>1 DEF SavepointsNamed, FieldTypes, Between
<1>8. (AnswersDecided /\ WritersStarted)'
  BY <1>0, <1>1 DEF AnswersDecided, WritersStarted, Unstarted, FieldTypes, Between
<1>9. QED
  BY <1>2, <1>3, <1>5, <1>6, <1>7, <1>8

\* The next item ends in the segment that starts it, with result r, whether it
\* has written its row or not.
LEMMA SyncItemHolds ==
  ASSUME BaseInv, NEW ph, Between(ph), StillQueued(ph),
         NEW h \in Calls, phase[h] = "queued", ph[h] = "queued", current' = h,
         NEW r \in {"ok", "error", "busy"}, phase' = [ph EXCEPT ![h] = "unwound"],
         result' = [result EXCEPT ![h] = r], UNCHANGED <<txProcessing, txDepth>>,
         wrote' = wrote \/ wrote' = wrote \cup {h},
         Sound(conn', Calls, spCounter, wrote'),
         InTransaction(conn') => InTransaction(conn)
  PROVE  ManagerInv'
<1> USE DEF BaseInv, ManagerInv
<1>0. FieldTypes /\ ~SomeOpen
  BY DEF SomeOpen, Between
<1>1. FieldTypes'
  BY <1>0 DEF FieldTypes, Phases, Between
<1>2. (AnswersPending /\ CurrentIsStarted)'
  BY DEF AnswersPending, CurrentIsStarted, Between, StillQueued
<1>3. ~SomeOpen'
  BY DEF SomeOpen, Between
<1>4. ManagerKnows' /\ ConnectionFollows'
  <2>1. ManagerKnows'
    BY <1>0, <1>3 DEF ManagerKnows
  <2>2. ConnectionFollows'
    BY <1>0, <1>3 DEF ConnectionFollows, Between
  <2>3. QED
    BY <2>1, <2>2
<1>5. SavepointsNamed'
  BY <1>0 DEF SavepointsNamed, FieldTypes, Between
<1>6. AnswersDecided'
  BY <1>0 DEF AnswersDecided, FieldTypes, Between
<1>7. WritersStarted'
  <2>1. h \notin wrote
    BY DEF WritersStarted, Unstarted
  <2>2. QED
    BY <1>0, <2>1 DEF WritersStarted, Unstarted, FieldTypes, Between
<1>8. QED
  BY <1>1, <1>2, <1>4, <1>5, <1>6, <1>7

\* Whatever refuses a transaction or a COMMIT, the call fails with an error.
LEMMA BeginErrorsAreFailures == BeginErrors \subseteq Failures
BY DEF BeginErrors, Failures

LEMMA CommitErrorsAreFailures == CommitErrors \subseteq Failures
BY DEF CommitErrors, Failures

\* Whatever the queue has at its head.
LEMMA StartNextHolds ==
  ASSUME BaseInv, NEW ph, Between(ph), StillQueued(ph), StartNext(ph), Q!LoopHead,
         UNCHANGED wrote
  PROVE  ManagerInv'
<1>0. FieldTypes /\ ConnectionFollows /\ ~txProcessing /\ txDepth = 0
  BY DEF BaseInv, ManagerInv, SomeOpen, ManagerKnows, FieldTypes, Between
<1>1. CASE items = <<>>
  <2>1. /\ phase' = ph /\ UNCHANGED <<txProcessing, txDepth, conn, result>>
        /\ current' = NoOp
    BY <1>1 DEF StartNext, Q!LoopHead, Q!TakeNextItem, Q!FinishProcessing
  <2>2. QED
    BY <2>1, NothingStartsHolds
<1>2. CASE items # <<>>
  <2> DEFINE h == Head(items)
  <2>1. h \in Calls /\ phase[h] = "queued" /\ ph[h] = "queued"
    BY <1>2, HeadIsQueued DEF Between
  <2>2. StartItem(h, ph) /\ current' = h
    BY <1>2 DEF StartNext, Q!LoopHead, Q!TakeNextItem, Q!FinishProcessing
  <2> HIDE DEF h
  <2>3. CASE TransactionBegins(h, ph)
    BY <2>1, <2>2, <2>3, TransactionBeginsHolds
  <2>4. CASE TransactionFailsToBegin(h, ph)
    <3>1. PICK e \in Failures : result' = [result EXCEPT ![h] = e]
      BY <2>4, BeginErrorsAreFailures DEF TransactionFailsToBegin
    <3>2. /\ e \in {"ok", "error", "busy"}
          /\ phase' = [ph EXCEPT ![h] = "unwound"]
          /\ txProcessing' = txProcessing /\ txDepth' = txDepth /\ conn' = conn
      BY <1>0, <2>4 DEF TransactionFailsToBegin, FieldTypes, Failures
    <3>3. Sound(conn', Calls, spCounter, wrote')
      BY <1>0, <3>2 DEF ConnectionFollows
    <3>4. QED
      BY <2>1, <2>2, <3>1, <3>2, <3>3, SyncItemHolds
  <2>5. QED
    BY <2>2, <2>3, <2>4 DEF StartItem
<1>3. QED
  BY <1>1, <1>2

\* The microtask enters #process, or the item in execution is settled: nothing
\* is in execution when the loop goes on.
LEMMA EnterIsBetween ==
  ASSUME BaseInv, Q!EnterProcess, UNCHANGED <<spCounter, parent, savepoint, inside, failed>>
  PROVE  QP!IInv' /\ Between(phase) /\ StillQueued(phase) /\ Q!LoopHead
<1>1. QP!IInv'
  <2>1. QP!EnterProcess
    BY DEF Q!EnterProcess, Q!LoopHead, Q!TakeNextItem, Q!FinishProcessing,
           QP!EnterProcess, QP!LoopHead, QP!TakeNextItem, QP!FinishProcessing
  <2>2. QED
    BY <2>1, TMAssumption, QP!EnterProcessPreserves DEF BaseInv
<1>2. current = NoOp
  BY DEF Q!EnterProcess, BaseInv, QP!IInv, QP!OneProcessLoop
<1>3. phase \in [Calls -> Phases] /\ Q!LoopHead /\ outcome' = outcome
  BY DEF BaseInv, ManagerInv, Q!EnterProcess, FieldTypes
<1>4. \A c \in Calls : phase[c] \notin {"open", "unwound"}
  BY <1>2, TMAssumption DEF BaseInv, ManagerInv, CurrentIsStarted
<1>5. Between(phase)
  BY <1>3, <1>4 DEF Between
<1>6. StillQueued(phase)
  BY <1>3, <1>4 DEF StillQueued, BaseInv, ManagerInv, AnswersPending
<1>7. QED
  BY <1>1, <1>3, <1>5, <1>6

LEMMA SettleIsBetween ==
  ASSUME BaseInv, current # NoOp, phase[current] = "unwound",
         Q!Settle(IF result[current] = "ok" THEN "resolved" ELSE "rejected"),
         UNCHANGED <<spCounter, parent, savepoint, inside, failed>>
  PROVE  /\ QP!IInv' /\ Q!LoopHead /\ current \in Calls
         /\ Between([phase EXCEPT ![current] = "done"])
         /\ StillQueued([phase EXCEPT ![current] = "done"])
<1> DEFINE ph == [phase EXCEPT ![current] = "done"]
           verdict == IF result[current] = "ok" THEN "resolved" ELSE "rejected"
<1>0. FieldTypes /\ QP!TypeOK /\ CurrentIsStarted /\ AnswersPending
  BY DEF BaseInv, ManagerInv, QP!IInv
<1>1. QP!IInv'
  <2>1. QP!Settle(verdict) /\ verdict \in {"resolved", "rejected"}
    BY DEF Q!Settle, Q!LoopHead, Q!TakeNextItem, Q!FinishProcessing,
           QP!Settle, QP!LoopHead, QP!TakeNextItem, QP!FinishProcessing
  <2> HIDE DEF verdict
  <2>2. QED
    BY <2>1, TMAssumption, QP!SettlePreserves DEF BaseInv
<1>2. /\ current \in Calls /\ Q!LoopHead
      /\ outcome' = [outcome EXCEPT ![current] = verdict]
  BY <1>0 DEF Q!Settle, QP!TypeOK
<1>3. /\ ph \in [Calls -> Phases]
      /\ \A c \in Calls : ph[c] = IF c = current THEN "done" ELSE phase[c]
  BY <1>0, <1>2 DEF FieldTypes, Phases
<1>4. \A c \in Calls : c # current => phase[c] \notin {"open", "unwound"}
  BY <1>0 DEF CurrentIsStarted
<1> HIDE DEF ph
<1>5. Between(ph)
  BY <1>2, <1>3, <1>4 DEF Between
<1>6. StillQueued(ph)
  BY <1>0, <1>2, <1>3, <1>4 DEF StillQueued, AnswersPending, QP!TypeOK
<1>7. QED
  BY <1>1, <1>2, <1>5, <1>6 DEF ph

LEMMA EnterProcessHolds ==
  ASSUME BaseInv, EnterProcess
  PROVE  BaseInv'
<1>1. /\ Q!EnterProcess /\ StartNext(phase)
      /\ UNCHANGED <<spCounter, parent, savepoint, wrote, inside, failed>>
  BY DEF EnterProcess
<1>2. QP!IInv' /\ Between(phase) /\ StillQueued(phase) /\ Q!LoopHead
  BY <1>1, EnterIsBetween
<1>3. ManagerInv'
  BY <1>1, <1>2, StartNextHolds
<1>4. QED
  BY <1>2, <1>3 DEF BaseInv

LEMMA SettleHolds ==
  ASSUME BaseInv, Settle
  PROVE  BaseInv'
<1> DEFINE ph == [phase EXCEPT ![current] = "done"]
<1>1. /\ current # NoOp /\ phase[current] = "unwound" /\ StartNext(ph)
      /\ Q!Settle(IF result[current] = "ok" THEN "resolved" ELSE "rejected")
      /\ UNCHANGED <<spCounter, parent, savepoint, wrote, inside, failed>>
  BY DEF Settle
<1>2. QP!IInv' /\ Between(ph) /\ StillQueued(ph) /\ Q!LoopHead
  BY <1>1, SettleIsBetween
<1> HIDE DEF ph
<1>3. ManagerInv'
  BY <1>1, <1>2, StartNextHolds
<1>4. QED
  BY <1>2, <1>3 DEF BaseInv

\* A statement of a callback.
LEMMA WriteKeepsBase ==
  ASSUME BaseInv, NEW c \in Calls, Write(c)
  PROVE  BaseInv'
<1> USE DEF BaseInv, ManagerInv
<1>0. FieldTypes
  OBVIOUS
<1>1. QP!IInv'
  BY TMAssumption, QP!StutterPreserves DEF Write, queueVars, QP!vars
<1>2. FieldTypes'
  BY <1>0 DEF FieldTypes, Write
<1>3. (AnswersPending /\ CurrentIsStarted)'
  BY DEF AnswersPending, CurrentIsStarted, Write, queueVars
<1>4. SomeOpen' <=> SomeOpen
  BY DEF SomeOpen, Write
<1>5. ManagerKnows'
  BY <1>4 DEF ManagerKnows, Write
<1>6. ConnectionFollows'
  <2>1. /\ Sound(conn, Calls, spCounter, wrote) /\ spCounter \in Nat /\ c \in Calls \ wrote
        /\ wrote' = wrote \cup {c} /\ conn' = WriteRow(conn, c) /\ spCounter' = spCounter
        /\ failed' = failed
    BY <1>0 DEF ConnectionFollows, FieldTypes, Write
  <2>2. Sound(conn', Calls, spCounter, wrote') /\ (InTransaction(conn') <=> InTransaction(conn))
    BY <2>1, OperationsKeepSound
  <2>3. QED
    BY <1>4, <2>1, <2>2 DEF ConnectionFollows
<1>7. (SavepointsNamed /\ AnswersDecided)'
  BY DEF SavepointsNamed, AnswersDecided, Write
<1>8. WritersStarted'
  <2>1. result[c] = "none" /\ phase[c] \notin Unstarted
    BY <1>0 DEF Write, Runs, InCallback, AnswersDecided, Unstarted
  <2>2. QED
    BY <2>1 DEF WritersStarted, Write
<1>9. QED
  BY <1>1, <1>2, <1>3, <1>5, <1>6, <1>7, <1>8

\* The finally block of a queued call, with what COMMIT or ROLLBACK has left.
LEMMA FinallyHolds ==
  ASSUME BaseInv, NEW c \in Calls, phase[c] = "open", Finally(c),
         NEW r \in {"ok", "error", "busy"}, result' = [result EXCEPT ![c] = r],
         failed' \subseteq Faults,
         Sound(conn', Calls, spCounter, wrote),
         InTransaction(conn') => "commit" \in failed'
  PROVE  BaseInv'
<1> USE DEF BaseInv, ManagerInv
<1>0. /\ FieldTypes /\ SomeOpen /\ txDepth = 1
      /\ phase' = [phase EXCEPT ![c] = "unwound"]
      /\ txProcessing' = FALSE /\ txDepth' = 0
      /\ UNCHANGED <<queueVars, spCounter, parent, savepoint, wrote, inside>>
  BY DEF SomeOpen, ManagerKnows, Finally
<1>1. QP!IInv'
  BY <1>0, TMAssumption, QP!StutterPreserves DEF queueVars, QP!vars
<1>2. FieldTypes'
  BY <1>0 DEF FieldTypes, Phases
<1>3. (AnswersPending /\ CurrentIsStarted)'
  BY <1>0 DEF AnswersPending, CurrentIsStarted, queueVars, FieldTypes
<1>4. ~SomeOpen'
  BY <1>0 DEF SomeOpen, FieldTypes, CurrentIsStarted
<1>5. ManagerKnows'
  BY <1>0, <1>4 DEF ManagerKnows
<1>6. ConnectionFollows'
  BY <1>0, <1>4 DEF ConnectionFollows
<1>7. SavepointsNamed'
  BY <1>0 DEF SavepointsNamed, FieldTypes
<1>8. (AnswersDecided /\ WritersStarted)'
  BY <1>0 DEF AnswersDecided, WritersStarted, Unstarted, FieldTypes
<1>9. QED
  BY <1>1, <1>2, <1>3, <1>5, <1>6, <1>7, <1>8

\* The end of a nested call, with what RELEASE or ROLLBACK TO has left.
LEMMA NestedEndsHolds ==
  ASSUME BaseInv, NEW c \in Calls, phase[c] = "nested",
         NEW r \in {"ok", "error", "busy"}, NestedEnds(c, r),
         failed' \subseteq Faults, "commit" \in failed' <=> "commit" \in failed,
         Sound(conn', Calls, spCounter, wrote),
         InTransaction(conn') <=> InTransaction(conn)
  PROVE  BaseInv'
<1> USE DEF BaseInv, ManagerInv
<1>0. /\ FieldTypes
      /\ phase' = [phase EXCEPT ![c] = "done"]
      /\ result' = [result EXCEPT ![c] = r]
      /\ UNCHANGED <<queueVars, txProcessing, txDepth, spCounter, parent,
                     savepoint, wrote, inside>>
  BY DEF NestedEnds
<1>1. QP!IInv'
  BY <1>0, TMAssumption, QP!StutterPreserves DEF queueVars, QP!vars
<1>2. FieldTypes'
  BY <1>0 DEF FieldTypes, Phases
<1>3. (AnswersPending /\ CurrentIsStarted)'
  BY <1>0 DEF AnswersPending, CurrentIsStarted, queueVars, FieldTypes
<1>4. SomeOpen' <=> SomeOpen
  BY <1>0 DEF SomeOpen, FieldTypes
<1>5. ManagerKnows'
  BY <1>0, <1>4 DEF ManagerKnows
<1>6. ConnectionFollows'
  BY <1>0, <1>4 DEF ConnectionFollows
<1>7. SavepointsNamed'
  BY <1>0 DEF SavepointsNamed, FieldTypes
<1>8. (AnswersDecided /\ WritersStarted)'
  BY <1>0 DEF AnswersDecided, WritersStarted, Unstarted, FieldTypes
<1>9. QED
  BY <1>1, <1>2, <1>3, <1>5, <1>6, <1>7, <1>8

\* COMMIT, COMMIT refused, ROLLBACK, RELEASE, ROLLBACK TO.
LEMMA CallbackEndsHolds ==
  ASSUME BaseInv, NEW c \in Calls, CallbackEnds(c)
  PROVE  BaseInv'
<1>0. /\ FieldTypes /\ ConnectionFollows /\ SavepointsNamed
      /\ Sound(conn, Calls, spCounter, wrote) /\ spCounter \in Nat
      /\ phase[c] = "open" => SomeOpen
  BY DEF BaseInv, ManagerInv, ConnectionFollows, FieldTypes, SomeOpen
<1>1. CASE Commits(c)
  <2>1. PICK r \in {"ok", "error", "busy"} : result' = [result EXCEPT ![c] = r]
    BY <1>1 DEF Commits, Failures
  <2>2. phase[c] = "open" /\ Finally(c) /\ conn' = Commit(conn)
    BY <1>1 DEF Commits
  <2>3. Sound(conn', Calls, spCounter, wrote) /\ ~InTransaction(conn')
    BY <1>0, <2>2, OperationsKeepSound
  <2>4. failed' \subseteq Faults
    BY <1>0, <1>1 DEF Commits, FieldTypes
  <2>5. QED
    BY <2>1, <2>2, <2>3, <2>4, FinallyHolds
<1>2. CASE CommitFails(c)
  <2>1. /\ phase[c] = "open" /\ Finally(c) /\ conn' = conn
        /\ InTransaction(conn) /\ "commit" \in Faults /\ failed' = failed \cup {"commit"}
    BY <1>0, <1>2 DEF CommitFails, CommitErrors, ConnectionFollows
  <2>2. failed' \subseteq Faults /\ (InTransaction(conn') => "commit" \in failed')
    BY <1>0, <2>1 DEF FieldTypes
  <2>3. PICK r \in {"ok", "error", "busy"} : result' = [result EXCEPT ![c] = r]
    BY <1>2, CommitErrorsAreFailures DEF CommitFails, Failures
  <2>4. QED
    BY <1>0, <2>1, <2>2, <2>3, FinallyHolds
<1>3. CASE RollsBack(c)
  <2>1. /\ phase[c] = "open" /\ Finally(c) /\ conn' = Rollback(conn)
        /\ failed' = failed
    BY <1>3 DEF RollsBack
  <2>2. Sound(conn', Calls, spCounter, wrote) /\ ~InTransaction(conn')
    BY <1>0, <2>1, OperationsKeepSound
  <2>3. failed' \subseteq Faults
    BY <1>0, <2>1 DEF FieldTypes
  <2>4. PICK r \in {"ok", "error", "busy"} : result' = [result EXCEPT ![c] = r]
    BY <1>3 DEF RollsBack, Failures
  <2>5. QED
    BY <2>1, <2>2, <2>3, <2>4, FinallyHolds
<1>4. CASE NestedReleases(c)
  <2>1. /\ phase[c] = "nested" /\ failed' = failed
        /\ savepoint[c] \in Nat \ {TxFrame}
    BY <1>0, <1>4 DEF NestedReleases, SavepointsNamed, FieldTypes
  <2>2. PICK r \in {"ok", "error", "busy"} : NestedEnds(c, r)
    BY <1>4 DEF NestedReleases
  <2>3. CASE HasSavepoint(conn, savepoint[c])
    <3>1. conn' = Release(conn, savepoint[c])
      BY <1>4, <2>3 DEF NestedReleases
    <3>2. /\ Sound(conn', Calls, spCounter, wrote)
          /\ InTransaction(conn') /\ InTransaction(conn)
      BY <1>0, <2>1, <2>3, <3>1, SavepointsKeepSound
    <3>3. QED
      BY <1>0, <2>1, <2>2, <3>2, NestedEndsHolds DEF FieldTypes
  <2>4. CASE ~HasSavepoint(conn, savepoint[c])
    <3>1. conn' = conn
      BY <1>4, <2>4 DEF NestedReleases
    <3>2. QED
      BY <1>0, <2>1, <2>2, <3>1, NestedEndsHolds DEF FieldTypes
  <2>5. QED
    BY <2>3, <2>4
<1>5. CASE NestedRollsBack(c)
  <2>1. PICK r \in {"ok", "error", "busy"} : NestedEnds(c, r)
    BY <1>5 DEF NestedRollsBack, Failures
  <2>2. phase[c] = "nested" /\ savepoint[c] \in Nat \ {TxFrame}
    BY <1>0, <1>5 DEF NestedRollsBack, SavepointsNamed, FieldTypes
  <2>3. failed' \subseteq Faults /\ ("commit" \in failed' <=> "commit" \in failed)
    BY <1>0, <1>5 DEF NestedRollsBack, FieldTypes
  <2>4. \/ HasSavepoint(conn, savepoint[c]) /\ conn' = RollbackTo(conn, savepoint[c])
        \/ conn' = conn
    BY <1>5 DEF NestedRollsBack
  <2>5. /\ Sound(conn', Calls, spCounter, wrote)
        /\ InTransaction(conn') <=> InTransaction(conn)
    BY <1>0, <2>2, <2>4, SavepointsKeepSound
  <2>6. QED
    BY <2>1, <2>2, <2>3, <2>5, NestedEndsHolds
<1>6. QED
  BY <1>1, <1>2, <1>3, <1>4, <1>5 DEF CallbackEnds

LEMMA UnchangedHolds ==
  ASSUME BaseInv, UNCHANGED vars
  PROVE  BaseInv'
<1> USE DEF BaseInv, ManagerInv, vars
<1>1. QP!IInv'
  BY TMAssumption, QP!StutterPreserves DEF queueVars, QP!vars
<1>2. (FieldTypes /\ AnswersPending /\ CurrentIsStarted)'
  BY DEF FieldTypes, AnswersPending, CurrentIsStarted, queueVars
<1>3. (ManagerKnows /\ ConnectionFollows)'
  BY DEF ManagerKnows, ConnectionFollows, SomeOpen
<1>4. (SavepointsNamed /\ AnswersDecided /\ WritersStarted)'
  BY DEF SavepointsNamed, AnswersDecided, WritersStarted
<1>5. QED
  BY <1>1, <1>2, <1>3, <1>4

\* What holds besides when the manager is alone: a transaction whose COMMIT was
\* refused stays open and is the last.
ManagerAlone == "commit" \in failed => InTransaction(conn) /\ ~SomeOpen

LEMMA BaseStep ==
  ASSUME BaseInv, [Next]_vars
  PROVE  BaseInv'
<1>1. ASSUME NEW c \in Calls, NEW p \in Calls \cup {NoOp}, Call(c, p) PROVE BaseInv'
  <2>1. /\ phase[c] = "idle" /\ UNCHANGED <<wrote, failed>>
        /\ NestedCall(c, p) \/ QueuedCall(c, p)
        /\ result' = [result EXCEPT ![c] = "none"] /\ HistoryTypes'
    <3>1. /\ phase[c] = "idle" /\ MadeBy(c, p) /\ UNCHANGED <<wrote, result, failed>>
          /\ NestedCall(c, p) \/ QueuedCall(c, p)
      BY <1>1 DEF Call
    <3>2. HistoryTypes'
      BY <3>1, MadeByTypes
    <3>3. result' = [result EXCEPT ![c] = "none"]
      BY <3>1, StillNone
    <3>4. QED
      BY <3>1, <3>2, <3>3
  <2>2. CASE NestedCall(c, p)
    BY <2>1, <2>2, NestedCallHolds
  <2>3. CASE QueuedCall(c, p)
    <3>1. /\ Q!EnqueueAccepted(c) /\ phase' = [phase EXCEPT ![c] = "queued"]
          /\ UNCHANGED <<txProcessing, txDepth, spCounter, conn, savepoint>>
      BY <2>3 DEF QueuedCall
    <3>2. UNCHANGED <<txProcessing, txDepth, spCounter, conn, savepoint, wrote, failed>>
      BY <2>1, <3>1
    <3>3. QED
      BY <2>1, <3>1, <3>2, QueuedCallHolds
  <2>4. QED
    BY <2>1, <2>2, <2>3
<1>2. CASE EnterProcess
  BY <1>2, EnterProcessHolds
<1>3. CASE Settle
  BY <1>3, SettleHolds
<1>4. CASE \E c \in Calls : Write(c) \/ CallbackEnds(c)
  BY <1>4, WriteKeepsBase, CallbackEndsHolds
<1>5. CASE UNCHANGED vars
  BY <1>5, UnchangedHolds
<1>6. QED
  BY <1>1, <1>2, <1>3, <1>4, <1>5 DEF Next

LEMMA AloneStep ==
  ASSUME BaseInv, ManagerAlone, [Next]_vars
  PROVE  ManagerAlone'
<1>0. FieldTypes /\ ConnectionFollows /\ CurrentIsStarted
  BY DEF BaseInv, ManagerInv
<1>1. "commit" \in failed' => InTransaction(conn') /\ ~SomeOpen'
  <2>1. CASE \E c \in Calls, p \in Calls \cup {NoOp} : Call(c, p)
    <3>1. PICK c \in Calls, p \in Calls \cup {NoOp} : Call(c, p)
      BY <2>1
    <3>2. CASE NestedCall(c, p)
      <4>1. SomeOpen /\ failed' = failed
        BY <3>1, <3>2 DEF Call, NestedCall, BaseInv, ManagerInv, ManagerKnows
      <4>2. QED
        BY <4>1 DEF ManagerAlone
    <3>3. CASE QueuedCall(c, p)
      <4>1. conn' = conn /\ failed' = failed /\ (SomeOpen' => SomeOpen)
        BY <1>0, <3>1, <3>3 DEF Call, QueuedCall, SomeOpen, FieldTypes
      <4>2. QED
        BY <4>1 DEF ManagerAlone
    <3>4. QED
      BY <3>1, <3>2, <3>3 DEF Call
  <2>2. CASE EnterProcess \/ Settle
    <3>1. PICK ph \in [Calls -> Phases] :
            /\ StartNext(ph) /\ failed' = failed
            /\ \A c \in Calls : ph[c] = "open" => phase[c] = "open"
      <4>1. CASE EnterProcess
        BY <1>0, <4>1 DEF EnterProcess, FieldTypes
      <4>2. CASE Settle
        <5> DEFINE q == [phase EXCEPT ![current] = "done"]
        <5>1. /\ q \in [Calls -> Phases]
              /\ \A c \in Calls : q[c] = "open" => phase[c] = "open"
          BY <1>0 DEF FieldTypes, Phases
        <5>2. StartNext(q) /\ failed' = failed
          BY <4>2 DEF Settle
        <5> HIDE DEF q
        <5>3. QED
          BY <5>1, <5>2
      <4>3. QED
        BY <2>2, <4>1, <4>2
    <3>2. CASE InTransaction(conn)
      <4>1. conn' = conn /\ \A c \in Calls : phase'[c] = "open" => phase[c] = "open"
        BY <3>1, <3>2 DEF StartNext, StartItem, TransactionBegins, TransactionFailsToBegin
      <4>2. QED
        BY <3>1, <3>2, <4>1 DEF ManagerAlone, SomeOpen
    <3>3. CASE ~InTransaction(conn)
      BY <3>1, <3>3 DEF ManagerAlone
    <3>4. QED
      BY <3>2, <3>3
  <2>3. CASE \E c \in Calls : Write(c) \/ CallbackEnds(c)
    <3>1. CASE SomeOpen
      <4>1. InTransaction(conn) /\ "commit" \notin failed
        BY <1>0, <3>1 DEF ConnectionFollows, ManagerAlone
      <4>2. CASE \E c \in Calls : CommitFails(c)
        <5>1. conn' = conn /\ ~SomeOpen'
          BY <1>0, <4>2 DEF CommitFails, Finally, SomeOpen, FieldTypes, CurrentIsStarted
        <5>2. QED
          BY <4>1, <5>1
      <4>3. CASE ~\E c \in Calls : CommitFails(c)
        BY <2>3, <4>1, <4>3 DEF Write, CallbackEnds, Commits, RollsBack, NestedReleases,
                                NestedRollsBack
      <4>4. QED
        BY <4>2, <4>3
    <3>2. CASE ~SomeOpen
      <4>1. PICK c \in Calls : Write(c) \/ CallbackEnds(c)
        BY <2>3
      <4>2. phase[c] # "open"
        BY <3>2 DEF SomeOpen
      <4>3. /\ "commit" \in failed' <=> "commit" \in failed
            /\ \A d \in Calls : phase'[d] = "open" => phase[d] = "open"
        BY <1>0, <4>1, <4>2 DEF FieldTypes, Write, CallbackEnds, Commits, CommitFails, RollsBack,
             NestedReleases, NestedRollsBack, NestedEnds
      <4>4. InTransaction(conn) => InTransaction(conn')
        <5>1. ConnectionFollows /\ SavepointsNamed
          BY DEF BaseInv, ManagerInv
        <5>2. /\ Sound(conn, Calls, spCounter, wrote) /\ spCounter \in Nat
              /\ phase[c] = "nested" => savepoint[c] \in Nat \ {TxFrame}
          BY <1>0, <5>1 DEF ConnectionFollows, SavepointsNamed, FieldTypes
        <5>3. CASE Write(c)
          <6>1. c \in Calls \ wrote /\ conn' = WriteRow(conn, c)
            BY <5>3 DEF Write
          <6>2. QED
            BY <5>2, <6>1, OperationsKeepSound
        <5>4. CASE CallbackEnds(c)
          <6>1. /\ phase[c] = "nested"
                /\ \/ conn' = conn
                   \/ /\ HasSavepoint(conn, savepoint[c])
                      /\ \/ conn' = Release(conn, savepoint[c])
                         \/ conn' = RollbackTo(conn, savepoint[c])
            BY <4>2, <5>4 DEF CallbackEnds, Commits, CommitFails, RollsBack, NestedReleases,
                              NestedRollsBack
          <6>2. QED
            BY <5>2, <6>1, SavepointsKeepSound
        <5>5. QED
          BY <4>1, <5>3, <5>4
      <4>5. QED
        BY <4>3, <4>4 DEF ManagerAlone, SomeOpen
    <3>3. QED
      BY <3>1, <3>2
  <2>4. CASE UNCHANGED vars
    BY <2>4 DEF ManagerAlone, vars, SomeOpen
  <2>5. QED
    BY <2>1, <2>2, <2>3, <2>4 DEF Next
<1>2. QED
  BY <1>1 DEF ManagerAlone

LEMMA BaseAlways == Spec => [](BaseInv /\ ManagerAlone)
<1>1. Init => BaseInv /\ ManagerAlone
  <2>1. Init => ManagerAlone
    BY DEF Init, ManagerAlone
  <2>2. QED
    BY <2>1, InitHolds
<1>2. BaseInv /\ ManagerAlone /\ [Next]_vars => (BaseInv /\ ManagerAlone)'
  BY BaseStep, AloneStep
<1>3. QED
  BY <1>1, <1>2, PTL DEF Spec, Safety

-----------------------------------------------------------------------------
(* What the manager, the queue and the connection agree on *)

\* The fields of the manager, the queue and the connection always hold values
\* of their types, whatever fails and whoever calls: #depth is never negative
\* (transaction-manager.ts), and the names of the frames of the connection are
\* numbers that the manager has given.
THEOREM TypeCorrect == Spec => []TypeOK
<1>1. BaseInv /\ ManagerAlone => TypeOK
  <2> SUFFICES ASSUME BaseInv, ManagerAlone PROVE TypeOK
    OBVIOUS
  <2>1. FieldTypes /\ ManagerKnows /\ SavepointsNamed
    BY DEF BaseInv, ManagerInv
  <2>2. Q!TypeOK
    BY DEF BaseInv, QP!IInv, QP!TypeOK, Q!TypeOK, Q!Outcomes, QP!Outcomes
  <2>3. conn \in [durable : SUBSET Calls,
                  stack : Seq([name : TxFrame..spCounter, rows : SUBSET Calls])]
    BY <2>1, SoundIsTyped DEF BaseInv, ManagerInv, ConnectionFollows, Sound, FieldTypes
  <2>4. txDepth \in Nat
    BY <2>1 DEF ManagerKnows
  <2>5. savepoint \in [Calls -> 0..spCounter]
    <3>1. \A c \in Calls : savepoint[c] \in 0..spCounter
      BY <2>1 DEF FieldTypes, SavepointsNamed
    <3>2. QED
      BY <2>1, <3>1 DEF FieldTypes
  <2>6. /\ phase \in [Calls -> {"idle", "queued", "open", "nested", "unwound", "done"}]
        /\ result \in [Calls -> {"none", "ok"} \cup Failures]
    BY <2>1 DEF FieldTypes, Phases, Failures
  <2>7. QED
    BY <2>1, <2>2, <2>3, <2>4, <2>5, <2>6 DEF TypeOK, FieldTypes
<1>2. QED
  BY <1>1, BaseAlways, PTL

\* Whichever hook, statement or callback fails and whoever calls, nothing that
\* ends leaves the connection inside a transaction, unless COMMIT was refused,
\* and the manager knows whether one is open (the finally block and the flag
\* began in transaction-manager.ts).
THEOREM NothingLeaks == Spec => []NoTransactionLeaks
<1>1. BaseInv => NoTransactionLeaks
  <2> SUFFICES ASSUME BaseInv PROVE NoTransactionLeaks
    OBVIOUS
  <2>1. CurrentIsStarted /\ ManagerKnows /\ ConnectionFollows
    BY DEF BaseInv, ManagerInv
  <2>2. SomeOpen <=> {c \in Calls : phase[c] = "open"} # {}
    BY DEF SomeOpen
  <2>3. QED
    BY <2>1, <2>2 DEF NoTransactionLeaks, CurrentIsStarted, ManagerKnows, ConnectionFollows
<1>2. QED
  BY <1>1, BaseAlways, PTL

-----------------------------------------------------------------------------
(* The invariant when nobody calls transaction() from outside a callback      *)
(* while a transaction is open: the callbacks in progress form one chain, each *)
(* inside the next, and the frames of the connection are theirs.              *)

InsideSelf == \A c \in Calls : c \in inside[c]

InsideTransitive == \A d \in Calls : \A e \in inside[d] : inside[e] \subseteq inside[d]

\* A call around another has been started, its callback has made a call of the
\* chain that ends at the other, and it has not ended unless the other has.
AroundIsOpen ==
  \A d \in Calls : \A e \in inside[d] \ {d} :
    /\ phase[e] \notin Unstarted
    /\ parent[d] # NoOp
    /\ \E f \in inside[d] : parent[f] = e
    /\ phase[d] # "done" => InCallback(e)

TopLevelIsAlone ==
  \A c \in Calls : phase[c] \notin {"nested", "done"} => inside[c] = {c}

OneChain ==
  \A a, b \in Calls : InCallback(a) /\ InCallback(b) =>
    /\ current \in inside[a] /\ phase[current] = "open"
    /\ a \in inside[b] \/ b \in inside[a]
    /\ a \in inside[b] /\ a # b => savepoint[a] < savepoint[b]

FramesOfCallbacks == \A a \in Calls : InCallback(a) => HasSavepoint(conn, savepoint[a])

NestingInv ==
  /\ InsideSelf
  /\ InsideTransitive
  /\ AroundIsOpen
  /\ TopLevelIsAlone
  /\ OneChain
  /\ FramesOfCallbacks

\* What a transaction commits is of the queued call and of calls inside it.
OpenOwnsRows ==
  \A c \in Calls : phase[c] = "open" => \A d \in Uncommitted(conn) : c \in inside[d]

\* From the frame of a callback upwards are the rows of the calls inside it that
\* have not failed.
RowsOfCallbacks ==
  failed \cap {"commit", "after"} = {} =>
    \A a \in Calls : InCallback(a) =>
      \A i \in DOMAIN conn.stack : conn.stack[i].name = savepoint[a] =>
        RowsFrom(conn, i) = {d \in wrote \ Lost : a \in inside[d]}

\* Unless a fault of G has happened, the durable rows are those of the calls that
\* were kept, the calls of X apart.
DurableIsKept(X, G) == failed \cap G = {} => conn.durable \ X = (wrote \cap Kept) \ X

RowsInv(X, G) ==
  /\ OpenOwnsRows
  /\ RowsOfCallbacks
  /\ DurableIsKept(X, G)

\* No transaction begins after a COMMIT that was refused, unless a fault of G has
\* happened.
RefusedEnds(G) == failed \cap G = {} /\ SomeOpen => "commit" \notin failed

NestedInv(X, G) == BaseInv /\ RefusedEnds(G) /\ NestingInv /\ RowsInv(X, G)

LEMMA NestingInit ==
  ASSUME NEW X, NEW G, Init
  PROVE  NestingInv /\ RowsInv(X, G)
<1>1. /\ phase = [c \in Calls |-> "idle"] /\ inside = [c \in Calls |-> {c}]
      /\ wrote = {} /\ conn = Autocommit
  BY DEF Init
<1>2. conn.durable = {} /\ Uncommitted(conn) = {}
  BY <1>1 DEF Autocommit, Uncommitted
<1>3. InsideSelf /\ InsideTransitive /\ AroundIsOpen /\ TopLevelIsAlone
  BY <1>1 DEF InsideSelf, InsideTransitive, AroundIsOpen, TopLevelIsAlone
<1>4. \A c \in Calls : ~InCallback(c) /\ phase[c] # "open"
  BY <1>1 DEF InCallback
<1>5. OneChain /\ FramesOfCallbacks
  BY <1>4 DEF OneChain, FramesOfCallbacks
<1>6. OpenOwnsRows /\ RowsOfCallbacks /\ DurableIsKept(X, G)
  BY <1>1, <1>2, <1>4 DEF OpenOwnsRows, RowsOfCallbacks, DurableIsKept
<1>7. QED
  BY <1>3, <1>5, <1>6 DEF NestingInv, RowsInv

\* What is known of the callbacks in progress.
LEMMA CallbackFacts ==
  ASSUME BaseInv, NestingInv, NEW a \in Calls, InCallback(a)
  PROVE  /\ SomeOpen /\ InTransaction(conn)
         /\ current \in Calls /\ phase[current] = "open" /\ current \in inside[a]
         /\ result[a] = "none" /\ savepoint[a] \in Nat
<1>1. /\ FieldTypes /\ CurrentIsStarted /\ ConnectionFollows /\ AnswersDecided
      /\ OneChain
  BY DEF BaseInv, ManagerInv, NestingInv
<1>2. current \in inside[a] /\ phase[current] = "open" /\ inside[a] \subseteq Calls
  BY <1>1 DEF OneChain, FieldTypes
<1>3. SomeOpen /\ current \in Calls
  BY <1>2 DEF SomeOpen
<1>4. InTransaction(conn)
  BY <1>1, <1>3 DEF ConnectionFollows
<1>5. result[a] = "none" /\ savepoint[a] \in Nat
  BY <1>1 DEF AnswersDecided, InCallback, FieldTypes
<1>6. QED
  BY <1>2, <1>3, <1>4, <1>5

\* The callback whose code runs is the innermost: every callback in progress is
\* around it, and every call inside it has ended.
LEMMA Innermost ==
  ASSUME BaseInv, NestingInv, NEW c \in Calls, Runs(c)
  PROVE  /\ \A d \in Calls : c \in inside[d] /\ d # c => phase[d] = "done"
         /\ \A a \in Calls : InCallback(a) => a \in inside[c]
<1>1. /\ AroundIsOpen /\ OneChain /\ InsideSelf
      /\ \A d \in Calls : inside[d] \subseteq Calls
  BY DEF BaseInv, ManagerInv, FieldTypes, NestingInv
<1>2. ASSUME NEW d \in Calls, c \in inside[d], d # c PROVE phase[d] = "done"
  <2>1. PICK f \in inside[d] : parent[f] = c
    BY <1>1, <1>2 DEF AroundIsOpen
  <2>2. f \in Calls /\ phase[f] = "done"
    BY <1>1, <2>1 DEF Runs
  <2>3. CASE f = d
    BY <2>2, <2>3
  <2>4. CASE f # d
    BY <1>1, <2>1, <2>2, <2>4 DEF AroundIsOpen, InCallback
  <2>5. QED
    BY <2>3, <2>4
<1>3. ASSUME NEW a \in Calls, InCallback(a) PROVE a \in inside[c]
  <2>1. a \in inside[c] \/ c \in inside[a]
    BY <1>1, <1>3 DEF OneChain, Runs
  <2>2. c \in inside[a] /\ a # c => phase[a] = "done"
    BY <1>2
  <2>3. QED
    BY <1>1, <1>3, <2>1, <2>2 DEF InCallback, InsideSelf
<1>4. QED
  BY <1>2, <1>3

\* A call that has not been started is inside nothing but itself, and no other
\* call is inside it.
LEMMA NotStarted ==
  ASSUME BaseInv, NestingInv, NEW c \in Calls, phase[c] \in Unstarted
  PROVE  /\ inside[c] = {c}
         /\ \A d \in Calls : c \in inside[d] => d = c
         /\ c \notin wrote
BY DEF BaseInv, ManagerInv, WritersStarted, NestingInv, AroundIsOpen, TopLevelIsAlone, Unstarted

\* Whose promise is undecided matters only for the rows that were written: a
\* step that decides a call nobody is inside leaves the rows kept and lost alone.
LEMMA SameFates ==
  ASSUME BaseInv, NestingInv, wrote' = wrote,
         \A d \in wrote : inside'[d] = inside[d],
         \A d \in wrote : \A e \in inside[d] : result'[e] = result[e]
  PROVE  /\ wrote' \cap Kept' = wrote \cap Kept
         /\ wrote' \ Lost' = wrote \ Lost
<1>1. wrote \subseteq Calls
  BY DEF BaseInv, ManagerInv, FieldTypes
<1>2. \A d \in wrote : (d \in Kept' <=> d \in Kept) /\ (d \in Lost' <=> d \in Lost)
  BY <1>1 DEF Kept, Lost
<1>3. QED
  BY <1>2

-----------------------------------------------------------------------------
(* Every step keeps the nesting and the rows *)

\* A call made by a callback is inside that callback and the ones around it; a
\* call that is refused or that has no callback has ended at once.
LEMMA MadeInsideNests ==
  ASSUME BaseInv, NestingInv, NEW c \in Calls, NEW p \in Calls, p # NoOp,
         phase[c] = "idle", Runs(p), MadeBy(c, p),
         NEW q \in {"nested", "done"}, phase' = [phase EXCEPT ![c] = q],
         \A d \in Calls : d # c => result'[d] = result[d]
  PROVE  (InsideSelf /\ InsideTransitive /\ AroundIsOpen /\ TopLevelIsAlone)'
<1>0. FieldTypes
  BY DEF BaseInv, ManagerInv
<1>1. InCallback(p) /\ p # c
  BY DEF Runs, InCallback
<1>2. /\ inside[c] = {c} /\ \A d \in Calls : c \in inside[d] => d = c
  BY NotStarted DEF Unstarted
<1>3. /\ \A d \in Calls : phase'[d] = IF d = c THEN q ELSE phase[d]
      /\ \A d \in Calls : parent'[d] = IF d = c THEN p ELSE parent[d]
      /\ \A d \in Calls : inside'[d] = IF d = c THEN {c} \cup inside[p] ELSE inside[d]
      /\ \A d \in Calls : inside[d] \subseteq Calls
  BY <1>0, <1>1 DEF FieldTypes, MadeBy
<1>4. \A a \in Calls : a # c => (InCallback(a)' <=> InCallback(a))
  BY <1>3 DEF InCallback
<1>5. InsideSelf'
  BY <1>3 DEF NestingInv, InsideSelf
<1>6. InsideTransitive'
  <2> SUFFICES ASSUME NEW d \in Calls, NEW e \in inside'[d] PROVE inside'[e] \subseteq inside'[d]
    BY DEF InsideTransitive
  <2>1. CASE d # c
    <3>1. e \in Calls /\ e \in inside[d] /\ e # c
      BY <1>2, <1>3, <2>1
    <3>2. QED
      BY <1>3, <2>1, <3>1 DEF NestingInv, InsideTransitive
  <2>2. CASE d = c /\ e # c
    <3>1. e \in Calls /\ e \in inside[p]
      BY <1>1, <1>3, <2>2
    <3>2. QED
      BY <1>1, <1>3, <2>2, <3>1 DEF NestingInv, InsideTransitive
  <2>3. QED
    BY <2>1, <2>2
<1>7. AroundIsOpen'
  <2> SUFFICES ASSUME NEW d \in Calls, NEW e \in inside'[d], e # d
               PROVE  /\ phase'[e] \notin Unstarted
                      /\ parent'[d] # NoOp
                      /\ \E f \in inside'[d] : parent'[f] = e
                      /\ phase'[d] # "done" => InCallback(e)'
    BY DEF AroundIsOpen
  <2>1. CASE d # c
    <3>1. e \in Calls /\ e \in inside[d] \ {d} /\ e # c
      BY <1>2, <1>3, <2>1
    <3>2. PICK f \in inside[d] : parent[f] = e
      BY <3>1 DEF NestingInv, AroundIsOpen
    <3>3. f \in Calls /\ f # c
      BY <1>2, <1>3, <2>1, <3>2
    <3>4. \E x \in inside'[d] : parent'[x] = e
      BY <1>3, <2>1, <3>2, <3>3
    <3>5. /\ phase[e] \notin Unstarted /\ parent[d] # NoOp
          /\ phase[d] # "done" => InCallback(e)
      BY <3>1 DEF NestingInv, AroundIsOpen
    <3>6. QED
      BY <1>3, <1>4, <2>1, <3>1, <3>4, <3>5
  <2>2. CASE d = c
    <3>1. e \in Calls /\ e \in inside[p] /\ e # c
      BY <1>1, <1>3, <2>2
    <3>2. InCallback(e)
      <4>1. CASE e = p
        BY <1>1, <4>1
      <4>2. CASE e # p
        BY <1>1, <3>1, <4>2 DEF NestingInv, AroundIsOpen, InCallback
      <4>3. QED
        BY <4>1, <4>2
    <3>3. \E f \in inside'[d] : parent'[f] = e
      <4>1. CASE e = p
        BY <1>3, <2>2, <4>1
      <4>2. CASE e # p
        <5>1. PICK f \in inside[p] : parent[f] = e
          BY <3>1, <4>2 DEF NestingInv, AroundIsOpen
        <5>2. f \in Calls /\ f # c
          BY <1>1, <1>2, <1>3, <5>1
        <5>3. QED
          BY <1>3, <2>2, <5>1, <5>2
      <4>3. QED
        BY <4>1, <4>2
    <3>4. phase[e] \notin Unstarted /\ result[e] = "none"
      BY <3>1, <3>2, CallbackFacts DEF InCallback, Unstarted
    <3>5. QED
      BY <1>3, <1>4, <2>2, <3>1, <3>2, <3>3, <3>4
  <2>3. QED
    BY <2>1, <2>2
<1>8. TopLevelIsAlone'
  BY <1>3 DEF NestingInv, TopLevelIsAlone
<1>9. QED
  BY <1>5, <1>6, <1>7, <1>8

\* A nested call is inside the callback that makes it, which is the innermost,
\* and its savepoint is the last one.
LEMMA NestedCallNests ==
  ASSUME ~Outsiders, NEW X, NEW G, "after" \in G, NestedInv(X, G), NEW c \in Calls, NEW p \in Calls \cup {NoOp},
         phase[c] = "idle", MayCall(p), MadeBy(c, p), NestedCall(c, p),
         UNCHANGED <<wrote, result, failed>>
  PROVE  NestingInv' /\ RowsInv(X, G)'
<1>0. /\ BaseInv /\ NestingInv /\ RowsInv(X, G)
      /\ FieldTypes /\ SomeOpen /\ SavepointsNamed
  BY DEF NestedInv, BaseInv, ManagerInv, NestedCall, ManagerKnows
<1>1. p \in Calls /\ p # NoOp /\ Runs(p) /\ InCallback(p) /\ p # c
  BY <1>0, TMAssumption DEF MayCall, SomeOpen, InCallback, Runs
<1>2. /\ inside[c] = {c} /\ c \notin wrote
      /\ \A d \in Calls : c \in inside[d] => d = c
  BY <1>0, NotStarted DEF Unstarted
<1>3. /\ \A d \in Calls : phase'[d] = IF d = c THEN "nested" ELSE phase[d]
      /\ \A d \in Calls : parent'[d] = IF d = c THEN p ELSE parent[d]
      /\ \A d \in Calls : inside'[d] = IF d = c THEN {c} \cup inside[p] ELSE inside[d]
      /\ \A d \in Calls : savepoint'[d] = IF d = c THEN spCounter + 1 ELSE savepoint[d]
      /\ spCounter' = spCounter + 1 /\ spCounter \in Nat
      /\ conn' = Savepoint(conn, spCounter + 1)
      /\ UNCHANGED <<current, wrote, result, failed>>
      /\ \A d \in Calls : inside[d] \subseteq Calls
  BY <1>0, <1>1 DEF FieldTypes, NestedCall, MadeBy, queueVars
<1>4. \A a \in Calls : InCallback(a) => a \in inside[p]
  BY <1>0, <1>1, Innermost
<1>5. \A a \in Calls : InCallback(a)' <=> (InCallback(a) \/ a = c)
  BY <1>3 DEF InCallback
<1>6. ~InCallback(c) /\ phase[c] = "idle"
  BY DEF InCallback
<1> DEFINE n == Len(conn.stack)
<1>7. /\ n \in Nat /\ DOMAIN conn.stack = 1..n /\ DOMAIN conn'.stack = 1..(n + 1)
      /\ conn'.durable = conn.durable /\ Uncommitted(conn') = Uncommitted(conn)
      /\ \A i \in 1..n : conn'.stack[i].name = conn.stack[i].name
                         /\ RowsFrom(conn', i) = RowsFrom(conn, i)
      /\ \A i \in 1..n : conn.stack[i].name \in Nat /\ conn.stack[i].name < spCounter + 1
      /\ conn'.stack[n + 1].name = spCounter + 1 /\ RowsFrom(conn', n + 1) = {}
  <2>1. /\ InTransaction(conn) /\ conn \in Connections(Calls) /\ Ordered(conn) /\ Apart(conn)
        /\ Numbered(conn, spCounter)
    BY <1>0 DEF BaseInv, ManagerInv, ConnectionFollows, Sound
  <2>2. /\ n \in Nat /\ DOMAIN conn.stack = 1..n
        /\ \A i \in 1..n : conn.stack[i].name \in Nat
    BY <2>1, StackFacts
  <2>3. \A i \in 1..n : conn.stack[i].name < spCounter + 1
    BY <1>3, <2>1, <2>2 DEF Numbered
  <2> DEFINE sp == Savepoint(conn, spCounter + 1)
  <2>4. /\ sp \in Connections(Calls)
        /\ sp.durable = conn.durable /\ Len(sp.stack) = n + 1
        /\ \A i \in 1..n : sp.stack[i].name = conn.stack[i].name
                           /\ RowsFrom(sp, i) = RowsFrom(conn, i)
        /\ sp.stack[n + 1].name = spCounter + 1 /\ RowsFrom(sp, n + 1) = {}
        /\ Uncommitted(sp) = Uncommitted(conn)
    <3> DEFINE k == spCounter + 1
    <3>1. k \in Nat /\ \A i \in DOMAIN conn.stack : conn.stack[i].name < k
      BY <1>3, <2>2, <2>3
    <3> HIDE DEF k
    <3>2. /\ Savepoint(conn, k) \in Connections(Calls)
          /\ AddsFrame(conn, Savepoint(conn, k), k)
      BY <2>1, <3>1, SavepointHolds
    <3>3. sp \in Connections(Calls) /\ AddsFrame(conn, sp, spCounter + 1)
      BY <3>2, Zenon DEF k
    <3> HIDE DEF sp
    <3>4. QED
      BY <3>3 DEF AddsFrame
  <2> HIDE DEF sp, n
  <2>5. DOMAIN sp.stack = 1..(n + 1)
    BY <2>4, StackFacts
  <2>6. QED
    BY <1>3, <2>2, <2>3, <2>4, <2>5 DEF sp
<1> HIDE DEF n
<1>8. (InsideSelf /\ InsideTransitive /\ AroundIsOpen /\ TopLevelIsAlone)'
  <2>1. phase' = [phase EXCEPT ![c] = "nested"]
    BY DEF NestedCall
  <2>2. QED
    BY <1>0, <1>1, <2>1, MadeInsideNests
<1>11. OneChain'
  <2>1. \A a \in Calls : InCallback(a) => savepoint[a] < spCounter + 1
    BY <1>0, <1>3 DEF SavepointsNamed, FieldTypes
  <2>2. current # c /\ current \in Calls /\ phase[current] = "open" /\ current \in inside[p]
    BY <1>0, <1>1, <1>6, CallbackFacts
  <2> SUFFICES ASSUME NEW a \in Calls, NEW b \in Calls, InCallback(a)', InCallback(b)'
               PROVE  /\ current \in inside'[a] /\ phase'[current] = "open"
                      /\ a \in inside'[b] \/ b \in inside'[a]
                      /\ a \in inside'[b] /\ a # b => savepoint'[a] < savepoint'[b]
    BY <1>3 DEF OneChain
  <2>3. CASE a # c /\ b # c
    BY <1>0, <1>3, <1>5, <2>2, <2>3 DEF NestingInv, OneChain
  <2>4. CASE a = c /\ b # c
    BY <1>2, <1>3, <1>4, <1>5, <2>2, <2>4
  <2>5. CASE a # c /\ b = c
    BY <1>0, <1>2, <1>3, <1>4, <1>5, <2>1, <2>2, <2>5 DEF NestingInv, OneChain
  <2>6. CASE a = c /\ b = c
    BY <1>3, <2>2, <2>6
  <2>7. QED
    BY <2>3, <2>4, <2>5, <2>6
<1>12. FramesOfCallbacks'
  <2> SUFFICES ASSUME NEW a \in Calls, InCallback(a)'
               PROVE  HasSavepoint(conn', savepoint'[a])
    BY DEF FramesOfCallbacks
  <2>1. CASE a = c
    BY <1>3, <1>7, <2>1 DEF HasSavepoint
  <2>2. CASE a # c
    BY <1>0, <1>3, <1>5, <1>7, <2>2 DEF NestingInv, FramesOfCallbacks, HasSavepoint
  <2>3. QED
    BY <2>1, <2>2
<1>13. OpenOwnsRows'
  <2>1. Uncommitted(conn) \subseteq wrote /\ wrote \subseteq Calls
    BY <1>0 DEF BaseInv, ManagerInv, ConnectionFollows, Sound, Visible, FieldTypes
  <2>2. \A d \in wrote : inside'[d] = inside[d]
    BY <1>2, <1>3, <2>1
  <2>3. \A a \in Calls : phase'[a] = "open" => phase[a] = "open"
    BY <1>3
  <2>4. QED
    BY <1>0, <1>7, <2>1, <2>2, <2>3 DEF RowsInv, OpenOwnsRows
<1>14. wrote' \cap Kept' = wrote \cap Kept /\ wrote' \ Lost' = wrote \ Lost
  BY <1>0, <1>2, <1>3, SameFates DEF FieldTypes
<1>15. DurableIsKept(X, G)'
  BY <1>0, <1>3, <1>7, <1>14 DEF RowsInv, DurableIsKept
<1>16. RowsOfCallbacks'
  <2> SUFFICES ASSUME failed \cap {"commit", "after"} = {},
                      NEW a \in Calls, InCallback(a)', NEW i \in 1..(n + 1),
                      conn'.stack[i].name = savepoint'[a]
               PROVE  RowsFrom(conn', i) = {d \in wrote \ Lost : a \in inside'[d]}
    BY <1>3, <1>7, <1>14 DEF RowsOfCallbacks
  <2>1. wrote \subseteq Calls
    BY <1>0 DEF FieldTypes
  <2>2. CASE a = c
    <3>1. i = n + 1
      BY <1>3, <1>7, <2>2
    <3>2. \A d \in wrote : c \notin inside'[d]
      BY <1>2, <1>3, <2>1
    <3>3. QED
      BY <1>7, <2>2, <3>1, <3>2
  <2>3. CASE a # c
    <3>1. InCallback(a) /\ savepoint[a] \in Nat /\ savepoint[a] < spCounter + 1
      BY <1>0, <1>3, <1>5, <2>3 DEF SavepointsNamed, FieldTypes
    <3>2. i \in 1..n
      BY <1>3, <1>7, <2>3, <3>1
    <3>3. RowsFrom(conn, i) = {d \in wrote \ Lost : a \in inside[d]}
      BY <1>0, <1>3, <1>7, <2>3, <3>1, <3>2 DEF RowsInv, RowsOfCallbacks
    <3>4. \A d \in wrote : inside'[d] = inside[d]
      BY <1>2, <1>3, <2>1
    <3>5. QED
      BY <1>7, <3>2, <3>3, <3>4
  <2>4. QED
    BY <2>2, <2>3
<1>17. QED
  BY <1>8, <1>11, <1>12, <1>13, <1>15, <1>16 DEF NestingInv, RowsInv

\* Calls that have not been started and that are queued or refused:
\* they are inside nothing, nothing is inside them and they have written no row.
LEMMA AloneStays ==
  ASSUME BaseInv, NestingInv, NEW S \in SUBSET Calls,
         \A c \in S : /\ phase[c] \in Unstarted /\ inside'[c] = {c}
                      /\ phase'[c] \in {"queued", "done"},
         \A c \in Calls \ S : /\ phase'[c] = phase[c] /\ parent'[c] = parent[c]
                             /\ result'[c] = result[c] /\ inside'[c] = inside[c]
  PROVE  /\ (InsideSelf /\ InsideTransitive /\ AroundIsOpen /\ TopLevelIsAlone)'
         /\ \A d \in Calls : inside'[d] = inside[d] /\ inside[d] \subseteq Calls
         /\ \A a \in Calls : /\ InCallback(a)' <=> InCallback(a)
                             /\ phase'[a] = "open" <=> phase[a] = "open"
         /\ \A d \in Calls : \A e \in inside[d] : e \in S => e = d /\ d \notin wrote
<1>0. FieldTypes /\ \A d \in Calls : inside[d] \subseteq Calls
  BY DEF BaseInv, ManagerInv, FieldTypes
<1>1. ASSUME NEW c \in S
      PROVE  /\ inside[c] = {c} /\ c \notin wrote
             /\ \A d \in Calls : c \in inside[d] => d = c
  BY NotStarted
<1>2. /\ \A d \in Calls : inside'[d] = inside[d]
      /\ \A a \in Calls : /\ InCallback(a)' <=> InCallback(a)
                          /\ phase'[a] = "open" <=> phase[a] = "open"
  BY <1>1 DEF InCallback, Unstarted
<1>3. (InsideSelf /\ InsideTransitive)'
  BY <1>0, <1>2 DEF NestingInv, InsideSelf, InsideTransitive
<1>4. TopLevelIsAlone'
  BY <1>0, <1>1, <1>2 DEF NestingInv, TopLevelIsAlone
<1>5. AroundIsOpen'
  <2> SUFFICES ASSUME NEW d \in Calls, NEW e \in inside[d], e # d
               PROVE  /\ phase'[e] \notin Unstarted
                      /\ parent'[d] # NoOp
                      /\ \E f \in inside[d] : parent'[f] = e
                      /\ phase'[d] # "done" => InCallback(e)'
    BY <1>2 DEF AroundIsOpen
  <2>1. d \in Calls \ S /\ e \in Calls \ S
    BY <1>0, <1>1
  <2>2. /\ phase[e] \notin Unstarted /\ parent[d] # NoOp
        /\ \E f \in inside[d] : parent[f] = e
        /\ phase[d] # "done" => InCallback(e)
    BY <1>0 DEF NestingInv, AroundIsOpen
  <2>3. PICK f \in inside[d] : parent[f] = e
    BY <2>2
  <2>4. f \in Calls \ S
    BY <1>0, <1>1, <2>1
  <2>5. QED
    BY <1>2, <2>1, <2>2, <2>3, <2>4
<1>6. QED
  BY <1>0, <1>1, <1>2, <1>3, <1>4, <1>5

\* When they leave the connection alone the rows stay whose they are.
LEMMA AloneNests ==
  ASSUME NEW X, NEW G, "after" \in G, NestedInv(X, G), NEW S \in SUBSET Calls,
         \A c \in S : /\ phase[c] \in Unstarted /\ inside'[c] = {c}
                      /\ phase'[c] \in {"queued", "done"},
         \A c \in Calls \ S : /\ phase'[c] = phase[c] /\ parent'[c] = parent[c]
                             /\ result'[c] = result[c] /\ inside'[c] = inside[c],
         UNCHANGED <<current, conn, savepoint, wrote, failed>>
  PROVE  NestingInv' /\ RowsInv(X, G)'
<1>0. BaseInv /\ NestingInv /\ RowsInv(X, G) /\ FieldTypes
  BY DEF NestedInv, BaseInv, ManagerInv
<1>1. /\ (InsideSelf /\ InsideTransitive /\ AroundIsOpen /\ TopLevelIsAlone)'
      /\ \A d \in Calls : inside'[d] = inside[d] /\ inside[d] \subseteq Calls
      /\ \A a \in Calls : /\ InCallback(a)' <=> InCallback(a)
                          /\ phase'[a] = "open" <=> phase[a] = "open"
      /\ \A d \in Calls : \A e \in inside[d] : e \in S => e = d /\ d \notin wrote
  BY <1>0, AloneStays
<1>2. /\ \A d \in Calls : inside'[d] = inside[d]
      /\ \A a \in Calls : /\ InCallback(a)' <=> InCallback(a)
                          /\ phase'[a] = "open" <=> phase[a] = "open"
  BY <1>1
<1>6. OneChain'
  <2> SUFFICES ASSUME NEW a \in Calls, NEW b \in Calls, InCallback(a), InCallback(b)
               PROVE  /\ current \in inside[a] /\ phase'[current] = "open"
                      /\ a \in inside[b] \/ b \in inside[a]
                      /\ a \in inside[b] /\ a # b => savepoint[a] < savepoint[b]
    BY <1>2 DEF OneChain
  <2>1. /\ current \in inside[a] /\ phase[current] = "open" /\ current \in Calls
    BY <1>0, CallbackFacts
  <2>2. QED
    BY <1>0, <1>2, <2>1 DEF NestingInv, OneChain
<1>7. FramesOfCallbacks' /\ OpenOwnsRows'
  <2>1. FramesOfCallbacks'
    BY <1>0, <1>2 DEF NestingInv, FramesOfCallbacks
  <2>2. Uncommitted(conn) \subseteq Calls
    BY <1>0 DEF BaseInv, ManagerInv, ConnectionFollows, Sound, Visible, FieldTypes
  <2>3. OpenOwnsRows'
    BY <1>0, <1>2, <2>2 DEF RowsInv, OpenOwnsRows
  <2>4. QED
    BY <2>1, <2>3
<1>8. wrote' \cap Kept' = wrote \cap Kept /\ wrote' \ Lost' = wrote \ Lost
  <2>1. wrote \subseteq Calls
    BY <1>0 DEF FieldTypes
  <2>2. \A d \in wrote : inside'[d] = inside[d]
    BY <1>2, <2>1
  <2>3. \A d \in wrote : \A e \in inside[d] : result'[e] = result[e]
    BY <1>1, <2>1
  <2>4. QED
    BY <1>0, <2>2, <2>3, SameFates
<1>9. DurableIsKept(X, G)'
  BY <1>0, <1>8 DEF RowsInv, DurableIsKept
<1>10. RowsOfCallbacks'
  <2> SUFFICES ASSUME failed \cap {"commit", "after"} = {}, NEW a \in Calls, InCallback(a),
                      NEW i \in DOMAIN conn.stack, conn.stack[i].name = savepoint[a]
               PROVE  RowsFrom(conn, i) = {d \in wrote' \ Lost' : a \in inside'[d]}
    BY <1>2 DEF RowsOfCallbacks
  <2>1. RowsFrom(conn, i) = {d \in wrote \ Lost : a \in inside[d]}
    BY <1>0 DEF RowsInv, RowsOfCallbacks
  <2>2. wrote \subseteq Calls
    BY <1>0 DEF FieldTypes
  <2>3. QED
    BY <1>2, <1>8, <2>1, <2>2
<1>11. QED
  BY <1>1, <1>6, <1>7, <1>9, <1>10 DEF NestingInv, RowsInv

\* A call that comes from outside any callback is inside nothing.
LEMMA MadeOutside ==
  ASSUME BaseInv, NestingInv, NEW c \in Calls, phase[c] = "idle", MadeBy(c, NoOp)
  PROVE  /\ \A d \in Calls : inside'[d] = inside[d]
         /\ inside'[c] = {c}
         /\ \A d \in Calls : d # c => parent'[d] = parent[d]
<1>1. FieldTypes /\ inside[c] = {c}
  BY NotStarted DEF BaseInv, ManagerInv, Unstarted
<1>2. QED
  BY <1>1 DEF FieldTypes, MadeBy

\* A call that queues comes when no callback is in progress.
LEMMA QueuedCallNests ==
  ASSUME ~Outsiders, NEW X, NEW G, "after" \in G, NestedInv(X, G), NEW c \in Calls,
         NEW p \in Calls \cup {NoOp}, phase[c] = "idle", MayCall(p), MadeBy(c, p),
         QueuedCall(c, p), UNCHANGED <<wrote, result, failed>>
  PROVE  NestingInv' /\ RowsInv(X, G)'
<1>0. /\ BaseInv /\ NestingInv /\ FieldTypes /\ ~SomeOpen
  BY DEF NestedInv, BaseInv, ManagerInv, QueuedCall, ManagerKnows
<1>1. p = NoOp
  <2>1. \A a \in Calls : ~InCallback(a)
    BY <1>0, CallbackFacts
  <2>2. QED
    BY <2>1 DEF MayCall, Runs
<1>2. /\ \A d \in Calls : phase'[d] = IF d = c THEN "queued" ELSE phase[d]
      /\ UNCHANGED <<current, conn, savepoint, wrote, result, failed>>
  BY <1>0 DEF FieldTypes, QueuedCall, Q!EnqueueAccepted
<1>3. /\ \A d \in Calls : inside'[d] = inside[d]
      /\ inside'[c] = {c}
      /\ \A d \in Calls : d # c => parent'[d] = parent[d]
  BY <1>0, <1>1, MadeOutside
<1> DEFINE S == {c}
<1>4. /\ S \in SUBSET Calls
      /\ \A d \in S : /\ phase[d] \in Unstarted /\ inside'[d] = {d}
                      /\ phase'[d] \in {"queued", "done"}
      /\ \A d \in Calls \ S : /\ phase'[d] = phase[d] /\ parent'[d] = parent[d]
                             /\ result'[d] = result[d] /\ inside'[d] = inside[d]
  BY <1>2, <1>3 DEF Unstarted
<1> HIDE DEF S
<1>5. QED
  BY <1>2, <1>4, AloneNests

\* Between two items no callback is in progress, and a call that is around another
\* has ended: the nesting stays as it is, whatever the next item is.
LEMMA BetweenNests ==
  ASSUME BaseInv, NestingInv, NEW ph, Between(ph),
         \A d \in Calls : \/ phase'[d] = ph[d] /\ result'[d] = result[d]
                          \/ phase[d] = "queued" /\ phase'[d] \in {"open", "unwound"}
  PROVE  /\ (InsideSelf /\ InsideTransitive /\ AroundIsOpen /\ TopLevelIsAlone)'
         /\ \A a \in Calls : ~InCallback(a)
<1>0. FieldTypes /\ ~SomeOpen /\ parent' = parent /\ inside' = inside
  BY DEF BaseInv, ManagerInv, SomeOpen, Between
<1>1. \A a \in Calls : ~InCallback(a)
  BY <1>0, CallbackFacts
<1>2. \A d \in Calls : inside[d] \subseteq Calls
  BY <1>0 DEF FieldTypes
<1>3. InsideSelf' /\ InsideTransitive'
  BY <1>0 DEF NestingInv, InsideSelf, InsideTransitive
<1>4. TopLevelIsAlone'
  BY <1>0 DEF NestingInv, TopLevelIsAlone, Between
<1>5. AroundIsOpen'
  <2> SUFFICES ASSUME NEW d \in Calls, NEW e \in inside[d], e # d
               PROVE  /\ phase'[e] \notin Unstarted
                      /\ parent[d] # NoOp
                      /\ \E f \in inside[d] : parent[f] = e
                      /\ phase'[d] # "done" => InCallback(e)'
    BY <1>0 DEF AroundIsOpen
  <2>1. /\ phase[e] \notin Unstarted /\ parent[d] # NoOp
        /\ \E f \in inside[d] : parent[f] = e
        /\ phase[d] # "done" => InCallback(e)
    BY DEF NestingInv, AroundIsOpen
  <2>2. phase[d] = "done" /\ e \in Calls
    BY <1>1, <1>2, <2>1
  <2>3. phase'[d] = "done"
    BY <2>2 DEF Between
  <2>4. phase'[e] \notin Unstarted
    BY <2>1, <2>2 DEF Between, Unstarted
  <2>5. QED
    BY <2>1, <2>3, <2>4
<1>6. QED
  BY <1>1, <1>3, <1>4, <1>5

\* With no callback in progress what is left to show is about the durable rows.
LEMMA NoCallbackNests ==
  ASSUME NEW X, NEW G,
         (InsideSelf /\ InsideTransitive /\ AroundIsOpen /\ TopLevelIsAlone)',
         \A a \in Calls : ~InCallback(a)', DurableIsKept(X, G)'
  PROVE  NestingInv' /\ RowsInv(X, G)'
<1>1. \A a \in Calls : phase'[a] # "open"
  BY DEF InCallback
<1>2. OneChain' /\ FramesOfCallbacks' /\ OpenOwnsRows' /\ RowsOfCallbacks'
  BY <1>1 DEF OneChain, FramesOfCallbacks, OpenOwnsRows, RowsOfCallbacks
<1>3. QED
  BY <1>2 DEF NestingInv, RowsInv

\* The queue is empty.
LEMMA NothingStartsNests ==
  ASSUME NEW X, NEW G, "after" \in G, NestedInv(X, G), NEW ph, Between(ph),
         phase' = ph, UNCHANGED <<conn, wrote, result>>
  PROVE  NestingInv' /\ RowsInv(X, G)'
<1>0. BaseInv /\ NestingInv /\ RowsInv(X, G) /\ inside' = inside /\ failed' = failed
  BY DEF NestedInv, Between
<1>1. (InsideSelf /\ InsideTransitive /\ AroundIsOpen /\ TopLevelIsAlone)'
  BY <1>0, BetweenNests
<1>2. \A a \in Calls : ~InCallback(a)'
  BY <1>0, BetweenNests DEF InCallback, Between
<1>3. DurableIsKept(X, G)'
  BY <1>0 DEF RowsInv, DurableIsKept, Kept
<1>4. QED
  BY <1>1, <1>2, <1>3, NoCallbackNests

\* The next item opens a new transaction, which holds no row.
LEMMA TransactionBeginsNests ==
  ASSUME NEW X, NEW G, "after" \in G, NestedInv(X, G), NEW ph, Between(ph),
         NEW h \in Calls, phase[h] = "queued", current' = h,
         TransactionBegins(h, ph), UNCHANGED wrote
  PROVE  NestingInv' /\ RowsInv(X, G)'
<1>0. /\ BaseInv /\ NestingInv /\ RowsInv(X, G) /\ FieldTypes
      /\ UNCHANGED <<savepoint, inside, failed, wrote>>
  BY DEF NestedInv, BaseInv, ManagerInv, Between
<1>1. /\ \A d \in Calls : phase'[d] = IF d = h THEN "open" ELSE ph[d]
      /\ result' = result /\ conn' = Begin(conn)
  BY DEF TransactionBegins, Between
<1>2. /\ (InsideSelf /\ InsideTransitive /\ AroundIsOpen /\ TopLevelIsAlone)'
      /\ \A a \in Calls : ~InCallback(a)
  BY <1>0, <1>1, BetweenNests
<1>3. \A a \in Calls : InCallback(a)' \/ phase'[a] = "open" => a = h
  BY <1>1, <1>2 DEF InCallback, Between
<1>4. /\ inside[h] = {h} /\ h \notin wrote /\ wrote \subseteq Calls
      /\ \A d \in Calls : h \in inside[d] => d = h
  BY <1>0, NotStarted DEF Unstarted, FieldTypes
<1>5. /\ conn'.durable = conn.durable /\ Uncommitted(conn') = {}
      /\ conn'.stack = <<[name |-> TxFrame, rows |-> {}]>>
  BY <1>0, <1>1, BeginHolds DEF BaseInv, ManagerInv, ConnectionFollows, Sound
<1>6. /\ DOMAIN conn'.stack = {1} /\ Len(conn'.stack) = 1
      /\ conn'.stack[1].name = TxFrame /\ conn'.stack[1].rows = {}
  BY <1>5
<1>7. savepoint'[h] = TxFrame
  BY <1>0 DEF BaseInv, ManagerInv, SavepointsNamed
<1>8. OneChain'
  BY <1>0, <1>1, <1>3, <1>4 DEF OneChain
<1>9. FramesOfCallbacks'
  BY <1>3, <1>6, <1>7 DEF FramesOfCallbacks, HasSavepoint
<1>10. OpenOwnsRows'
  BY <1>5 DEF OpenOwnsRows
<1>11. \A i \in DOMAIN conn'.stack : RowsFrom(conn', i) = {}
  <2>1. \A j \in 1..1 : j = 1
    OBVIOUS
  <2>2. QED
    BY <1>6, <2>1 DEF RowsFrom
<1>12. RowsOfCallbacks'
  BY <1>0, <1>3, <1>4, <1>11 DEF RowsOfCallbacks
<1>13. DurableIsKept(X, G)'
  BY <1>0, <1>1, <1>5 DEF RowsInv, DurableIsKept, Kept
<1>14. QED
  BY <1>2, <1>8, <1>9, <1>10, <1>12, <1>13 DEF NestingInv, RowsInv

\* The next item ends in the segment that starts it.  It has written nothing, or
\* its row is durable and it has succeeded, or it is one of X.
LEMMA SyncItemNests ==
  ASSUME NEW X, NEW G, "after" \in G, NestedInv(X, G), NEW ph, Between(ph),
         NEW h \in Calls, phase[h] = "queued",
         NEW r \in {"ok", "error", "busy"}, phase' = [ph EXCEPT ![h] = "unwound"],
         result' = [result EXCEPT ![h] = r],
         \/ wrote' = wrote /\ (failed \cap G = {} => conn'.durable = conn.durable)
         \/ /\ wrote' = wrote \cup {h} /\ (r = "ok" \/ h \in X)
            /\ failed \cap G = {} => conn'.durable = conn.durable \cup {h}
  PROVE  NestingInv' /\ RowsInv(X, G)'
<1>0. /\ BaseInv /\ NestingInv /\ RowsInv(X, G) /\ FieldTypes
      /\ inside' = inside /\ failed' = failed
      /\ \A d \in Calls : inside[d] \subseteq Calls
  BY DEF NestedInv, BaseInv, ManagerInv, Between, FieldTypes
<1>1. /\ \A d \in Calls : phase'[d] = IF d = h THEN "unwound" ELSE ph[d]
      /\ \A d \in Calls : result'[d] = IF d = h THEN r ELSE result[d]
  BY <1>0 DEF FieldTypes, Between
<1>2. /\ (InsideSelf /\ InsideTransitive /\ AroundIsOpen /\ TopLevelIsAlone)'
      /\ \A a \in Calls : ~InCallback(a)
  BY <1>0, <1>1, BetweenNests
<1>3. \A a \in Calls : ~InCallback(a)'
  BY <1>1, <1>2 DEF InCallback, Between
<1>4. /\ inside[h] = {h} /\ h \notin wrote /\ wrote \subseteq Calls
      /\ \A d \in Calls : h \in inside[d] => d = h
  BY <1>0, NotStarted DEF Unstarted, FieldTypes
<1>5. ASSUME NEW d \in wrote PROVE d \in Kept' <=> d \in Kept
  <2>1. \A e \in inside[d] : e \in Calls /\ result'[e] = result[e]
    BY <1>0, <1>1, <1>4
  <2>2. QED
    BY <1>0, <1>4, <2>1 DEF Kept
<1>6. r = "ok" => h \in Kept'
  BY <1>0, <1>1, <1>4 DEF Kept
<1>7. DurableIsKept(X, G)'
  <2> SUFFICES ASSUME failed \cap G = {}
               PROVE  conn'.durable \ X = (wrote' \cap Kept') \ X
    BY <1>0 DEF DurableIsKept
  <2>1. conn.durable \ X = (wrote \cap Kept) \ X
    BY <1>0 DEF RowsInv, DurableIsKept
  <2>2. CASE wrote' = wrote
    <3>1. conn'.durable = conn.durable
      BY <1>4, <2>2
    <3>2. QED
      BY <1>5, <2>1, <2>2, <3>1
  <2>3. CASE wrote' = wrote \cup {h} /\ (r = "ok" \/ h \in X)
    <3>1. conn'.durable = conn.durable \cup {h}
      BY <1>4, <2>3
    <3>2. QED
      BY <1>5, <1>6, <2>1, <2>3, <3>1
  <2>4. QED
    BY <2>2, <2>3
<1>8. QED
  BY <1>2, <1>3, <1>7, NoCallbackNests

\* Whatever the queue has at its head.
LEMMA StartNextNests ==
  ASSUME NEW X, NEW G, "after" \in G, NestedInv(X, G), NEW ph, Between(ph),
         StartNext(ph), Q!LoopHead, UNCHANGED wrote
  PROVE  NestingInv' /\ RowsInv(X, G)'
<1>1. CASE items = <<>>
  <2>1. phase' = ph /\ UNCHANGED <<conn, wrote, result>>
    BY <1>1 DEF StartNext
  <2>2. QED
    BY <2>1, NothingStartsNests
<1>2. CASE items # <<>>
  <2> DEFINE h == Head(items)
  <2>1. h \in Calls /\ phase[h] = "queued"
    BY <1>2, HeadIsQueued DEF NestedInv
  <2>2. StartItem(h, ph) /\ current' = h
    BY <1>2 DEF StartNext, Q!LoopHead, Q!TakeNextItem, Q!FinishProcessing
  <2> HIDE DEF h
  <2>3. CASE TransactionBegins(h, ph)
    BY <2>1, <2>2, <2>3, TransactionBeginsNests
  <2>4. CASE TransactionFailsToBegin(h, ph)
    <3>1. PICK e \in {"ok", "error", "busy"} : result' = [result EXCEPT ![h] = e]
      BY <2>4, BeginErrorsAreFailures DEF TransactionFailsToBegin, Failures
    <3>2. /\ phase' = [ph EXCEPT ![h] = "unwound"]
          /\ wrote' = wrote /\ conn'.durable = conn.durable
      BY <2>4 DEF TransactionFailsToBegin
    <3>3. QED
      BY <2>1, <3>1, <3>2, SyncItemNests
  <2>5. QED
    BY <2>2, <2>3, <2>4 DEF StartItem
<1>3. QED
  BY <1>1, <1>2

LEMMA EnterProcessNests ==
  ASSUME NEW X, NEW G, "after" \in G, NestedInv(X, G), EnterProcess
  PROVE  NestingInv' /\ RowsInv(X, G)'
<1>1. /\ BaseInv /\ Q!EnterProcess /\ StartNext(phase)
      /\ UNCHANGED <<spCounter, parent, savepoint, wrote, inside, failed>>
  BY DEF NestedInv, EnterProcess
<1>2. Between(phase) /\ Q!LoopHead
  BY <1>1, EnterIsBetween
<1>3. QED
  BY <1>1, <1>2, StartNextNests

LEMMA SettleNests ==
  ASSUME NEW X, NEW G, "after" \in G, NestedInv(X, G), Settle
  PROVE  NestingInv' /\ RowsInv(X, G)'
<1> DEFINE ph == [phase EXCEPT ![current] = "done"]
<1>1. /\ current # NoOp /\ phase[current] = "unwound" /\ StartNext(ph) /\ BaseInv
      /\ Q!Settle(IF result[current] = "ok" THEN "resolved" ELSE "rejected")
      /\ UNCHANGED <<spCounter, parent, savepoint, wrote, inside, failed>>
  BY DEF Settle, NestedInv
<1>2. Between(ph) /\ Q!LoopHead
  BY <1>1, SettleIsBetween
<1> HIDE DEF ph
<1>3. QED
  BY <1>1, <1>2, StartNextNests

\* A row is written into the frame of the callback that writes it, which is on
\* top: the frames below are of callbacks around it.
LEMMA WriteNests ==
  ASSUME NEW X, NEW G, "after" \in G, NestedInv(X, G), NEW c \in Calls, Write(c)
  PROVE  NestingInv' /\ RowsInv(X, G)' /\ conn'.durable = conn.durable
<1>0. /\ BaseInv /\ NestingInv /\ RowsInv(X, G) /\ FieldTypes
      /\ Runs(c) /\ InCallback(c) /\ c \notin wrote
      /\ wrote' = wrote \cup {c} /\ conn' = WriteRow(conn, c)
      /\ UNCHANGED <<current, phase, parent, savepoint, result, inside, failed>>
  BY DEF NestedInv, BaseInv, ManagerInv, Write, Runs, queueVars
<1>1. /\ InTransaction(conn) /\ current \in inside[c] /\ phase[current] = "open"
      /\ result[c] = "none" /\ current \in Calls
  BY <1>0, CallbackFacts
<1>2. /\ \A a \in Calls : InCallback(a) => a \in inside[c]
      /\ \A d \in Calls : inside[d] \subseteq Calls
  BY <1>0, Innermost DEF FieldTypes
<1> DEFINE n == Len(conn.stack)
<1>3. /\ DOMAIN conn.stack = 1..n /\ DOMAIN conn'.stack = 1..n
      /\ conn'.durable = conn.durable /\ Uncommitted(conn') = Uncommitted(conn) \cup {c}
      /\ \A i \in 1..n : conn'.stack[i].name = conn.stack[i].name
                         /\ RowsFrom(conn', i) = RowsFrom(conn, i) \cup {c}
  <2>1. /\ conn \in Connections(Calls) /\ Ordered(conn) /\ Apart(conn)
        /\ c \notin Uncommitted(conn)
    BY <1>0 DEF BaseInv, ManagerInv, ConnectionFollows, Sound, Visible
  <2> DEFINE w == WriteRow(conn, c)
  <2>2. /\ w \in Connections(Calls) /\ w.durable = conn.durable /\ Len(w.stack) = n
        /\ \A i \in 1..n : w.stack[i].name = conn.stack[i].name
                           /\ RowsFrom(w, i) = RowsFrom(conn, i) \cup {c}
        /\ Uncommitted(w) = Uncommitted(conn) \cup {c}
    <3>1. w \in Connections(Calls) /\ AddsRow(conn, w, c)
      BY <1>1, <2>1, WriteHolds
    <3> HIDE DEF w
    <3>2. QED
      BY <3>1 DEF AddsRow
  <2> HIDE DEF w, n
  <2>3. DOMAIN conn.stack = 1..n /\ DOMAIN w.stack = 1..n
    BY <2>1, <2>2, StackFacts DEF n
  <2>4. QED
    BY <1>0, <2>2, <2>3 DEF w
<1> HIDE DEF n
<1>4. (InsideSelf /\ InsideTransitive /\ TopLevelIsAlone)'
  BY <1>0 DEF NestingInv, InsideSelf, InsideTransitive, TopLevelIsAlone
<1>5. AroundIsOpen' /\ OneChain'
  BY <1>0 DEF NestingInv, AroundIsOpen, OneChain, InCallback
<1>6. FramesOfCallbacks'
  BY <1>0, <1>3 DEF NestingInv, FramesOfCallbacks, HasSavepoint, InCallback
<1>7. OpenOwnsRows'
  <2>1. \A a \in Calls : phase[a] = "open" => a \in inside[c]
    BY <1>2 DEF InCallback
  <2>2. QED
    BY <1>0, <1>3, <2>1 DEF RowsInv, OpenOwnsRows
<1>8. c \notin Kept /\ c \notin Lost /\ c \in inside[c]
  <2>1. c \in inside[c]
    BY <1>0 DEF NestingInv, InsideSelf
  <2>2. ASSUME NEW e \in inside[c] PROVE result[e] = "none"
    <3>1. e \in Calls /\ InCallback(e)
      BY <1>0, <1>2 DEF NestingInv, AroundIsOpen, InCallback
    <3>2. QED
      BY <1>0, <3>1, CallbackFacts
  <2>3. QED
    BY <2>1, <2>2 DEF Kept, Lost, Failures
<1>9. Kept' = Kept /\ Lost' = Lost
  BY <1>0 DEF Kept, Lost
<1>10. DurableIsKept(X, G)'
  BY <1>0, <1>3, <1>8, <1>9 DEF RowsInv, DurableIsKept
<1>11. RowsOfCallbacks'
  <2> SUFFICES ASSUME failed \cap {"commit", "after"} = {},
                      NEW a \in Calls, InCallback(a), NEW i \in 1..n,
                      conn.stack[i].name = savepoint[a]
               PROVE  RowsFrom(conn', i) = {d \in wrote' \ Lost : a \in inside[d]}
    BY <1>0, <1>3, <1>9 DEF RowsOfCallbacks, InCallback
  <2>1. RowsFrom(conn, i) = {d \in wrote \ Lost : a \in inside[d]}
    BY <1>0, <1>3 DEF RowsInv, RowsOfCallbacks
  <2>2. a \in inside[c]
    BY <1>2
  <2>3. QED
    BY <1>0, <1>3, <1>8, <2>1, <2>2
<1>12. QED
  BY <1>3, <1>4, <1>5, <1>6, <1>7, <1>10, <1>11 DEF NestingInv, RowsInv

\* A callback that ends leaves the nesting of the others as it is.
LEMMA EndNests ==
  ASSUME BaseInv, NestingInv, NEW c \in Calls, Runs(c),
         UNCHANGED <<current, parent, savepoint, inside>>,
         \/ phase[c] = "open" /\ phase' = [phase EXCEPT ![c] = "unwound"]
         \/ phase[c] = "nested" /\ phase' = [phase EXCEPT ![c] = "done"]
  PROVE  /\ (InsideSelf /\ InsideTransitive /\ AroundIsOpen /\ TopLevelIsAlone /\ OneChain)'
         /\ \A a \in Calls : InCallback(a)' <=> InCallback(a) /\ a # c
         /\ \A a \in Calls : InCallback(a)' => a \in inside[c] \ {c} /\ savepoint[a] < savepoint[c]
<1>0. /\ BaseInv /\ NestingInv /\ FieldTypes /\ InCallback(c)
      /\ \A d \in Calls : inside[d] \subseteq Calls
  BY DEF BaseInv, ManagerInv, Runs, FieldTypes
<1>1. /\ \A a \in Calls : InCallback(a) => a \in inside[c]
      /\ \A d \in Calls : c \in inside[d] /\ d # c => phase[d] = "done"
  BY <1>0, Innermost
<1>2. /\ \A d \in Calls : d # c => phase'[d] = phase[d]
      /\ phase'[c] \in {"unwound", "done"}
      /\ phase'[c] = "unwound" => phase[c] = "open"
      /\ phase'[c] = "done" => phase[c] = "nested"
      /\ phase[c] = "nested" => phase'[c] = "done"
  BY <1>0 DEF FieldTypes
<1>3. \A a \in Calls : InCallback(a)' <=> InCallback(a) /\ a # c
  BY <1>2 DEF InCallback
<1>4. (InsideSelf /\ InsideTransitive)'
  BY <1>0 DEF NestingInv, InsideSelf, InsideTransitive
<1>5. TopLevelIsAlone'
  BY <1>0, <1>2 DEF NestingInv, TopLevelIsAlone
<1>6. AroundIsOpen'
  <2> SUFFICES ASSUME NEW d \in Calls, NEW e \in inside[d], e # d
               PROVE  /\ phase'[e] \notin Unstarted
                      /\ parent[d] # NoOp
                      /\ \E f \in inside[d] : parent[f] = e
                      /\ phase'[d] # "done" => InCallback(e)'
    BY DEF AroundIsOpen
  <2>1. /\ phase[e] \notin Unstarted /\ parent[d] # NoOp
        /\ \E f \in inside[d] : parent[f] = e
        /\ phase[d] # "done" => InCallback(e)
    BY <1>0 DEF NestingInv, AroundIsOpen
  <2>2. e \in Calls
    BY <1>0
  <2>3. ASSUME phase'[d] # "done" PROVE InCallback(e)'
    <3>1. d # c
      <4>1. CASE phase[c] = "nested"
        BY <1>2, <2>3, <4>1
      <4>2. CASE phase[c] = "open"
        BY <1>0, <4>2 DEF NestingInv, TopLevelIsAlone
      <4>3. QED
        BY <1>0, <4>1, <4>2 DEF InCallback
    <3>2. phase[d] # "done"
      BY <1>2, <2>3, <3>1
    <3>3. e # c
      BY <1>1, <3>1, <3>2
    <3>4. QED
      BY <1>3, <2>1, <2>2, <3>2, <3>3
  <2>4. phase'[e] \notin Unstarted
    BY <1>2, <2>1, <2>2 DEF Unstarted
  <2>5. QED
    BY <2>1, <2>3, <2>4
<1>7. \A a \in Calls : InCallback(a)' => a \in inside[c] \ {c} /\ savepoint[a] < savepoint[c]
  BY <1>0, <1>1, <1>3 DEF NestingInv, OneChain
<1>8. OneChain'
  <2> SUFFICES ASSUME NEW a \in Calls, NEW b \in Calls, InCallback(a)', InCallback(b)'
               PROVE  /\ current \in inside[a] /\ phase'[current] = "open"
                      /\ a \in inside[b] \/ b \in inside[a]
                      /\ a \in inside[b] /\ a # b => savepoint[a] < savepoint[b]
    BY DEF OneChain
  <2>1. /\ current \in inside[a] /\ phase[current] = "open" /\ current \in Calls
        /\ a \in inside[b] \/ b \in inside[a]
        /\ a \in inside[b] /\ a # b => savepoint[a] < savepoint[b]
    BY <1>0, <1>3 DEF NestingInv, OneChain
  <2>2. current # c
    <3>1. CASE phase[c] = "nested"
      BY <2>1, <3>1
    <3>2. CASE phase[c] = "open"
      BY <1>0, <1>7, <3>2 DEF NestingInv, TopLevelIsAlone
    <3>3. QED
      BY <1>0, <3>1, <3>2 DEF InCallback
  <2>3. QED
    BY <1>2, <2>1, <2>2
<1>9. QED
  BY <1>3, <1>4, <1>5, <1>6, <1>7, <1>8

\* A call that fails loses the rows of the calls inside it, and those were not
\* kept before.
LEMMA FateOfError ==
  ASSUME BaseInv, NEW c \in Calls, result[c] = "none", NEW e \in {"error", "busy"},
         result' = [result EXCEPT ![c] = e], UNCHANGED <<wrote, inside>>
  PROVE  /\ wrote' \cap Kept' = wrote \cap Kept
         /\ wrote' \ Lost' = {d \in wrote \ Lost : c \notin inside[d]}
<1>1. /\ wrote \subseteq Calls /\ \A d \in Calls : inside[d] \subseteq Calls
      /\ \A d \in Calls : result'[d] = IF d = c THEN e ELSE result[d]
  BY DEF BaseInv, ManagerInv, FieldTypes
<1>2. ASSUME NEW d \in wrote
      PROVE  /\ d \in Kept' <=> d \in Kept
             /\ d \notin Lost' <=> d \notin Lost /\ c \notin inside[d]
  <2>1. d \in Kept' <=> d \in Kept
    <3>1. CASE c \in inside[d]
      BY <1>1, <3>1 DEF Kept
    <3>2. CASE c \notin inside[d]
      <4>1. \A f \in inside[d] : result'[f] = result[f]
        BY <1>1, <3>2
      <4>2. QED
        BY <1>1, <4>1 DEF Kept
    <3>3. QED
      BY <3>1, <3>2
  <2>2. d \notin Lost' <=> d \notin Lost /\ c \notin inside[d]
    BY <1>1 DEF Lost, Failures
  <2>3. QED
    BY <2>1, <2>2
<1>3. QED
  BY <1>2

\* The success of a nested call decides nothing: the queued call around it has
\* not ended.
LEMMA FateOfNestedSuccess ==
  ASSUME BaseInv, NestingInv, NEW c \in Calls, phase[c] = "nested",
         result' = [result EXCEPT ![c] = "ok"], UNCHANGED <<wrote, inside>>
  PROVE  /\ wrote' \cap Kept' = wrote \cap Kept
         /\ wrote' \ Lost' = wrote \ Lost
<1>1. /\ wrote \subseteq Calls /\ \A d \in Calls : inside[d] \subseteq Calls
      /\ \A d \in Calls : result'[d] = IF d = c THEN "ok" ELSE result[d]
  BY DEF BaseInv, ManagerInv, FieldTypes
<1>2. /\ current \in Calls /\ phase[current] = "open" /\ current \in inside[c]
      /\ result[c] = "none"
  BY CallbackFacts DEF InCallback
<1>3. InCallback(current) /\ result[current] = "none" /\ current # c
  BY <1>2, CallbackFacts DEF InCallback
<1>4. ASSUME NEW d \in wrote
      PROVE  (d \in Kept' <=> d \in Kept) /\ (d \in Lost' <=> d \in Lost)
  <2>1. CASE c \in inside[d]
    <3>1. current \in inside[d]
      BY <1>1, <1>2, <2>1 DEF NestingInv, InsideTransitive
    <3>2. d \notin Kept /\ d \notin Kept'
      BY <1>1, <1>3, <3>1 DEF Kept
    <3>3. d \in Lost' <=> d \in Lost
      BY <1>1, <1>2 DEF Lost, Failures
    <3>4. QED
      BY <3>2, <3>3
  <2>2. CASE c \notin inside[d]
    <3>1. \A e \in inside[d] : result'[e] = result[e]
      BY <1>1, <2>2
    <3>2. QED
      BY <1>1, <3>1 DEF Kept, Lost
  <2>3. QED
    BY <2>1, <2>2
<1>5. QED
  BY <1>4

\* The success of a queued call keeps the rows of the calls inside it that have
\* not failed: all of those calls have ended.
LEMMA FateOfSuccess ==
  ASSUME BaseInv, NestingInv, NEW c \in Calls, phase[c] = "open", Runs(c),
         result' = [result EXCEPT ![c] = "ok"], UNCHANGED <<wrote, inside>>
  PROVE  wrote' \cap Kept' = (wrote \cap Kept) \cup {d \in wrote \ Lost : c \in inside[d]}
<1>0. /\ BaseInv /\ NestingInv /\ FieldTypes
      /\ AnswersDecided /\ WritersStarted /\ CurrentIsStarted /\ AroundIsOpen
      /\ inside[c] = {c}
  BY DEF BaseInv, ManagerInv, NestingInv, TopLevelIsAlone
<1>1. /\ wrote \subseteq Calls /\ \A d \in Calls : inside[d] \subseteq Calls
      /\ \A d \in Calls : result'[d] = IF d = c THEN "ok" ELSE result[d]
  BY <1>0 DEF FieldTypes
<1>2. result[c] = "none"
  BY <1>0, CallbackFacts DEF InCallback
<1>3. ASSUME NEW d \in wrote, c \in inside[d], NEW e \in inside[d], e # c
      PROVE  result[e] \in {"ok", "error", "busy"}
  <2>1. e \in Calls /\ phase[e] \notin Unstarted
    <3>1. CASE e = d
      BY <1>0, <1>1, <3>1 DEF WritersStarted
    <3>2. CASE e # d
      BY <1>0, <1>1, <3>2 DEF AroundIsOpen
    <3>3. QED
      BY <3>1, <3>2
  <2>2. ~InCallback(e)
    BY <1>0, <1>3, <2>1, Innermost
  <2>3. phase[e] # "unwound"
    BY <1>0, <1>3, <2>1 DEF CurrentIsStarted
  <2>4. phase[e] = "done"
    BY <1>0, <2>1, <2>2, <2>3 DEF InCallback, FieldTypes, Phases, Unstarted
  <2>5. QED
    BY <1>0, <2>1, <2>4 DEF AnswersDecided, FieldTypes
<1>4. ASSUME NEW d \in wrote
      PROVE  d \in Kept' <=> d \in Kept \/ (d \notin Lost /\ c \in inside[d])
  <2>1. CASE c \in inside[d]
    <3>1. d \notin Kept
      BY <1>2, <2>1 DEF Kept
    <3>2. d \in Kept' <=> \A e \in inside[d] \ {c} : result[e] = "ok"
      BY <1>1, <2>1 DEF Kept
    <3>3. d \notin Lost <=> \A e \in inside[d] \ {c} : result[e] \notin {"error", "busy"}
      BY <1>1, <1>2, <2>1 DEF Lost, Failures
    <3>4. QED
      BY <1>3, <2>1, <3>1, <3>2, <3>3
  <2>2. CASE c \notin inside[d]
    <3>1. \A e \in inside[d] : result'[e] = result[e]
      BY <1>1, <2>2
    <3>2. QED
      BY <1>1, <2>2, <3>1 DEF Kept
  <2>3. QED
    BY <2>1, <2>2
<1>5. QED
  BY <1>4

\* COMMIT, COMMIT refused, ROLLBACK: no callback is left in progress.
LEMMA QueuedEndNests ==
  ASSUME NEW X, NEW G, "after" \in G, NestedInv(X, G), NEW c \in Calls, Commits(c) \/ CommitFails(c) \/ RollsBack(c)
  PROVE  /\ NestingInv' /\ RowsInv(X, G)'
         /\ Commits(c) => conn'.durable = conn.durable \cup Uncommitted(conn)
         /\ ~Commits(c) => conn'.durable = conn.durable
<1>0. /\ BaseInv /\ NestingInv /\ RowsInv(X, G) /\ FieldTypes
      /\ phase[c] = "open" /\ Runs(c) /\ Finally(c)
      /\ conn \in Connections(Calls) /\ Ordered(conn)
  BY DEF NestedInv, BaseInv, ManagerInv, Commits, CommitFails, RollsBack,
         ConnectionFollows, Sound
<1>1. /\ phase' = [phase EXCEPT ![c] = "unwound"]
      /\ UNCHANGED <<current, parent, savepoint, inside, wrote>>
  BY <1>0 DEF Finally, queueVars
<1>2. /\ (InsideSelf /\ InsideTransitive /\ AroundIsOpen /\ TopLevelIsAlone /\ OneChain)'
      /\ \A a \in Calls : ~InCallback(a)'
  <2>1. inside[c] = {c}
    BY <1>0 DEF NestingInv, TopLevelIsAlone
  <2>2. QED
    BY <1>0, <1>1, <2>1, EndNests
<1>3. FramesOfCallbacks' /\ OpenOwnsRows' /\ RowsOfCallbacks'
  BY <1>2 DEF FramesOfCallbacks, OpenOwnsRows, RowsOfCallbacks, InCallback
<1>4. /\ InTransaction(conn) /\ result[c] = "none"
      /\ failed \cap G = {} => failed \cap {"commit", "after"} = {}
  <2>1. SomeOpen /\ InTransaction(conn) /\ result[c] = "none"
    BY <1>0, CallbackFacts DEF InCallback
  <2>2. QED
    BY <2>1 DEF NestedInv, RefusedEnds
<1>5. CASE Commits(c)
  <2>1. \/ result' = [result EXCEPT ![c] = "ok"] /\ failed' = failed
        \/ failed' = failed \cup {"after"}
    BY <1>5 DEF Commits
  <2>2. conn'.durable = conn.durable \cup Uncommitted(conn)
    <3>1. conn' = [durable |-> conn.durable \cup Uncommitted(conn), stack |-> <<>>]
      BY <1>0, <1>5, CommitHolds DEF Commits
    <3>2. QED
      BY <3>1
  <2>3. ASSUME failed' \cap G = {} PROVE conn'.durable \ X = (wrote' \cap Kept') \ X
    <3>1. failed' = failed
      BY <2>1, <2>3
    <3>2. result' = [result EXCEPT ![c] = "ok"]
      BY <2>1, <2>3
    <3>3. wrote' \cap Kept' = (wrote \cap Kept) \cup {d \in wrote \ Lost : c \in inside[d]}
      BY <1>0, <1>1, <3>2, FateOfSuccess
    <3>4. conn.durable \ X = (wrote \cap Kept) \ X
      BY <1>0, <2>3, <3>1 DEF RowsInv, DurableIsKept
    <3>5. Uncommitted(conn) = {d \in wrote \ Lost : c \in inside[d]}
      <4>1. /\ 1 \in DOMAIN conn.stack /\ Uncommitted(conn) = RowsFrom(conn, 1)
            /\ conn.stack[1].name = TxFrame
        BY <1>0, <1>4, StackFacts DEF Ordered, InTransaction
      <4>2. savepoint[c] = TxFrame
        BY <1>0 DEF BaseInv, ManagerInv, SavepointsNamed
      <4>3. QED
        BY <1>0, <1>4, <2>3, <3>1, <4>1, <4>2 DEF RowsInv, RowsOfCallbacks, InCallback
    <3>6. QED
      BY <2>2, <3>3, <3>4, <3>5
  <2>4. DurableIsKept(X, G)'
    BY <2>3 DEF DurableIsKept
  <2>5. QED
    BY <1>2, <1>3, <1>5, <2>2, <2>4 DEF NestingInv, RowsInv
<1>6. CASE ~Commits(c)
  <2>0. PICK e \in {"error", "busy"} : result' = [result EXCEPT ![c] = e]
    BY <1>6, CommitErrorsAreFailures DEF CommitFails, RollsBack, Failures
  <2>1. /\ conn'.durable = conn.durable
        /\ failed \subseteq failed'
    <3>1. CASE CommitFails(c)
      BY <3>1 DEF CommitFails
    <3>2. CASE RollsBack(c)
      BY <1>0, <3>2, RollbackHolds DEF RollsBack
    <3>3. QED
      BY <1>6, <3>1, <3>2
  <2>2. wrote' \cap Kept' = wrote \cap Kept
    BY <1>0, <1>1, <1>4, <2>0, FateOfError
  <2>3. DurableIsKept(X, G)'
    BY <1>0, <2>1, <2>2 DEF RowsInv, DurableIsKept
  <2>4. QED
    BY <1>2, <1>3, <1>6, <2>1, <2>3 DEF NestingInv, RowsInv
<1>7. QED
  BY <1>5, <1>6

\* Where the frame of a nested callback is: above the bottom of the stack, and
\* the frames of the callbacks around it below.
LEMMA FrameOfNested ==
  ASSUME BaseInv, NestingInv, NEW c \in Calls, phase[c] = "nested"
  PROVE  \E n \in 2..Len(conn.stack) :
           /\ conn.stack[n].name = savepoint[c]
           /\ \A i \in DOMAIN conn.stack : conn.stack[i].name < savepoint[c] => i \in 1..(n - 1)
<1>0. /\ BaseInv /\ FramesOfCallbacks /\ InCallback(c)
      /\ conn \in Connections(Calls) /\ Ordered(conn)
      /\ savepoint[c] # TxFrame /\ savepoint[c] \in Nat
  BY DEF BaseInv, ManagerInv, NestingInv, InCallback, ConnectionFollows, Sound,
         SavepointsNamed, FieldTypes
<1>1. PICK n \in DOMAIN conn.stack : conn.stack[n].name = savepoint[c]
  BY <1>0 DEF FramesOfCallbacks, HasSavepoint
<1>2. /\ Len(conn.stack) \in Nat /\ DOMAIN conn.stack = 1..Len(conn.stack)
      /\ conn.stack # <<>>
      /\ \A i \in 1..Len(conn.stack) : conn.stack[i].name \in Nat
  BY <1>0, <1>1, StackFacts DEF InTransaction
<1>3. n \in 2..Len(conn.stack)
  <2>1. n # 1
    BY <1>0, <1>1, <1>2 DEF Ordered
  <2>2. QED
    BY <1>1, <1>2, <2>1
<1>4. ASSUME NEW i \in DOMAIN conn.stack, conn.stack[i].name < savepoint[c]
      PROVE  i \in 1..(n - 1)
  <2>1. ~(n < i) /\ n # i
    <3>1. CASE n < i
      <4>1. conn.stack[n].name < conn.stack[i].name
        BY <1>0, <1>1, <3>1 DEF Ordered
      <4>2. QED
        BY <1>0, <1>1, <1>2, <1>4, <4>1
    <3>2. CASE n = i
      BY <1>0, <1>1, <1>4, <3>2
    <3>3. QED
      BY <3>1, <3>2
  <2>2. QED
    BY <1>2, <1>3, <2>1
<1>5. QED
  BY <1>1, <1>3, <1>4

\* RELEASE: the rows go to the frame of a callback around it.
LEMMA NestedReleasesNests ==
  ASSUME NEW X, NEW G, "after" \in G, NestedInv(X, G), NEW c \in Calls, NestedReleases(c)
  PROVE  NestingInv' /\ RowsInv(X, G)' /\ conn'.durable = conn.durable
<1>0. /\ BaseInv /\ NestingInv /\ RowsInv(X, G) /\ FieldTypes
      /\ phase[c] = "nested" /\ Runs(c) /\ InCallback(c)
      /\ conn \in Connections(Calls) /\ Ordered(conn) /\ Apart(conn)
      /\ HasSavepoint(conn, savepoint[c])
  BY DEF NestedInv, BaseInv, ManagerInv, NestedReleases, ConnectionFollows, Sound,
         NestingInv, FramesOfCallbacks, InCallback
<1>1. /\ phase' = [phase EXCEPT ![c] = "done"]
      /\ result' = [result EXCEPT ![c] = "ok"]
      /\ conn' = Release(conn, savepoint[c])
      /\ UNCHANGED <<current, parent, savepoint, inside, wrote, failed>>
  BY <1>0 DEF NestedReleases, NestedEnds, queueVars
<1>2. /\ (InsideSelf /\ InsideTransitive /\ AroundIsOpen /\ TopLevelIsAlone /\ OneChain)'
      /\ \A a \in Calls : InCallback(a)' <=> InCallback(a) /\ a # c
      /\ \A a \in Calls : InCallback(a)' => a \in inside[c] \ {c} /\ savepoint[a] < savepoint[c]
  BY <1>0, <1>1, EndNests
<1>3. PICK n \in 2..Len(conn.stack) :
         /\ conn.stack[n].name = savepoint[c]
         /\ \A i \in DOMAIN conn.stack : conn.stack[i].name < savepoint[c] => i \in 1..(n - 1)
  BY <1>0, FrameOfNested
<1>4. /\ conn'.durable = conn.durable /\ Uncommitted(conn') = Uncommitted(conn)
      /\ DOMAIN conn'.stack = 1..(n - 1)
      /\ 1..(n - 1) \subseteq DOMAIN conn.stack
      /\ \A i \in 1..(n - 1) : conn'.stack[i].name = conn.stack[i].name
                               /\ RowsFrom(conn', i) = RowsFrom(conn, i)
  <2> DEFINE rl == Release(conn, conn.stack[n].name)
  <2>1. /\ rl \in Connections(Calls) /\ rl.durable = conn.durable /\ Len(rl.stack) = n - 1
        /\ \A i \in 1..(n - 1) : rl.stack[i].name = conn.stack[i].name
                                 /\ RowsFrom(rl, i) = RowsFrom(conn, i)
        /\ Uncommitted(rl) = Uncommitted(conn)
    <3>1. rl \in Connections(Calls) /\ MergesFrames(conn, rl, n)
      BY <1>0, <1>3, ReleaseHolds
    <3> HIDE DEF rl
    <3>2. QED
      BY <3>1 DEF MergesFrames
  <2>2. conn' = rl
    BY <1>1, <1>3
  <2> HIDE DEF rl
  <2>3. DOMAIN rl.stack = 1..(n - 1) /\ 1..(n - 1) \subseteq DOMAIN conn.stack
    BY <1>0, <1>3, <2>1, StackFacts
  <2>4. QED
    BY <2>1, <2>2, <2>3
<1>5. wrote' \cap Kept' = wrote \cap Kept /\ wrote' \ Lost' = wrote \ Lost
  BY <1>0, <1>1, FateOfNestedSuccess
<1>6. FramesOfCallbacks'
  <2> SUFFICES ASSUME NEW a \in Calls, InCallback(a)'
               PROVE  HasSavepoint(conn', savepoint[a])
    BY <1>1 DEF FramesOfCallbacks
  <2>1. PICK i \in DOMAIN conn.stack : conn.stack[i].name = savepoint[a]
    BY <1>0, <1>2 DEF NestingInv, FramesOfCallbacks, HasSavepoint
  <2>2. i \in 1..(n - 1)
    BY <1>2, <1>3, <2>1
  <2>3. QED
    BY <1>4, <2>1, <2>2 DEF HasSavepoint
<1>7. OpenOwnsRows'
  <2>1. \A a \in Calls : phase'[a] = "open" => phase[a] = "open"
    BY <1>0, <1>1 DEF FieldTypes
  <2>2. QED
    BY <1>0, <1>1, <1>4, <2>1 DEF RowsInv, OpenOwnsRows
<1>8. DurableIsKept(X, G)'
  BY <1>0, <1>1, <1>4, <1>5 DEF RowsInv, DurableIsKept
<1>9. RowsOfCallbacks'
  <2> SUFFICES ASSUME failed \cap {"commit", "after"} = {},
                      NEW a \in Calls, InCallback(a)', NEW i \in 1..(n - 1),
                      conn'.stack[i].name = savepoint[a]
               PROVE  RowsFrom(conn', i) = {d \in wrote \ Lost : a \in inside[d]}
    BY <1>1, <1>4, <1>5 DEF RowsOfCallbacks
  <2>1. i \in DOMAIN conn.stack /\ conn.stack[i].name = savepoint[a] /\ InCallback(a)
    BY <1>2, <1>4
  <2>2. RowsFrom(conn, i) = {d \in wrote \ Lost : a \in inside[d]}
    BY <1>0, <2>1 DEF RowsInv, RowsOfCallbacks
  <2>3. QED
    BY <1>4, <2>2
<1>10. QED
  BY <1>2, <1>4, <1>6, <1>7, <1>8, <1>9 DEF NestingInv, RowsInv

\* ROLLBACK TO: the rows of the call and of the calls inside it go, and no others.
LEMMA NestedRollsBackNests ==
  ASSUME NEW X, NEW G, "after" \in G, NestedInv(X, G), NEW c \in Calls, NestedRollsBack(c)
  PROVE  NestingInv' /\ RowsInv(X, G)' /\ conn'.durable = conn.durable
<1>0. /\ BaseInv /\ NestingInv /\ RowsInv(X, G) /\ FieldTypes
      /\ phase[c] = "nested" /\ Runs(c) /\ InCallback(c)
      /\ conn \in Connections(Calls) /\ Ordered(conn) /\ Apart(conn)
      /\ HasSavepoint(conn, savepoint[c])
  BY DEF NestedInv, BaseInv, ManagerInv, NestedRollsBack, ConnectionFollows, Sound,
         NestingInv, FramesOfCallbacks, InCallback
<1>1. /\ phase' = [phase EXCEPT ![c] = "done"]
      /\ UNCHANGED <<current, parent, savepoint, inside, wrote>>
  BY <1>0 DEF NestedRollsBack, NestedEnds, queueVars
<1>2. /\ (InsideSelf /\ InsideTransitive /\ AroundIsOpen /\ TopLevelIsAlone /\ OneChain)'
      /\ \A a \in Calls : InCallback(a)' <=> InCallback(a) /\ a # c
      /\ \A a \in Calls : InCallback(a)' => a \in inside[c] \ {c} /\ savepoint[a] < savepoint[c]
  BY <1>0, <1>1, EndNests
<1>3. PICK n \in 2..Len(conn.stack) :
         /\ conn.stack[n].name = savepoint[c]
         /\ \A i \in DOMAIN conn.stack : conn.stack[i].name < savepoint[c] => i \in 1..(n - 1)
  BY <1>0, FrameOfNested
<1>4. \/ conn' = RollbackTo(conn, savepoint[c]) /\ failed' = failed
      \/ conn' = conn /\ failed' = failed \cup {"after"}
  BY <1>0 DEF NestedRollsBack
<1>5. /\ wrote' \cap Kept' = wrote \cap Kept
      /\ wrote' \ Lost' = {d \in wrote \ Lost : c \notin inside[d]}
  <2>1. result[c] = "none"
    BY <1>0, CallbackFacts
  <2>2. PICK e \in {"error", "busy"} : result' = [result EXCEPT ![c] = e]
    BY DEF NestedRollsBack, NestedEnds, Failures
  <2>3. QED
    BY <1>0, <1>1, <2>1, <2>2, FateOfError
<1>6. \A a \in Calls : phase'[a] = "open" => phase[a] = "open"
  BY <1>0, <1>1 DEF FieldTypes
<1>7. CASE conn' = conn /\ failed' = failed \cup {"after"}
  <2>1. conn' = conn /\ failed' = failed \cup {"after"}
    BY <1>7
  <2>2. FramesOfCallbacks'
    BY <1>0, <1>1, <1>2, <2>1 DEF NestingInv, FramesOfCallbacks
  <2>3. OpenOwnsRows'
    BY <1>0, <1>1, <1>6, <2>1 DEF RowsInv, OpenOwnsRows
  <2>4. RowsOfCallbacks' /\ DurableIsKept(X, G)'
    BY <2>1 DEF RowsOfCallbacks, DurableIsKept
  <2>5. QED
    BY <1>2, <2>1, <2>2, <2>3, <2>4 DEF NestingInv, RowsInv
<1>8. CASE conn' = RollbackTo(conn, savepoint[c]) /\ failed' = failed
  <2>1. conn' = RollbackTo(conn, savepoint[c]) /\ failed' = failed
    BY <1>8
  <2>2. /\ conn'.durable = conn.durable
        /\ Uncommitted(conn') = Uncommitted(conn) \ RowsFrom(conn, n)
        /\ DOMAIN conn'.stack = 1..n
        /\ 1..n \subseteq DOMAIN conn.stack /\ n \in DOMAIN conn.stack
        /\ 1..(n - 1) \subseteq 1..n
        /\ \A i \in 1..n : conn'.stack[i].name = conn.stack[i].name
                           /\ RowsFrom(conn', i) = RowsFrom(conn, i) \ RowsFrom(conn, n)
    <3> DEFINE rb == RollbackTo(conn, conn.stack[n].name)
    <3>1. n \in 1..Len(conn.stack)
      BY <1>0, <1>3, StackFacts
    <3>2. /\ rb \in Connections(Calls) /\ rb.durable = conn.durable /\ Len(rb.stack) = n
          /\ \A i \in 1..n : rb.stack[i].name = conn.stack[i].name
                             /\ RowsFrom(rb, i) = RowsFrom(conn, i) \ RowsFrom(conn, n)
          /\ Uncommitted(rb) = Uncommitted(conn) \ RowsFrom(conn, n)
      <4>1. rb \in Connections(Calls) /\ UndoesFrames(conn, rb, n)
        BY <1>0, <3>1, RollbackToHolds
      <4> HIDE DEF rb
      <4>2. QED
        BY <4>1 DEF UndoesFrames
    <3>3. conn' = rb
      BY <1>3, <2>1
    <3> HIDE DEF rb
    <3>4. /\ DOMAIN rb.stack = 1..n /\ 1..n \subseteq DOMAIN conn.stack
          /\ n \in DOMAIN conn.stack /\ 1..(n - 1) \subseteq 1..n
      BY <1>0, <1>3, <3>1, <3>2, StackFacts
    <3>5. QED
      BY <3>2, <3>3, <3>4
  <2>3. FramesOfCallbacks'
    <3> SUFFICES ASSUME NEW a \in Calls, InCallback(a)'
                 PROVE  HasSavepoint(conn', savepoint[a])
      BY <1>1 DEF FramesOfCallbacks
    <3>1. PICK i \in DOMAIN conn.stack : conn.stack[i].name = savepoint[a]
      BY <1>0, <1>2 DEF NestingInv, FramesOfCallbacks, HasSavepoint
    <3>2. i \in 1..n
      BY <1>2, <1>3, <2>2, <3>1
    <3>3. QED
      BY <2>2, <3>1, <3>2 DEF HasSavepoint
  <2>4. OpenOwnsRows'
    BY <1>0, <1>1, <1>6, <2>2 DEF RowsInv, OpenOwnsRows
  <2>5. DurableIsKept(X, G)'
    BY <1>0, <1>5, <2>1, <2>2 DEF RowsInv, DurableIsKept
  <2>6. RowsOfCallbacks'
    <3> SUFFICES ASSUME failed \cap {"commit", "after"} = {},
                        NEW a \in Calls, InCallback(a)', NEW i \in 1..n,
                        conn'.stack[i].name = savepoint[a]
                 PROVE  RowsFrom(conn', i)
                          = {d \in wrote \ Lost : c \notin inside[d] /\ a \in inside[d]}
      BY <1>1, <1>5, <2>1, <2>2 DEF RowsOfCallbacks
    <3>1. i \in DOMAIN conn.stack /\ conn.stack[i].name = savepoint[a] /\ InCallback(a)
      BY <1>2, <2>2
    <3>2. RowsFrom(conn, i) = {d \in wrote \ Lost : a \in inside[d]}
      BY <1>0, <3>1 DEF RowsInv, RowsOfCallbacks
    <3>3. RowsFrom(conn, n) = {d \in wrote \ Lost : c \in inside[d]}
      BY <1>0, <1>3, <2>2 DEF RowsInv, RowsOfCallbacks
    <3>4. QED
      BY <2>2, <3>2, <3>3
  <2>7. QED
    BY <1>2, <2>2, <2>3, <2>4, <2>5, <2>6 DEF NestingInv, RowsInv
<1>9. QED
  BY <1>4, <1>7, <1>8

\* The end of any callback.
LEMMA CallbackEndNests ==
  ASSUME NEW X, NEW G, "after" \in G, NestedInv(X, G), NEW c \in Calls, CallbackEnds(c)
  PROVE  /\ NestingInv' /\ RowsInv(X, G)'
         /\ Commits(c) => conn'.durable = conn.durable \cup Uncommitted(conn)
         /\ ~Commits(c) => conn'.durable = conn.durable
<1>1. CASE Commits(c) \/ CommitFails(c) \/ RollsBack(c)
  BY <1>1, QueuedEndNests
<1>2. CASE NestedReleases(c)
  <2>1. ~Commits(c)
    BY <1>2 DEF NestedReleases, Commits
  <2>2. QED
    BY <1>2, <2>1, NestedReleasesNests
<1>3. CASE NestedRollsBack(c)
  <2>1. ~Commits(c)
    BY <1>3 DEF NestedRollsBack, Commits
  <2>2. QED
    BY <1>3, <2>1, NestedRollsBackNests
<1>4. QED
  BY <1>1, <1>2, <1>3 DEF CallbackEnds

LEMMA NestingUnchanged ==
  ASSUME NEW X, NEW G, "after" \in G, NestedInv(X, G), UNCHANGED vars
  PROVE  NestingInv' /\ RowsInv(X, G)'
<1> USE DEF NestedInv, vars, queueVars
<1>1. (InsideSelf /\ InsideTransitive /\ AroundIsOpen /\ TopLevelIsAlone)'
  BY DEF NestingInv, InsideSelf, InsideTransitive, AroundIsOpen, TopLevelIsAlone, InCallback
<1>2. (OneChain /\ FramesOfCallbacks)'
  BY DEF NestingInv, OneChain, FramesOfCallbacks, InCallback
<1>3. Kept' = Kept /\ Lost' = Lost
  BY DEF Kept, Lost
<1>4. RowsInv(X, G)'
  BY <1>3 DEF RowsInv, OpenOwnsRows, RowsOfCallbacks, DurableIsKept, InCallback
<1>5. QED
  BY <1>1, <1>2, <1>4 DEF NestingInv

\* The invariant of a manager that is alone: only an afterTransaction hook that
\* throws can part the durable rows from those of the calls that succeeded.
AloneInv == NestedInv({}, {"after"}) /\ ManagerAlone

LEMMA NestedStep ==
  ASSUME ~Outsiders, AloneInv, [Next]_vars
  PROVE  AloneInv'
<1> DEFINE X == {}
           G == {"after"}
<1>1. "after" \in G /\ NestedInv(X, G) /\ ManagerAlone /\ BaseInv
  BY DEF AloneInv, NestedInv
<1>2. BaseInv' /\ ManagerAlone'
  BY <1>1, BaseStep, AloneStep
<1>3. RefusedEnds(G)'
  BY <1>2 DEF RefusedEnds, ManagerAlone
<1> HIDE DEF X, G
<1>4. NestingInv' /\ RowsInv(X, G)'
  <2>1. CASE \E c \in Calls, p \in Calls \cup {NoOp} : Call(c, p)
    BY <1>1, <2>1, NestedCallNests, QueuedCallNests DEF Call
  <2>2. CASE EnterProcess
    BY <1>1, <2>2, EnterProcessNests
  <2>3. CASE Settle
    BY <1>1, <2>3, SettleNests
  <2>4. CASE \E c \in Calls : Write(c)
    BY <1>1, <2>4, WriteNests
  <2>5. CASE \E c \in Calls : CallbackEnds(c)
    BY <1>1, <2>5, CallbackEndNests
  <2>6. CASE UNCHANGED vars
    BY <1>1, <2>6, NestingUnchanged
  <2>7. QED
    BY <2>1, <2>2, <2>3, <2>4, <2>5, <2>6 DEF Next
<1>5. QED
  BY <1>2, <1>3, <1>4 DEF AloneInv, NestedInv, X, G

LEMMA NestedAlways ==
  ASSUME ~Outsiders
  PROVE  Spec => []AloneInv
<1>1. Init => AloneInv
  <2> SUFFICES ASSUME Init PROVE AloneInv
    OBVIOUS
  <2>1. BaseInv /\ NestingInv /\ RowsInv({}, {"after"})
    BY InitHolds, NestingInit
  <2>2. ManagerAlone /\ RefusedEnds({"after"})
    BY DEF Init, ManagerAlone, RefusedEnds
  <2>3. QED
    BY <2>1, <2>2 DEF AloneInv, NestedInv
<1>2. AloneInv /\ [Next]_vars => AloneInv'
  BY NestedStep
<1>3. QED
  BY <1>1, <1>2, PTL DEF Spec, Safety

-----------------------------------------------------------------------------
(* What a transaction promises *)

\* A row whose fate is not decided is of a call inside the queued call whose
\* callback is in progress.
LEMMA UndecidedIsOpen ==
  ASSUME BaseInv, NestingInv, NEW d \in wrote, d \notin Kept, d \notin Lost
  PROVE  SomeOpen /\ current \in inside[d]
<1>0. /\ FieldTypes /\ WritersStarted /\ AnswersDecided
      /\ d \in Calls /\ \A e \in Calls : inside[e] \subseteq Calls
  BY DEF BaseInv, ManagerInv, FieldTypes
<1>1. PICK e \in inside[d] : e \in Calls /\ result[e] \notin {"ok", "error", "busy"}
  <2>1. \A e \in inside[d] : result[e] \notin {"error", "busy"}
    BY <1>0 DEF Lost, Failures
  <2>2. PICK e \in inside[d] : result[e] # "ok"
    BY <1>0 DEF Kept
  <2>3. QED
    BY <1>0, <2>1, <2>2
<1>2. phase[e] \notin Unstarted
  <2>1. CASE e = d
    BY <2>1 DEF BaseInv, ManagerInv, WritersStarted
  <2>2. CASE e # d
    BY <1>0, <1>1, <2>2 DEF NestingInv, AroundIsOpen
  <2>3. QED
    BY <2>1, <2>2
<1>3. result[e] = "none"
  BY <1>0, <1>1, <1>2 DEF FieldTypes
<1>4. InCallback(e)
  BY <1>0, <1>1, <1>2, <1>3 DEF InCallback, FieldTypes, Phases, Unstarted, AnswersDecided
<1>5. SomeOpen /\ current \in inside[e]
  BY <1>1, <1>4, CallbackFacts
<1>6. QED
  BY <1>0, <1>1, <1>5 DEF NestingInv, InsideTransitive

\* Unless COMMIT or a hook has failed, the open transaction holds the rows whose
\* fate is not decided.
LEMMA UncommittedIsUndecided ==
  ASSUME NEW X, NEW G, NestedInv(X, G), failed = {}
  PROVE  Uncommitted(conn) = wrote \ (Kept \cup Lost)
<1>0. /\ BaseInv /\ NestingInv /\ RowsInv(X, G)
      /\ ConnectionFollows /\ CurrentIsStarted
      /\ conn \in Connections(Calls) /\ Ordered(conn)
  BY DEF NestedInv, BaseInv, ManagerInv, ConnectionFollows, Sound
<1>1. CASE SomeOpen
  <2>1. current \in Calls /\ phase[current] = "open" /\ InCallback(current)
    BY <1>0, <1>1 DEF SomeOpen, CurrentIsStarted, InCallback
  <2>2. InTransaction(conn) /\ result[current] = "none"
    BY <1>0, <2>1, CallbackFacts
  <2>3. /\ 1 \in DOMAIN conn.stack /\ Uncommitted(conn) = RowsFrom(conn, 1)
        /\ conn.stack[1].name = TxFrame
    BY <1>0, <2>2, StackFacts DEF Ordered, InTransaction
  <2>4. savepoint[current] = TxFrame
    BY <1>0, <2>1 DEF BaseInv, ManagerInv, SavepointsNamed
  <2>5. Uncommitted(conn) = {d \in wrote \ Lost : current \in inside[d]}
    BY <1>0, <2>1, <2>3, <2>4 DEF RowsInv, RowsOfCallbacks
  <2>6. \A d \in wrote : current \in inside[d] => d \notin Kept
    BY <2>2 DEF Kept
  <2>7. \A d \in wrote : d \notin Kept /\ d \notin Lost => current \in inside[d]
    BY <1>0, UndecidedIsOpen
  <2>8. QED
    BY <2>5, <2>6, <2>7
<1>2. CASE ~SomeOpen
  <2>1. conn.stack = <<>>
    BY <1>0, <1>2 DEF ConnectionFollows, InTransaction
  <2>2. DOMAIN conn.stack = {}
    BY <2>1
  <2>3. Uncommitted(conn) = {}
    BY <2>2 DEF Uncommitted
  <2>4. \A d \in wrote : d \in Kept \/ d \in Lost
    BY <1>0, <1>2, UndecidedIsOpen
  <2>5. QED
    BY <2>3, <2>4
<1>3. QED
  BY <1>1, <1>2

\* When calls of transaction() come only from inside a callback while one is in
\* progress, nested to any depth, what is committed is what the callbacks wrote
\* that succeeded together with every callback around them, and the open
\* transaction holds what is undecided and nothing else: SAVEPOINT, RELEASE and
\* ROLLBACK TO undo the rows of the calls that failed and no others
\* (#nestedTransaction and transaction in transaction-manager.ts).
THEOREM NestedAllOrNothing ==
  ASSUME ~Outsiders
  PROVE  Spec => []AllOrNothing
<1>1. AloneInv => AllOrNothing
  <2> SUFFICES ASSUME AloneInv PROVE AllOrNothing
    OBVIOUS
  <2>1. NestedInv({}, {"after"})
    BY DEF AloneInv
  <2>2. DurableIsKept({}, {"after"})
    BY <2>1 DEF NestedInv, RowsInv
  <2>3. "after" \notin failed => conn.durable = wrote \cap Kept
    BY <2>2 DEF DurableIsKept
  <2>4. failed = {} => Uncommitted(conn) = wrote \ (Kept \cup Lost)
    BY <2>1, UncommittedIsUndecided
  <2>5. QED
    BY <2>3, <2>4 DEF AllOrNothing
<1>2. QED
  BY <1>1, NestedAlways, PTL

\* Under the same condition, a step that makes rows durable is the end of one
\* queued call, and every row it makes durable is of that call or of one nested in
\* it, to whatever depth; no step takes a durable row away.
THEOREM OneTransactionAtATime ==
  ASSUME ~Outsiders
  PROVE  Spec => CommitsOneTransaction
<1> DEFINE A ==
      /\ conn.durable \subseteq conn'.durable
      /\ conn'.durable # conn.durable =>
           \E c \in Calls :
             /\ phase[c] = "open" /\ phase'[c] = "unwound"
             /\ result'[c] = "ok" \/ "after" \in failed'
             /\ \A d \in conn'.durable \ conn.durable : c \in inside[d]
<1>1. AloneInv /\ [Next]_vars => [A]_vars
  <2> SUFFICES ASSUME AloneInv, Next PROVE A
    BY DEF A
  <2>0. /\ "after" \in {"after"} /\ NestedInv({}, {"after"})
        /\ BaseInv /\ NestingInv /\ RowsInv({}, {"after"}) /\ FieldTypes
        /\ conn \in Connections(Calls) /\ Ordered(conn) /\ Apart(conn)
        /\ Uncommitted(conn) \subseteq Calls
    BY StackFacts DEF AloneInv, NestedInv, BaseInv, ManagerInv, ConnectionFollows, Sound
  <2>1. ASSUME conn'.durable = conn.durable PROVE A
    BY <2>1
  <2> HIDE DEF A
  <2>2. CASE \E c \in Calls, p \in Calls \cup {NoOp} : Call(c, p)
    <3>1. PICK c \in Calls, p \in Calls \cup {NoOp} : Call(c, p)
      BY <2>2
    <3>2. CASE NestedCall(c, p)
      <4>1. conn' = Savepoint(conn, spCounter + 1)
        BY <3>2 DEF NestedCall
      <4>2. conn'.durable = conn.durable
        BY <2>0, <4>1, OtherStack DEF Savepoint
      <4>3. QED
        BY <2>1, <4>2
    <3>3. CASE QueuedCall(c, p)
      BY <2>1, <3>3 DEF QueuedCall
    <3>4. QED
      BY <3>1, <3>2, <3>3 DEF Call
  <2>3. CASE EnterProcess \/ Settle
    <3>1. conn' = conn \/ conn' = Begin(conn)
      BY <2>3 DEF EnterProcess, Settle, StartNext, StartItem, TransactionBegins,
                  TransactionFailsToBegin
    <3>2. conn'.durable = conn.durable
      BY <2>0, <3>1, BeginHolds
    <3>3. QED
      BY <2>1, <3>2
  <2>4. CASE \E c \in Calls : Write(c)
    BY <2>0, <2>1, <2>4, WriteNests
  <2>5. CASE \E c \in Calls : CallbackEnds(c) /\ ~Commits(c)
    BY <2>0, <2>1, <2>5, CallbackEndNests
  <2>6. CASE \E c \in Calls : Commits(c)
    <3>1. PICK c \in Calls : Commits(c)
      BY <2>6
    <3>2. conn'.durable = conn.durable \cup Uncommitted(conn)
      BY <2>0, <3>1, QueuedEndNests
    <3>3. phase[c] = "open" /\ phase'[c] = "unwound"
      BY <2>0, <3>1 DEF Commits, Finally, FieldTypes
    <3>4. result'[c] = "ok" \/ "after" \in failed'
      BY <2>0, <3>1 DEF Commits, FieldTypes
    <3>5. \A d \in Uncommitted(conn) : c \in inside[d]
      BY <2>0, <3>3 DEF RowsInv, OpenOwnsRows
    <3>6. QED
      BY <3>2, <3>3, <3>4, <3>5 DEF A
  <2>7. QED
    BY <2>2, <2>3, <2>4, <2>5, <2>6 DEF Next
<1>2. QED
  BY <1>1, NestedAlways, PTL DEF Spec, Safety, CommitsOneTransaction
=============================================================================
