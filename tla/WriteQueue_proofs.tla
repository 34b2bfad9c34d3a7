-------------------------- MODULE WriteQueue_proofs --------------------------
(***************************************************************************)
(* Proofs about the write queue for every set of operations and drainers.   *)
(* The inductive invariant IInv is the conjunction of the properties that    *)
(* the runs check and of OwedIsPending, which says why a drain waiter may be *)
(* released when #process finds nothing left.                                *)
(***************************************************************************)
EXTENDS WriteQueue, SequenceLemmas, TLAPS

-----------------------------------------------------------------------------
(* The inductive invariant *)

\* What a drain call is owed are operations that are still unsettled.
OwedIsPending == \A d \in Drainers : owed[d] \subseteq Pending

IInv ==
  /\ TypeOK
  /\ OneProcessLoop
  /\ HeldExactlyOnce
  /\ OwedIsPending
  /\ DrainMeansSettled

LEMMA InitEstablishes == Init => IInv
<1> SUFFICES ASSUME Init PROVE IInv
  OBVIOUS
<1>1. TypeOK
  BY EmptyHolds DEF Init, TypeOK, Outcomes
<1>2. OneProcessLoop
  BY DEF Init, OneProcessLoop
<1>3. HeldExactlyOnce
  BY NoOpAssumption, EmptyHolds DEF Init, HeldExactlyOnce, Pending, Range
<1>4. OwedIsPending /\ DrainMeansSettled
  BY DEF Init, OwedIsPending, DrainMeansSettled
<1>5. QED
  BY <1>1, <1>2, <1>3, <1>4 DEF IInv

\* A call of enqueue, accepted or refused.
LEMMA EnqueuePreserves ==
  ASSUME IInv, NEW o \in Ops, Enqueue(o)
  PROVE  IInv'
<1> USE DEF IInv
<1>1. CASE EnqueueAccepted(o)
  <2> USE <1>1 DEF EnqueueAccepted
  <2>1. o \notin Range(items) /\ o # current
    BY DEF HeldExactlyOnce, Pending
  <2>2. /\ items' \in Seq(Ops)
        /\ items' # <<>>
        /\ Range(items') = Range(items) \cup {o}
        /\ NoRepeat(items')
    BY <2>1, AppendHolds DEF TypeOK, HeldExactlyOnce, NoRepeat
  <2>3. TypeOK'
    BY <2>2 DEF TypeOK, Outcomes
  <2>4. Pending' = Pending \cup {o}
    BY DEF Pending, TypeOK
  <2>5. OneProcessLoop'
    BY DEF OneProcessLoop, TypeOK
  <2>6. HeldExactlyOnce'
    BY <2>1, <2>2, <2>4 DEF HeldExactlyOnce, NoRepeat
  <2>7. OwedIsPending' /\ DrainMeansSettled'
    BY <2>4 DEF OwedIsPending, DrainMeansSettled
  <2>8. QED
    BY <2>3, <2>5, <2>6, <2>7
<1>2. CASE EnqueueRefused(o)
  <2> USE <1>2 DEF EnqueueRefused
  <2>1. TypeOK'
    BY DEF TypeOK, Outcomes
  <2>2. Pending' = Pending
    BY DEF Pending, TypeOK
  <2>3. OneProcessLoop'
    BY DEF OneProcessLoop
  <2>4. HeldExactlyOnce'
    BY <2>2 DEF HeldExactlyOnce
  <2>5. OwedIsPending' /\ DrainMeansSettled'
    BY <2>2 DEF OwedIsPending, DrainMeansSettled
  <2>6. QED
    BY <2>1, <2>3, <2>4, <2>5
<1>3. QED
  BY <1>1, <1>2 DEF Enqueue

\* The microtask enters #process and reaches the loop head.
LEMMA EnterProcessPreserves ==
  ASSUME IInv, EnterProcess
  PROVE  IInv'
<1> USE DEF IInv, EnterProcess
<1>1. current = NoOp
  BY DEF OneProcessLoop
<1>2. Pending' = Pending
  BY DEF Pending
<1>3. Pending = Range(items)
  BY <1>1, NoOpAssumption, ElementOfSeq DEF HeldExactlyOnce, Pending, Range, TypeOK
<1>4. CASE TakeNextItem
  <2> USE <1>4 DEF TakeNextItem
  <2>1. /\ items' \in Seq(Ops)
        /\ current' \in Ops
        /\ Range(items) = Range(items') \cup {current'}
        /\ NoRepeat(items')
        /\ current' \notin Range(items')
    BY TailHolds DEF TypeOK, HeldExactlyOnce, NoRepeat
  <2>2. TypeOK'
    BY <2>1 DEF TypeOK
  <2>3. OneProcessLoop'
    BY <2>1, NoOpAssumption DEF OneProcessLoop
  <2>4. HeldExactlyOnce'
    BY <2>1, <1>2, <1>3 DEF HeldExactlyOnce, NoRepeat
  <2>5. OwedIsPending' /\ DrainMeansSettled'
    BY <1>2 DEF OwedIsPending, DrainMeansSettled
  <2>6. QED
    BY <2>2, <2>3, <2>4, <2>5
<1>5. CASE FinishProcessing
  <2> USE <1>5 DEF FinishProcessing
  <2>1. Pending = {}
    BY <1>3, EmptyHolds
  <2>2. TypeOK'
    BY DEF TypeOK
  <2>3. OneProcessLoop'
    BY DEF OneProcessLoop, TypeOK
  <2>4. HeldExactlyOnce'
    BY <1>2, <2>1, NoOpAssumption, EmptyHolds DEF HeldExactlyOnce, NoRepeat, Pending
  <2>5. OwedIsPending' /\ DrainMeansSettled'
    BY <1>2, <2>1 DEF OwedIsPending, DrainMeansSettled
  <2>6. QED
    BY <2>2, <2>3, <2>4, <2>5
<1>6. QED
  BY <1>4, <1>5 DEF LoopHead

\* The item in execution settles and #process reaches the loop head again.
LEMMA SettlePreserves ==
  ASSUME IInv, NEW verdict \in {"resolved", "rejected"}, Settle(verdict)
  PROVE  IInv'
<1> USE DEF IInv, Settle
<1>1. current \in Ops /\ current \notin Range(items) /\ ~scheduled
  BY DEF TypeOK, HeldExactlyOnce, OneProcessLoop
<1>2. Pending' = Pending \ {current}
  BY <1>1 DEF Pending, TypeOK
<1>3. Pending' = Range(items)
  BY <1>1, <1>2, ElementOfSeq DEF HeldExactlyOnce, Pending, Range, TypeOK
<1>4. OwedIsPending'
  BY <1>2 DEF OwedIsPending
<1>5. outcome' \in [Ops -> Outcomes] /\ owed' \in [Drainers -> SUBSET Ops]
  BY <1>1 DEF TypeOK, Outcomes
<1>6. CASE TakeNextItem
  <2> USE <1>6 DEF TakeNextItem
  <2>1. /\ items' \in Seq(Ops)
        /\ current' \in Ops
        /\ Range(items) = Range(items') \cup {current'}
        /\ NoRepeat(items')
        /\ current' \notin Range(items')
    BY TailHolds DEF TypeOK, HeldExactlyOnce, NoRepeat
  <2>2. TypeOK'
    BY <1>5, <2>1 DEF TypeOK
  <2>3. OneProcessLoop'
    BY <1>1, <2>1, NoOpAssumption DEF OneProcessLoop
  <2>4. HeldExactlyOnce'
    BY <2>1, <1>3 DEF HeldExactlyOnce, NoRepeat
  <2>5. DrainMeansSettled'
    BY DEF DrainMeansSettled, TypeOK
  <2>6. QED
    BY <1>4, <2>2, <2>3, <2>4, <2>5
<1>7. CASE FinishProcessing
  <2> USE <1>7 DEF FinishProcessing
  <2>1. Pending' = {}
    BY <1>3, EmptyHolds
  <2>2. TypeOK'
    BY <1>5 DEF TypeOK
  <2>3. OneProcessLoop'
    BY <1>1 DEF OneProcessLoop, TypeOK
  <2>4. HeldExactlyOnce'
    BY <2>1, NoOpAssumption, EmptyHolds DEF HeldExactlyOnce, NoRepeat, Pending
  <2>5. DrainMeansSettled'
    BY <1>4, <2>1 DEF OwedIsPending, DrainMeansSettled
  <2>6. QED
    BY <1>4, <2>2, <2>3, <2>4, <2>5
<1>8. QED
  BY <1>6, <1>7 DEF LoopHead

\* A call of drain, answered at once or made to wait.
LEMMA DrainPreserves ==
  ASSUME IInv, NEW d \in Drainers, Drain(d)
  PROVE  IInv'
<1> USE DEF IInv
<1>1. Pending' = Pending /\ Pending \subseteq Ops
  BY DEF Drain, DrainAtOnce, DrainWaits, Pending
<1>2. CASE DrainAtOnce(d)
  <2> USE <1>2 DEF DrainAtOnce
  <2>1. Pending = {}
    BY NoOpAssumption, EmptyHolds DEF HeldExactlyOnce, OneProcessLoop, Pending
  <2>2. TypeOK'
    BY <1>1 DEF TypeOK
  <2>3. OneProcessLoop'
    BY DEF OneProcessLoop, TypeOK
  <2>4. HeldExactlyOnce'
    BY <1>1 DEF HeldExactlyOnce
  <2>5. OwedIsPending' /\ DrainMeansSettled'
    BY <1>1, <2>1 DEF OwedIsPending, DrainMeansSettled, TypeOK
  <2>6. QED
    BY <2>2, <2>3, <2>4, <2>5
<1>3. CASE DrainWaits(d)
  <2> USE <1>3 DEF DrainWaits
  <2>1. TypeOK'
    BY <1>1 DEF TypeOK
  <2>2. OneProcessLoop'
    BY DEF OneProcessLoop, TypeOK
  <2>3. HeldExactlyOnce'
    BY <1>1 DEF HeldExactlyOnce
  <2>4. OwedIsPending' /\ DrainMeansSettled'
    BY <1>1 DEF OwedIsPending, DrainMeansSettled, TypeOK
  <2>5. QED
    BY <2>1, <2>2, <2>3, <2>4
<1>4. QED
  BY <1>2, <1>3 DEF Drain

\* close raises a flag that enqueue reads.
LEMMA ClosePreserves ==
  ASSUME IInv, Close
  PROVE  IInv'
BY DEF IInv, Close, TypeOK, OneProcessLoop, HeldExactlyOnce, Pending,
       OwedIsPending, DrainMeansSettled

\* clearPending drops and rejects whatever waits, and nothing else.
LEMMA ClearPendingPreserves ==
  ASSUME IInv, ClearPending
  PROVE  IInv'
<1> USE DEF IInv, ClearPending
<1>1. Pending' = Pending \ Range(items)
  BY DEF Pending
<1>2. TypeOK'
  BY EmptyHolds DEF TypeOK, Outcomes
<1>3. OneProcessLoop'
  BY DEF OneProcessLoop
<1>4. HeldExactlyOnce'
  BY <1>1, EmptyHolds DEF HeldExactlyOnce, NoRepeat
<1>5. OwedIsPending' /\ DrainMeansSettled'
  BY <1>1 DEF OwedIsPending, DrainMeansSettled
<1>6. QED
  BY <1>2, <1>3, <1>4, <1>5

LEMMA StutterPreserves ==
  ASSUME IInv, UNCHANGED vars
  PROVE  IInv'
BY DEF IInv, vars, TypeOK, OneProcessLoop, HeldExactlyOnce, Pending,
       OwedIsPending, DrainMeansSettled

LEMMA StepPreserves == IInv /\ [Next]_vars => IInv'
<1> SUFFICES ASSUME IInv, [Next]_vars PROVE IInv'
  OBVIOUS
<1>1. CASE \E o \in Ops : Enqueue(o)
  BY <1>1, EnqueuePreserves
<1>2. CASE EnterProcess
  BY <1>2, EnterProcessPreserves
<1>3. CASE SettleSome
  BY <1>3, SettlePreserves DEF SettleSome
<1>4. CASE \E d \in Drainers : Drain(d)
  BY <1>4, DrainPreserves
<1>5. CASE Close
  BY <1>5, ClosePreserves
<1>6. CASE ClearPending
  BY <1>6, ClearPendingPreserves
<1>7. CASE UNCHANGED vars
  BY <1>7, StutterPreserves
<1>8. QED
  BY <1>1, <1>2, <1>3, <1>4, <1>5, <1>6, <1>7 DEF Next

LEMMA Inductive == Safety => []IInv
BY InitEstablishes, StepPreserves, PTL DEF Safety

\* The fields of WriteQueue always hold values of their types.
THEOREM TypeCorrect == Safety => []TypeOK
<1>1. IInv => TypeOK
  BY DEF IInv
<1>2. QED
  BY <1>1, Inductive, PTL

\* For any number of callers, the wake-up of #process is neither lost nor
\* doubled (enqueue, #process and its finally block in write-queue.ts).
THEOREM NoLostWakeup == Safety => []OneProcessLoop
<1>1. IInv => OneProcessLoop
  BY DEF IInv
<1>2. QED
  BY <1>1, Inductive, PTL

\* For any number of callers, an unsettled promise of enqueue has its item in
\* exactly one place of the queue.
THEOREM NothingDroppedOrDoubled == Safety => []HeldExactlyOnce
<1>1. IInv => HeldExactlyOnce
  BY DEF IInv
<1>2. QED
  BY <1>1, Inductive, PTL

\* For any number of callers, a drain promise resolves only after everything
\* accepted before the call of drain is settled.
THEOREM DrainIsHonest == Safety => []DrainMeansSettled
<1>1. IInv => DrainMeansSettled
  BY DEF IInv
<1>2. QED
  BY <1>1, Inductive, PTL

-----------------------------------------------------------------------------
(* The queue implements the serial executor *)

\* An item in execution followed by the waiting ones is a sequence whose head
\* is that item, and appending behind the waiting ones appends to the whole.
LEMMA InFront ==
  ASSUME NEW S, NEW q \in Seq(S), NEW c \in S
  PROVE  /\ <<c>> \o q \in Seq(S)
         /\ <<c>> \o q # <<>>
         /\ Len(<<c>> \o q) = Len(q) + 1
         /\ \A i \in 1..(Len(q) + 1) : (<<c>> \o q)[i] = IF i = 1 THEN c ELSE q[i - 1]
         /\ Head(<<c>> \o q) = c
         /\ Tail(<<c>> \o q) = q
         /\ \A e \in S : <<c>> \o Append(q, e) = Append(<<c>> \o q, e)
<1>1. <<c>> \in Seq(S) /\ Len(<<c>>) = 1 /\ <<c>>[1] = c
  OBVIOUS
<1>2. /\ <<c>> \o q \in Seq(S)
      /\ Len(<<c>> \o q) = Len(q) + 1
      /\ \A i \in 1..(Len(q) + 1) : (<<c>> \o q)[i] = IF i = 1 THEN c ELSE q[i - 1]
  BY <1>1, ConcatProperties, LenProperties
<1>3. <<c>> \o q # <<>>
  BY <1>2, LenProperties
<1>4. Head(<<c>> \o q) = c
  BY <1>2, LenProperties
<1>5. Tail(<<c>> \o q) = q
  <2>1. /\ Tail(<<c>> \o q) \in Seq(S)
        /\ Len(Tail(<<c>> \o q)) = Len(q)
        /\ \A i \in 1..Len(q) : Tail(<<c>> \o q)[i] = (<<c>> \o q)[i + 1]
    BY <1>2, <1>3, HeadTailProperties, LenProperties
  <2>2. \A i \in 1..Len(q) : Tail(<<c>> \o q)[i] = q[i]
    BY <1>2, <2>1, LenProperties
  <2>3. QED
    BY <2>1, <2>2, SeqEqual
<1>6. ASSUME NEW e \in S
      PROVE  <<c>> \o Append(q, e) = Append(<<c>> \o q, e)
  <2>1. Append(q, e) = q \o <<e>>
    OBVIOUS
  <2>2. Append(<<c>> \o q, e) = (<<c>> \o q) \o <<e>>
    BY <1>2
  <2>3. <<e>> \in Seq(S)
    OBVIOUS
  <2>4. (<<c>> \o q) \o <<e>> = <<c>> \o (q \o <<e>>)
    BY <1>1, <2>3, ConcatAssociative
  <2>5. QED
    BY <2>1, <2>2, <2>4
<1>7. QED
  BY <1>2, <1>3, <1>4, <1>5, <1>6

\* Taking the oldest item moves it from the waiting ones into execution.
LEMMA HeadThenTail ==
  ASSUME NEW S, NEW q \in Seq(S), q # <<>>
  PROVE  <<Head(q)>> \o Tail(q) = q
<1>1. /\ Tail(q) \in Seq(S)
      /\ Head(q) \in S
      /\ Len(q) \in Nat \ {0}
      /\ Len(Tail(q)) = Len(q) - 1
      /\ Head(q) = q[1]
      /\ \A i \in 1..(Len(q) - 1) : Tail(q)[i] = q[i + 1]
  BY HeadTailProperties, EmptySeq
<1>2. /\ <<Head(q)>> \o Tail(q) \in Seq(S)
      /\ Len(<<Head(q)>> \o Tail(q)) = Len(q)
      /\ \A i \in 1..Len(q) :
           (<<Head(q)>> \o Tail(q))[i] = IF i = 1 THEN Head(q) ELSE Tail(q)[i - 1]
  BY <1>1, InFront
<1>3. \A i \in 1..Len(q) : (<<Head(q)>> \o Tail(q))[i] = q[i]
  BY <1>1, <1>2
<1>4. QED
  BY <1>2, <1>3, SeqEqual

LEMMA SingletonSeqs ==
  ASSUME NEW S, NEW s \in Seq(S), NEW t \in Seq(S),
         Len(s) = 1, Len(t) = 1, s[1] = t[1]
  PROVE  s = t
<1>1. \A i \in 1..Len(s) : s[i] = t[i]
  OBVIOUS
<1>2. QED
  BY <1>1, SeqEqual

LEMMA EnqueueRefines ==
  ASSUME IInv, NEW o \in Ops, Enqueue(o)
  PROVE  Executor!Submit(o) \/ Executor!Refuse(o)
<1> USE DEF IInv
<1>1. CASE EnqueueAccepted(o)
  <2>1. Backlog' = Append(Backlog, o)
    BY <1>1, InFront, SMTT(30) DEF EnqueueAccepted, Backlog, TypeOK
  <2>2. QED
    BY <1>1, <2>1 DEF EnqueueAccepted, Executor!Submit
<1>2. CASE EnqueueRefused(o)
  BY <1>2 DEF EnqueueRefused, Executor!Refuse, Backlog
<1>3. QED
  BY <1>1, <1>2 DEF Enqueue

LEMMA EnterProcessRefines ==
  ASSUME IInv, EnterProcess
  PROVE  UNCHANGED <<Backlog, outcome, closed>>
<1> USE DEF IInv, EnterProcess
<1>1. current = NoOp
  BY DEF OneProcessLoop
<1>2. CASE TakeNextItem
  <2>1. Head(items) \in Ops
    BY <1>2, TailHolds DEF TakeNextItem, TypeOK
  <2>2. <<Head(items)>> \o Tail(items) = items
    BY <1>2, HeadThenTail DEF TakeNextItem, TypeOK
  <2>3. QED
    BY <1>1, <1>2, <2>1, <2>2, NoOpAssumption DEF TakeNextItem, Backlog
<1>3. CASE FinishProcessing
  BY <1>1, <1>3 DEF FinishProcessing, Backlog
<1>4. QED
  BY <1>2, <1>3 DEF LoopHead

LEMMA SettleRefines ==
  ASSUME IInv, SettleSome
  PROVE  Executor!Serve
<1> USE DEF IInv
<1>1. PICK verdict \in {"resolved", "rejected"} : Settle(verdict)
  BY DEF SettleSome
<1>2. current \in Ops /\ items \in Seq(Ops)
  BY <1>1 DEF Settle, TypeOK
<1>3. Backlog # <<>> /\ Head(Backlog) = current /\ Tail(Backlog) = items
  BY <1>2, InFront, NoOpAssumption DEF Backlog
<1>4. Backlog' = items
  <2>1. CASE TakeNextItem
    <3>1. Head(items) \in Ops /\ <<Head(items)>> \o Tail(items) = items
      BY <1>2, <2>1, TailHolds, HeadThenTail DEF TakeNextItem
    <3>2. QED
      BY <2>1, <3>1, NoOpAssumption DEF TakeNextItem, Backlog
  <2>2. CASE FinishProcessing
    BY <2>2 DEF FinishProcessing, Backlog
  <2>3. QED
    BY <1>1, <2>1, <2>2, SMTT(30) DEF Settle, LoopHead
<1>5. QED
  BY <1>1, <1>3, <1>4 DEF Settle, Executor!Serve

LEMMA ClearPendingRefines ==
  ASSUME IInv, ClearPending
  PROVE  Executor!CancelWaiting
<1> USE DEF IInv, ClearPending
<1>1. CASE current = NoOp
  <2>1. Backlog = items /\ Backlog' = <<>>
    BY <1>1 DEF Backlog
  <2>2. SubSeq(Backlog, 1, 0) = <<>> /\ 0 <= Len(Backlog)
    BY <2>1, SubSeqEmpty DEF TypeOK
  <2>3. \A o \in Ops : o \in Range(items)
                         <=> \E i \in (0 + 1)..Len(Backlog) : Backlog[i] = o
    BY <2>1 DEF Range, TypeOK
  <2>4. QED
    BY <2>1, <2>2, <2>3 DEF Executor!CancelWaiting
<1>2. CASE current # NoOp
  <2>1. current \in Ops /\ items \in Seq(Ops)
    BY <1>2 DEF TypeOK
  <2>2. Backlog = <<current>> \o items /\ Backlog' = <<current>>
    BY <1>2, <2>1 DEF Backlog
  <2>3. /\ Len(items) \in Nat
        /\ Len(Backlog) = Len(items) + 1
        /\ \A i \in 1..(Len(items) + 1) :
             Backlog[i] = IF i = 1 THEN current ELSE items[i - 1]
    BY <2>1, <2>2, InFront
  <2>4. SubSeq(Backlog, 1, 1) = <<current>>
    <3>1. /\ SubSeq(Backlog, 1, 1) \in Seq(Ops)
          /\ Len(SubSeq(Backlog, 1, 1)) = 1
          /\ SubSeq(Backlog, 1, 1)[1] = current
      BY <2>1, <2>3, SubSeqProperties
    <3>2. /\ <<current>> \in Seq(Ops)
          /\ Len(<<current>>) = 1
          /\ <<current>>[1] = current
      BY <2>1
    <3>3. QED
      BY <3>1, <3>2, SingletonSeqs
  <2>5. \A o \in Ops : o \in Range(items)
                         <=> \E i \in (1 + 1)..Len(Backlog) : Backlog[i] = o
    <3>1. ASSUME NEW i \in 1..Len(items)
          PROVE  i + 1 \in (1 + 1)..Len(Backlog) /\ Backlog[i + 1] = items[i]
      BY <2>3
    <3>2. ASSUME NEW i \in (1 + 1)..Len(Backlog)
          PROVE  i - 1 \in 1..Len(items) /\ Backlog[i] = items[i - 1]
      BY <2>3
    <3>3. DOMAIN items = 1..Len(items)
      BY <2>1
    <3>4. QED
      BY <3>1, <3>2, <3>3 DEF Range
  <2>6. 1 <= Len(Backlog)
    BY <2>3
  <2>7. QED
    BY <2>2, <2>4, <2>5, <2>6 DEF Executor!CancelWaiting
<1>3. QED
  BY <1>1, <1>2

\* Every step of the queue is a step of the serial executor or leaves its
\* backlog, its outcomes and its shutter alone: operations are served one at a
\* time in the order enqueue accepted them, each with one outcome.
THEOREM ImplementsSerialExecutor == Safety => Executor!ExecSafety
<1>1. Init => Executor!ExecInit
  BY DEF Init, Executor!ExecInit, Backlog
<1>2. IInv /\ [Next]_vars => [Executor!ExecNext]_(Executor!execVars)
  <2> SUFFICES ASSUME IInv, [Next]_vars
               PROVE  Executor!ExecNext \/ UNCHANGED Executor!execVars
    OBVIOUS
  <2> USE DEF Executor!ExecNext, Executor!execVars
  <2>1. CASE \E o \in Ops : Enqueue(o)
    BY <2>1, EnqueueRefines
  <2>2. CASE EnterProcess
    BY <2>2, EnterProcessRefines
  <2>3. CASE SettleSome
    BY <2>3, SettleRefines
  <2>4. CASE \E d \in Drainers : Drain(d)
    BY <2>4 DEF Drain, DrainAtOnce, DrainWaits, Backlog
  <2>5. CASE Close
    BY <2>5 DEF Close, Executor!Shut, Backlog
  <2>6. CASE ClearPending
    BY <2>6, ClearPendingRefines
  <2>7. CASE UNCHANGED vars
    BY <2>7 DEF vars, Backlog
  <2>8. QED
    BY <2>1, <2>2, <2>3, <2>4, <2>5, <2>6, <2>7 DEF Next
<1>3. QED
  BY <1>1, <1>2, Inductive, PTL DEF Safety, Executor!ExecSafety
=============================================================================
