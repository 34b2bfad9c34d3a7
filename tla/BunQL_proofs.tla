---------------------------- MODULE BunQL_proofs ----------------------------
(***************************************************************************)
(* Proofs about the facade of a BunQL database, for every set of calls and    *)
(* every number of retries.  The base invariant of the transaction manager is *)
(* kept by every call, item and further attempt, and by close(); the nesting  *)
(* invariant is kept as long as no further attempt has joined another         *)
(* transaction; that an attempt which is tried again has left nothing behind   *)
(* is proved from the base invariant alone.                                   *)
(***************************************************************************)
EXTENDS BunQL, TransactionManager_proofs

-----------------------------------------------------------------------------
(* The invariant, whoever makes the calls *)

CallsTyped ==
  /\ dbOpen \in BOOLEAN
  /\ lockedOut \subseteq BatchCalls \cup ExecCalls
  /\ \A c \in Calls : parent[c] \in TxCalls \cup {NoOp}
  /\ \A c \in Calls : InCallback(c) => c \in TxCalls

\* What close() has done: the queue is empty for good once it is closed, and when
\* drain has returned nothing is in execution.
CloserInv ==
  /\ \A d \in Drainers : drainer[d] # "idle" => closed
  /\ \A d \in Drainers : drainer[d] = "resolved" => ~processing
  /\ closed => items = <<>>
  /\ ~dbOpen => ~InTransaction(conn) /\ \A d \in Drainers : drainer[d] = "resolved"

\* The attempts of a call before this one.
Earlier(c) == {e \in Calls : e[1] = c[1] /\ e[2] < c[2]}

\* An attempt has been made only if every one before it met a lock.
AttemptsInOrder ==
  \A c \in Calls : phase[c] # "idle" => \A e \in Earlier(c) : result[e] = "busy"

\* Only a transaction and a vacuum end with the error of a lock, and no callback
\* made the items that wait.
BusyKinds ==
  \A c \in Calls \ TxCalls :
    /\ result[c] = "busy" => c \in VacuumCalls
    /\ phase[c] # "done" \/ result[c] = "busy" => parent[c] = NoOp

LocksInv == AttemptsInOrder /\ BusyKinds

\* The rows of exec() belong to no callback.
ExecIsAlone == \A c \in ExecCalls : phase[c] # "done" \/ c \in wrote => inside[c] = {c}

FacadeInv == CallsTyped /\ CloserInv /\ LocksInv /\ ExecIsAlone

DbInv == BaseInv /\ FacadeInv

LEMMA CallKinds ==
  /\ TxCalls \subseteq Calls /\ ExecCalls \subseteq Calls /\ VacuumCalls \subseteq Calls
  /\ RunCalls \subseteq Calls /\ BatchCalls \subseteq Calls
  /\ TxCalls \cap (BatchCalls \cup ExecCalls \cup VacuumCalls \cup RunCalls) = {}
  /\ BatchCalls \cap (ExecCalls \cup VacuumCalls \cup RunCalls) = {}
  /\ ExecCalls \cap (VacuumCalls \cup RunCalls) = {}
  /\ VacuumCalls \cap RunCalls = {}
BY DbAssumption DEF Attempts, TxCalls, ExecCalls, VacuumCalls, RunCalls, BatchCalls

\* A call is a name and the number of an attempt.
LEMMA AttemptsAreNumbered ==
  \A c \in Calls : c = <<c[1], c[2]>> /\ c[2] \in Nat
BY DbAssumption DEF Attempts

LEMMA FirstHasNoEarlier ==
  ASSUME NEW c \in Calls, IsFirst(c)
  PROVE  Earlier(c) = {}
BY AttemptsAreNumbered DEF IsFirst, Earlier

\* The next attempt is a call of the same kind, and the attempts before it are the
\* one that sleeps and those before that one.
LEMMA NextAttempt ==
  ASSUME NEW c \in Calls, Sleeps(c)
  PROVE  /\ Again(c) \in Calls /\ Again(c) # c /\ ~IsFirst(Again(c))
         /\ Again(c) \in TxCalls <=> c \in TxCalls
         /\ Again(c) \in VacuumCalls <=> c \in VacuumCalls
         /\ Earlier(Again(c)) = Earlier(c) \cup {c}
         /\ phase[c] = "done" /\ result[c] = "busy" /\ phase[Again(c)] = "idle"
<1> DEFINE All == Txs \cup Batches \cup Execs \cup Vacuums \cup RunOps
           d == Again(c)
<1>1. /\ c[1] \in All /\ c[2] \in 0..MaxRetries /\ c[2] < MaxRetries /\ MaxRetries \in Nat
      /\ phase[c] = "done" /\ result[c] = "busy" /\ phase[Again(c)] = "idle"
  BY DbAssumption DEF Attempts, Sleeps, MayRetry
<1>2. d[1] = c[1] /\ d[2] = c[2] + 1 /\ d = <<c[1], c[2] + 1>>
  BY DEF Again
<1>3. c[2] + 1 \in 0..MaxRetries /\ c[2] + 1 # c[2] /\ c[2] + 1 # 0
  BY <1>1
<1>4. d \in Calls /\ d # c /\ ~IsFirst(d)
  BY <1>1, <1>2, <1>3, DbAssumption DEF Attempts, IsFirst
<1>5. (d \in TxCalls <=> c \in TxCalls) /\ (d \in VacuumCalls <=> c \in VacuumCalls)
  BY <1>1, <1>2, <1>3, AttemptsAreNumbered DEF TxCalls, VacuumCalls, Attempts
<1>6. Earlier(d) = Earlier(c) \cup {c}
  <2>1. ASSUME NEW e \in Calls PROVE e \in Earlier(d) <=> e \in Earlier(c) \/ e = c
    <3>1. e[2] \in Nat /\ c[2] \in Nat /\ (e[2] < c[2] + 1 <=> e[2] < c[2] \/ e[2] = c[2])
      BY AttemptsAreNumbered
    <3>2. e[1] = c[1] /\ e[2] = c[2] <=> e = c
      BY AttemptsAreNumbered
    <3>3. QED
      BY <1>2, <3>1, <3>2 DEF Earlier
  <2>2. QED
    BY <2>1 DEF Earlier
<1> HIDE DEF d
<1>7. QED
  BY <1>1, <1>4, <1>5, <1>6 DEF d

LEMMA DbInitHolds == DbInit => DbInv
<1> SUFFICES ASSUME DbInit PROVE DbInv
  OBVIOUS
<1>1. BaseInv
  BY InitHolds DEF DbInit
<1>2. CallsTyped
  BY DEF DbInit, Init, CallsTyped, InCallback
<1>3. CloserInv
  BY DEF DbInit, Init, Q!Init, CloserInv
<1>4. LocksInv /\ ExecIsAlone
  BY CallKinds DEF DbInit, Init, LocksInv, AttemptsInOrder, BusyKinds, ExecIsAlone
<1>5. QED
  BY <1>1, <1>2, <1>3, <1>4 DEF DbInv, FacadeInv

\* Calls that are answered at once, or while they wait: they are refused, cleared,
\* or have written their rows in the segment of their caller.
LEMMA AnsweredHolds ==
  ASSUME BaseInv, NEW S \in SUBSET Calls, \A c \in S : phase[c] \in Unstarted,
         NEW r \in {"ok", "error"},
         phase' = [c \in Calls |-> IF c \in S THEN "done" ELSE phase[c]],
         result' = [c \in Calls |-> IF c \in S THEN r ELSE result[c]],
         QP!IInv', current' = current,
         \A c \in Calls : outcome'[c] = "pending" <=> (outcome[c] = "pending" /\ c \notin S),
         wrote' = wrote \/ wrote' = wrote \cup S,
         Sound(conn', Calls, spCounter, wrote'),
         InTransaction(conn') <=> InTransaction(conn),
         HistoryTypes', UNCHANGED <<txProcessing, txDepth, spCounter, savepoint, failed>>
  PROVE  BaseInv'
<1> USE DEF BaseInv, ManagerInv
<1>0. FieldTypes
  OBVIOUS
<1>1. FieldTypes'
  BY <1>0 DEF FieldTypes, HistoryTypes, Phases
<1>2. (AnswersPending /\ CurrentIsStarted)'
  BY DEF AnswersPending, CurrentIsStarted, Unstarted
<1>3. SomeOpen' <=> SomeOpen
  BY DEF SomeOpen, Unstarted
<1>4. ManagerKnows'
  BY <1>3 DEF ManagerKnows
<1>5. ConnectionFollows'
  BY <1>3 DEF ConnectionFollows
<1>6. SavepointsNamed'
  BY DEF SavepointsNamed, Unstarted
<1>7. (AnswersDecided /\ WritersStarted)'
  BY <1>0 DEF AnswersDecided, WritersStarted, Unstarted, FieldTypes
<1>8. QED
  BY <1>1, <1>2, <1>4, <1>5, <1>6, <1>7

\* One call that is answered at once.
LEMMA OneAnsweredHolds ==
  ASSUME BaseInv, NEW c \in Calls, phase[c] = "idle",
         NEW r \in {"ok", "error"},
         phase' = [phase EXCEPT ![c] = "done"], result' = [result EXCEPT ![c] = r],
         \/ UNCHANGED queueVars
         \/ Q!EnqueueRefused(c),
         wrote' = wrote \/ wrote' = wrote \cup {c},
         Sound(conn', Calls, spCounter, wrote'),
         InTransaction(conn') <=> InTransaction(conn),
         HistoryTypes', UNCHANGED <<txProcessing, txDepth, spCounter, savepoint, failed>>
  PROVE  BaseInv'
<1>0. FieldTypes /\ AnswersPending /\ QP!IInv /\ QP!TypeOK
  BY DEF BaseInv, ManagerInv, QP!IInv
<1> DEFINE S == {c}
<1>1. /\ S \in SUBSET Calls /\ \A d \in S : phase[d] \in Unstarted
      /\ wrote' = wrote \/ wrote' = wrote \cup S
  BY DEF Unstarted
<1>2. /\ phase' = [d \in Calls |-> IF d \in S THEN "done" ELSE phase[d]]
      /\ result' = [d \in Calls |-> IF d \in S THEN r ELSE result[d]]
  BY <1>0 DEF FieldTypes
<1>3. /\ QP!IInv' /\ current' = current
      /\ \A d \in Calls : outcome'[d] = "pending" <=> (outcome[d] = "pending" /\ d \notin S)
  <2>0. outcome[c] # "pending"
    BY <1>0 DEF AnswersPending
  <2>1. CASE UNCHANGED queueVars
    <3>1. QP!IInv'
      BY <1>0, <2>1, TMAssumption, QP!StutterPreserves DEF queueVars, QP!vars
    <3>2. QED
      BY <2>0, <2>1, <3>1 DEF queueVars
  <2>2. CASE Q!EnqueueRefused(c)
    <3>1. QP!Enqueue(c)
      BY <2>2 DEF Q!EnqueueRefused, QP!Enqueue, QP!EnqueueRefused
    <3>2. QP!IInv'
      BY <1>0, <3>1, TMAssumption, QP!EnqueuePreserves
    <3>3. QED
      BY <1>0, <2>0, <2>2, <3>2 DEF Q!EnqueueRefused, QP!TypeOK
  <2>3. QED
    BY <2>1, <2>2
<1> HIDE DEF S
<1>4. QED
  BY <1>1, <1>2, <1>3, AnsweredHolds, ZenonT(60)

-----------------------------------------------------------------------------
(* The calls and their first segments *)

LEMMA RefuseHolds ==
  ASSUME BaseInv, NEW c \in Calls, NEW p \in Calls \cup {NoOp}, Refuse(c, p)
  PROVE  BaseInv'
<1>1. /\ phase[c] = "idle" /\ MadeBy(c, p) /\ conn' = conn
      /\ phase' = [phase EXCEPT ![c] = "done"] /\ result' = [result EXCEPT ![c] = "error"]
      /\ UNCHANGED queueVars /\ wrote' = wrote
      /\ UNCHANGED <<txProcessing, txDepth, spCounter, savepoint, failed>>
  BY DEF Refuse, managerVars
<1>2. HistoryTypes'
  BY <1>1, MadeByTypes
<1>3. Sound(conn', Calls, spCounter, wrote')
  BY <1>1 DEF BaseInv, ManagerInv, ConnectionFollows
<1>4. QED
  BY <1>1, <1>2, <1>3, OneAnsweredHolds

\* A statement in the segment of its caller joins the transaction that is open.
LEMMA CallRunHolds ==
  ASSUME BaseInv, NEW c \in Calls, NEW p \in Calls \cup {NoOp}, CallRun(c, p)
  PROVE  BaseInv'
<1>1. /\ phase[c] = "idle" /\ MadeBy(c, p) /\ conn' = WriteRow(conn, c)
      /\ phase' = [phase EXCEPT ![c] = "done"] /\ result' = [result EXCEPT ![c] = "ok"]
      /\ UNCHANGED queueVars /\ wrote' = wrote \cup {c}
      /\ UNCHANGED <<txProcessing, txDepth, spCounter, savepoint, failed>>
  BY DEF CallRun, managerVars
<1>2. HistoryTypes'
  BY <1>1, MadeByTypes
<1>3. /\ Sound(conn, Calls, spCounter, wrote) /\ spCounter \in Nat /\ c \in Calls \ wrote
  BY <1>1 DEF BaseInv, ManagerInv, ConnectionFollows, FieldTypes, WritersStarted, Unstarted
<1>4. /\ Sound(conn', Calls, spCounter, wrote')
      /\ InTransaction(conn') <=> InTransaction(conn)
  BY <1>1, <1>3, OperationsKeepSound
<1>5. QED
  BY <1>1, <1>2, <1>4, OneAnsweredHolds

LEMMA CallItemHolds ==
  ASSUME BaseInv, NEW c \in Calls, CallItem(c)
  PROVE  BaseInv'
<1>1. /\ phase[c] = "idle" /\ Q!EnqueueAccepted(c)
      /\ phase' = [phase EXCEPT ![c] = "queued"]
      /\ UNCHANGED <<txProcessing, txDepth, spCounter, conn, savepoint, wrote, failed>>
      /\ UNCHANGED <<parent, inside, result>>
  BY DEF CallItem, managerVars
<1>2. HistoryTypes'
  BY <1>1 DEF HistoryTypes, BaseInv, ManagerInv, FieldTypes
<1>3. result' = [result EXCEPT ![c] = "none"]
  BY <1>1, StillNone
<1>4. QED
  BY <1>1, <1>2, <1>3, QueuedCallHolds

\* The next attempt of a call is a call that the same callback makes.
LEMMA CallAgainHolds ==
  ASSUME BaseInv, NEW c \in Calls, CallAgain(c)
  PROVE  BaseInv'
<1> DEFINE d == Again(c)
           p == parent[c]
<1>1. /\ d \in Calls /\ phase[d] = "idle" /\ MadeBy(d, p) /\ AttemptAgain(d, p)
      /\ UNCHANGED <<wrote, failed>>
  BY NextAttempt DEF CallAgain
<1>2. p \in Calls \cup {NoOp}
  BY DEF BaseInv, ManagerInv, FieldTypes
<1> HIDE DEF d, p
<1>3. HistoryTypes'
  BY <1>1, <1>2, MadeByTypes
<1>4. CASE NestedCall(d, p) /\ UNCHANGED result
  <2>1. result' = [result EXCEPT ![d] = "none"]
    BY <1>1, <1>4, StillNone
  <2>2. QED
    BY <1>1, <1>2, <1>3, <1>4, <2>1, NestedCallHolds
<1>5. CASE /\ Q!EnqueueAccepted(d) /\ phase' = [phase EXCEPT ![d] = "queued"]
           /\ UNCHANGED <<txProcessing, txDepth, spCounter, conn, savepoint, result>>
  <2>1. result' = [result EXCEPT ![d] = "none"]
    BY <1>1, <1>5, StillNone
  <2>2. UNCHANGED <<txProcessing, txDepth, spCounter, conn, savepoint, wrote, failed>>
    BY <1>1, <1>5
  <2>3. QED
    BY <1>1, <1>3, <1>5, <2>1, <2>2, QueuedCallHolds
<1>6. CASE /\ Q!EnqueueRefused(d) /\ phase' = [phase EXCEPT ![d] = "done"]
           /\ result' = [result EXCEPT ![d] = "error"]
           /\ UNCHANGED <<txProcessing, txDepth, spCounter, conn, savepoint>>
  <2>1. UNCHANGED <<txProcessing, txDepth, spCounter, savepoint, failed>> /\ conn' = conn
    BY <1>1, <1>6
  <2>2. Sound(conn', Calls, spCounter, wrote')
    BY <1>1, <2>1 DEF BaseInv, ManagerInv, ConnectionFollows
  <2>3. QED
    BY <1>1, <1>3, <1>6, <2>1, <2>2, OneAnsweredHolds
<1>7. QED
  BY <1>1, <1>4, <1>5, <1>6 DEF AttemptAgain, QueuedCall

-----------------------------------------------------------------------------
(* The items: batch, exec, vacuum and a transaction that a lock refuses end in *)
(* the segment that starts them.                                               *)

\* The item h ends with result r; at most its own row is written, in full and at
\* once unless a transaction was left open.
ItemEnds(h, ph, r) ==
  /\ phase' = [ph EXCEPT ![h] = "unwound"]
  /\ result' = [result EXCEPT ![h] = r]
  /\ UNCHANGED <<txProcessing, txDepth>>
  /\ Sound(conn', Calls, spCounter, wrote')
  /\ InTransaction(conn') => InTransaction(conn)
  /\ \/ wrote' = wrote /\ conn'.durable = conn.durable
     \/ /\ wrote' = wrote \cup {h} /\ (r = "ok" \/ h \in ExecCalls)
        /\ ~InTransaction(conn) => conn'.durable = conn.durable \cup {h}

\* What the item at the head of the queue does.  Only a transaction and a vacuum
\* fail with the error of a lock as it is.
ItemStarts(h, ph) ==
  \/ TransactionBegins(h, ph) /\ wrote' = wrote /\ h \in TxCalls
  \/ \E r \in {"ok", "error", "busy"} :
       ItemEnds(h, ph, r) /\ (r = "busy" => h \in TxCalls \cup VacuumCalls /\ wrote' = wrote)

LEMMA ItemRuns ==
  ASSUME BaseInv, NEW h \in Calls, phase[h] = "queued", NEW ph, Between(ph), StartDbItem(h, ph)
  PROVE  ItemStarts(h, ph) /\ lockedOut' \subseteq lockedOut \cup ({h} \cap (BatchCalls \cup ExecCalls))
<1>0. /\ Sound(conn, Calls, spCounter, wrote) /\ spCounter \in Nat /\ h \in Calls \ wrote
      /\ conn \in Connections(Calls) /\ ~txProcessing /\ txDepth = 0
  BY DEF BaseInv, ManagerInv, ConnectionFollows, Sound, FieldTypes, WritersStarted, Unstarted,
         ManagerKnows, SomeOpen, Between
<1>1. CASE StartTransaction(h, ph)
  <2>0. h \in TxCalls /\ wrote' = wrote /\ lockedOut' = lockedOut
    BY <1>1 DEF StartTransaction
  <2>1. CASE TransactionBegins(h, ph)
    BY <2>0, <2>1 DEF ItemStarts
  <2>2. CASE TransactionFailsToBegin(h, ph)
    <3>1. PICK e \in Failures : result' = [result EXCEPT ![h] = e]
      BY <2>2, BeginErrorsAreFailures DEF TransactionFailsToBegin
    <3>2. /\ phase' = [ph EXCEPT ![h] = "unwound"]
          /\ txProcessing' = txProcessing /\ txDepth' = txDepth /\ conn' = conn
      BY <1>0, <2>2 DEF TransactionFailsToBegin, BaseInv, ManagerInv, FieldTypes
    <3>3. ItemEnds(h, ph, e)
      BY <1>0, <2>0, <3>1, <3>2 DEF ItemEnds
    <3>4. e \in {"ok", "error", "busy"}
      BY DEF Failures
    <3>5. QED
      BY <2>0, <3>3, <3>4 DEF ItemStarts
  <2>3. QED
    BY <1>1, <2>0, <2>1, <2>2 DEF StartTransaction, StartItem
<1>2. CASE StartBatch(h, ph)
  <2>0. h \in BatchCalls
    BY <1>2 DEF StartBatch
  <2>1. CASE BatchSucceeds(h, ph)
    <3> DEFINE b == Begin(conn)
               w == WriteRow(b, h)
    <3>1. Sound(b, Calls, spCounter, wrote) /\ InTransaction(b) /\ b \in Connections(Calls)
      BY <1>0, OperationsKeepSound DEF Sound
    <3>2. b.durable = conn.durable /\ Uncommitted(b) = {}
      BY <1>0, BeginHolds
    <3> HIDE DEF b
    <3>3. Sound(w, Calls, spCounter, wrote \cup {h}) /\ w \in Connections(Calls)
      BY <1>0, <3>1, OperationsKeepSound DEF Sound
    <3>4. w.durable = b.durable /\ Uncommitted(w) = Uncommitted(b) \cup {h}
      <4>1. Ordered(b) /\ Apart(b) /\ h \notin Uncommitted(b)
        BY <1>0, <3>1, <3>2 DEF Sound
      <4>2. AddsRow(b, w, h)
        BY <3>1, <4>1, WriteHolds
      <4> HIDE DEF w
      <4>3. QED
        BY <4>2 DEF AddsRow
    <3>5. /\ conn' = Commit(w) /\ wrote' = wrote \cup {h} /\ SyncItem(h, ph, "ok")
          /\ lockedOut' = lockedOut
      BY <2>1 DEF BatchSucceeds, b, w
    <3> HIDE DEF w
    <3>6. Sound(conn', Calls, spCounter, wrote') /\ ~InTransaction(conn')
      BY <1>0, <3>3, <3>5, OperationsKeepSound
    <3>7. conn'.durable = conn.durable \cup {h}
      BY <3>2, <3>4, <3>5 DEF Commit, Visible
    <3>8. ItemEnds(h, ph, "ok")
      BY <3>5, <3>6, <3>7 DEF ItemEnds, SyncItem
    <3>9. QED
      BY <3>5, <3>8 DEF ItemStarts
  <2>2. CASE BatchFails(h, ph)
    <3>1. /\ conn' = Rollback(conn) /\ wrote' = wrote /\ SyncItem(h, ph, "error")
          /\ lockedOut' \subseteq lockedOut \cup {h}
      BY <2>2 DEF BatchFails, WrappedError
    <3>2. Sound(conn', Calls, spCounter, wrote') /\ ~InTransaction(conn')
      BY <1>0, <3>1, OperationsKeepSound
    <3>3. conn'.durable = conn.durable
      BY <1>0, <3>1, RollbackHolds
    <3>4. ItemEnds(h, ph, "error")
      BY <3>1, <3>2, <3>3 DEF ItemEnds, SyncItem
    <3>5. QED
      BY <2>0, <3>1, <3>4 DEF ItemStarts
  <2>3. QED
    BY <1>2, <2>1, <2>2 DEF StartBatch
<1>3. CASE StartExec(h, ph)
  <2>0. h \in ExecCalls
    BY <1>3 DEF StartExec
  <2>1. PICK r \in {"ok", "error"} : SyncItem(h, ph, r)
    BY <1>3 DEF StartExec, WrappedError
  <2>2. lockedOut' \subseteq lockedOut \cup {h}
    BY <1>3 DEF StartExec, WrappedError
  <2>3. CASE conn' = WriteRow(conn, h) /\ wrote' = wrote \cup {h}
    <3>1. /\ Sound(conn', Calls, spCounter, wrote')
          /\ InTransaction(conn') <=> InTransaction(conn)
      BY <1>0, <2>3, OperationsKeepSound
    <3>2. ~InTransaction(conn) => conn'.durable = conn.durable \cup {h}
      BY <1>0, <2>3 DEF WriteRow, Connections
    <3>3. ItemEnds(h, ph, r)
      BY <2>0, <2>1, <2>3, <3>1, <3>2 DEF ItemEnds, SyncItem
    <3>4. QED
      BY <2>0, <2>2, <3>3 DEF ItemStarts
  <2>4. CASE conn' = conn /\ wrote' = wrote
    <3>1. ItemEnds(h, ph, r)
      BY <1>0, <2>1, <2>4 DEF ItemEnds, SyncItem
    <3>2. QED
      BY <2>0, <2>2, <3>1 DEF ItemStarts
  <2>5. QED
    BY <1>3, <2>3, <2>4 DEF StartExec
<1>4. CASE StartVacuum(h, ph)
  <2>1. PICK r \in {"ok", "error", "busy"} : SyncItem(h, ph, r)
    BY <1>4 DEF StartVacuum, Failures
  <2>2. conn' = conn /\ wrote' = wrote /\ lockedOut' = lockedOut /\ h \in VacuumCalls
    BY <1>4 DEF StartVacuum
  <2>3. ItemEnds(h, ph, r)
    BY <1>0, <2>1, <2>2 DEF ItemEnds, SyncItem
  <2>4. QED
    BY <2>2, <2>3 DEF ItemStarts
<1>5. QED
  BY <1>1, <1>2, <1>3, <1>4 DEF StartDbItem

\* What the loop head of #process leaves, whatever the queue has at its head.
LEMMA StartNextDbItemHolds ==
  ASSUME BaseInv, NEW ph, Between(ph), StillQueued(ph), StartNextDbItem(ph), Q!LoopHead
  PROVE  ManagerInv'
<1>1. CASE items = <<>>
  <2>1. /\ phase' = ph /\ UNCHANGED <<txProcessing, txDepth, conn, wrote, result>>
        /\ current' = NoOp
    BY <1>1 DEF StartNextDbItem, Q!LoopHead, Q!TakeNextItem, Q!FinishProcessing
  <2>2. QED
    BY <2>1, NothingStartsHolds
<1>2. CASE items # <<>>
  <2> DEFINE h == Head(items)
  <2>1. h \in Calls /\ phase[h] = "queued" /\ ph[h] = "queued"
    BY <1>2, HeadIsQueued DEF Between
  <2>2. StartDbItem(h, ph) /\ current' = h
    BY <1>2 DEF StartNextDbItem, Q!LoopHead, Q!TakeNextItem, Q!FinishProcessing
  <2> HIDE DEF h
  <2>3. CASE TransactionBegins(h, ph) /\ wrote' = wrote
    BY <2>1, <2>2, <2>3, TransactionBeginsHolds
  <2>4. ASSUME NEW r \in {"ok", "error", "busy"}, ItemEnds(h, ph, r) PROVE ManagerInv'
    <3>1. /\ phase' = [ph EXCEPT ![h] = "unwound"] /\ result' = [result EXCEPT ![h] = r]
          /\ UNCHANGED <<txProcessing, txDepth>>
          /\ Sound(conn', Calls, spCounter, wrote')
          /\ InTransaction(conn') => InTransaction(conn)
          /\ wrote' = wrote \/ wrote' = wrote \cup {h}
      BY <2>4 DEF ItemEnds
    <3>2. QED
      BY <2>1, <2>2, <3>1, SyncItemHolds
  <2>5. QED
    BY <2>1, <2>2, <2>3, <2>4, ItemRuns DEF ItemStarts
<1>3. QED
  BY <1>1, <1>2

LEMMA EnterDbProcessHolds ==
  ASSUME BaseInv, EnterDbProcess
  PROVE  BaseInv'
<1>1. /\ Q!EnterProcess /\ StartNextDbItem(phase)
      /\ UNCHANGED <<spCounter, parent, savepoint, inside, failed>>
  BY DEF EnterDbProcess
<1>2. QP!IInv' /\ Between(phase) /\ StillQueued(phase) /\ Q!LoopHead
  BY <1>1, EnterIsBetween
<1>3. ManagerInv'
  BY <1>1, <1>2, StartNextDbItemHolds
<1>4. QED
  BY <1>2, <1>3 DEF BaseInv

LEMMA SettleDbItemParts ==
  ASSUME BaseInv, SettleDbItem
  PROVE  /\ current \in Calls /\ phase[current] = "unwound"
         /\ QP!IInv' /\ Q!LoopHead
         /\ Between([phase EXCEPT ![current] = "done"])
         /\ StillQueued([phase EXCEPT ![current] = "done"])
         /\ StartNextDbItem([phase EXCEPT ![current] = "done"])
<1>1. /\ current # NoOp /\ phase[current] = "unwound"
      /\ Q!Settle(IF result[current] = "ok" THEN "resolved" ELSE "rejected")
      /\ StartNextDbItem([phase EXCEPT ![current] = "done"])
      /\ UNCHANGED <<spCounter, parent, savepoint, inside, failed>>
  BY DEF SettleDbItem
<1>2. /\ QP!IInv' /\ Q!LoopHead /\ current \in Calls
      /\ Between([phase EXCEPT ![current] = "done"])
      /\ StillQueued([phase EXCEPT ![current] = "done"])
  BY <1>1, SettleIsBetween
<1>3. QED
  BY <1>1, <1>2

LEMMA SettleDbItemHolds ==
  ASSUME BaseInv, SettleDbItem
  PROVE  BaseInv'
<1> DEFINE ph == [phase EXCEPT ![current] = "done"]
<1>1. QP!IInv' /\ Q!LoopHead /\ Between(ph) /\ StillQueued(ph) /\ StartNextDbItem(ph)
  BY SettleDbItemParts
<1> HIDE DEF ph
<1>2. ManagerInv'
  BY <1>1, StartNextDbItemHolds
<1>3. QED
  BY <1>1, <1>2 DEF BaseInv

-----------------------------------------------------------------------------
(* close() *)

\* The calls that clearPending rejects: those that wait in the queue.
Waiting == {c \in Calls : \E i \in DOMAIN items : items[i] = c}

LEMMA WaitingIsQueued ==
  ASSUME BaseInv
  PROVE  \A c \in Calls : c \in Waiting <=> phase[c] = "queued"
<1>1. /\ AnswersPending /\ CurrentIsStarted
      /\ \A c \in Calls : outcome[c] = "pending" <=> (c = current \/ c \in QP!Range(items))
      /\ current \notin QP!Range(items)
  BY DEF BaseInv, ManagerInv, QP!IInv, QP!HeldExactlyOnce, QP!Pending
<1>2. \A c \in Calls : c \in Waiting <=> c \in QP!Range(items)
  BY DEF Waiting, QP!Range, Range
<1>3. QED
  BY <1>1, <1>2 DEF AnswersPending, CurrentIsStarted

\* Closing the queue, clearing it and the first segment of drain, together.
LEMMA BeginCloseQueue ==
  ASSUME BaseInv, BeginClose
  PROVE  QP!IInv'
<1>0. /\ QP!TypeOK /\ QP!OneProcessLoop /\ QP!HeldExactlyOnce
      /\ items' = <<>> /\ closed' = TRUE
      /\ outcome' = [c \in Calls |-> IF c \in Waiting THEN "cleared" ELSE outcome[c]]
      /\ draining' = processing
      /\ drainer' = [d \in Drainers |-> IF processing THEN "waiting" ELSE "resolved"]
      /\ owed' = [d \in Drainers |-> {c \in Calls : outcome'[c] = "pending"}]
      /\ UNCHANGED <<processing, scheduled, current>>
  BY DEF BaseInv, QP!IInv, BeginClose, RejectWaiting, AwaitDrain, Waiting
<1>1. \A c \in Calls : outcome'[c] = "pending" <=> c = current
  <2>1. \A c \in Calls : c \in Waiting <=> c \in QP!Range(items)
    BY DEF Waiting, QP!Range, Range
  <2>2. QED
    BY <1>0, <2>1 DEF QP!HeldExactlyOnce, QP!Pending
<1>2. QP!TypeOK'
  <2>1. items' \in Seq(Calls)
    BY <1>0, EmptyHolds
  <2>2. outcome' \in [Calls -> QP!Outcomes]
    BY <1>0 DEF QP!TypeOK, QP!Outcomes
  <2>3. /\ drainer' \in [Drainers -> {"idle", "waiting", "resolved"}]
        /\ owed' \in [Drainers -> SUBSET Calls]
    BY <1>0
  <2>4. QED
    BY <1>0, <2>1, <2>2, <2>3 DEF QP!TypeOK
<1>3. QP!OneProcessLoop'
  <2>1. \A d \in Drainers : drainer'[d] = "waiting" => processing /\ draining'
    BY <1>0
  <2>2. QED
    BY <1>0, <2>1 DEF QP!OneProcessLoop
<1>4. QP!Range(items') = {} /\ DOMAIN items' = {}
  BY <1>0 DEF QP!Range, Range
<1>5. QP!HeldExactlyOnce'
  BY <1>0, <1>1, <1>4 DEF QP!HeldExactlyOnce, QP!Pending
<1>6. QP!OwedIsPending' /\ QP!DrainMeansSettled'
  <2>1. QP!OwedIsPending'
    BY <1>0 DEF QP!OwedIsPending, QP!Pending
  <2>2. ASSUME NEW d \in Drainers, drainer'[d] = "resolved" PROVE owed'[d] = {}
    <3>1. ~processing
      BY <1>0, <2>2
    <3>2. current = NoOp
      BY <1>0, <3>1 DEF QP!OneProcessLoop
    <3>3. QED
      BY <1>0, <1>1, <3>2, TMAssumption
  <2>3. QED
    BY <2>1, <2>2 DEF QP!DrainMeansSettled
<1>7. QED
  BY <1>2, <1>3, <1>5, <1>6 DEF QP!IInv

LEMMA BeginCloseHolds ==
  ASSUME BaseInv, BeginClose
  PROVE  BaseInv'
<1>0. FieldTypes /\ CurrentIsStarted /\ AnswersPending /\ ConnectionFollows
  BY DEF BaseInv, ManagerInv
<1>1. /\ phase' = [c \in Calls |-> IF c \in Waiting THEN "done" ELSE phase[c]]
      /\ result' = [c \in Calls |-> IF c \in Waiting THEN "error" ELSE result[c]]
      /\ outcome' = [c \in Calls |-> IF c \in Waiting THEN "cleared" ELSE outcome[c]]
      /\ UNCHANGED <<txProcessing, txDepth, spCounter, savepoint, failed>>
      /\ UNCHANGED <<current, conn, parent, wrote, inside>>
  BY DEF BeginClose, RejectWaiting, Waiting, managerVars
<1>2. HistoryTypes'
  BY <1>0, <1>1 DEF HistoryTypes, FieldTypes
<1>3. Waiting \in SUBSET Calls /\ \A c \in Waiting : phase[c] \in Unstarted
  <2>1. Waiting \in SUBSET Calls
    BY DEF Waiting
  <2>2. QED
    BY <2>1, WaitingIsQueued DEF Unstarted
<1>4. \A c \in Calls : outcome'[c] = "pending" <=> (outcome[c] = "pending" /\ c \notin Waiting)
  BY <1>1
<1>5. Sound(conn', Calls, spCounter, wrote')
  BY <1>0, <1>1 DEF ConnectionFollows
<1>6. QP!IInv'
  BY BeginCloseQueue
<1>7. QED
  BY <1>1, <1>2, <1>3, <1>4, <1>5, <1>6, AnsweredHolds

\* When drain has returned nothing is in execution and no callback is open.
LEMMA DrainedIsQuiet ==
  ASSUME BaseInv, CloserInv, NEW d \in Drainers, drainer[d] = "resolved"
  PROVE  /\ closed /\ items = <<>> /\ ~processing /\ current = NoOp /\ ~scheduled
         /\ ~SomeOpen /\ ~txProcessing
         /\ \A c \in Calls : phase[c] \notin {"queued", "open", "unwound"}
<1>1. closed /\ items = <<>> /\ ~processing
  BY DEF CloserInv
<1>2. current = NoOp /\ ~scheduled
  BY <1>1 DEF BaseInv, QP!IInv, QP!OneProcessLoop
<1>3. \A c \in Calls : phase[c] \notin {"open", "unwound"}
  BY <1>2, TMAssumption DEF BaseInv, ManagerInv, CurrentIsStarted
<1>4. ~SomeOpen /\ ~txProcessing
  BY <1>3 DEF SomeOpen, BaseInv, ManagerInv, ManagerKnows
<1>5. \A c \in Calls : phase[c] # "queued"
  <2>1. Waiting = {}
    BY <1>1 DEF Waiting
  <2>2. QED
    BY <2>1, WaitingIsQueued
<1>6. QED
  BY <1>1, <1>2, <1>3, <1>4, <1>5

LEMMA CloseConnectionHolds ==
  ASSUME BaseInv, CloserInv, CloseConnection
  PROVE  BaseInv'
<1> USE DEF BaseInv, ManagerInv
<1>0. /\ FieldTypes /\ conn' = Rollback(conn) /\ "closer" \in Drainers
      /\ \A d \in Drainers : drainer[d] = "resolved"
      /\ UNCHANGED <<txProcessing, txDepth, spCounter, savepoint, failed>>
      /\ UNCHANGED queueVars
      /\ UNCHANGED <<phase, parent, wrote, result, inside>>
  BY DbAssumption DEF CloseConnection, managerVars
<1>1. QP!IInv'
  BY <1>0, TMAssumption, QP!StutterPreserves DEF queueVars, QP!vars
<1>2. (FieldTypes /\ AnswersPending /\ CurrentIsStarted)'
  BY <1>0 DEF FieldTypes, AnswersPending, CurrentIsStarted, queueVars
<1>3. ~SomeOpen /\ ~SomeOpen'
  <2>1. ~SomeOpen
    BY <1>0, DrainedIsQuiet
  <2>2. QED
    BY <1>0, <2>1 DEF SomeOpen
<1>4. ManagerKnows'
  BY <1>0, <1>3 DEF ManagerKnows
<1>5. ConnectionFollows'
  <2>1. Sound(conn, Calls, spCounter, wrote) /\ spCounter \in Nat
    BY <1>0 DEF ConnectionFollows, FieldTypes
  <2>2. Sound(conn', Calls, spCounter, wrote) /\ ~InTransaction(conn')
    BY <1>0, <2>1, OperationsKeepSound
  <2>3. QED
    BY <1>0, <1>3, <2>2 DEF ConnectionFollows
<1>6. (SavepointsNamed /\ AnswersDecided /\ WritersStarted)'
  BY <1>0 DEF SavepointsNamed, AnswersDecided, WritersStarted
<1>7. QED
  BY <1>1, <1>2, <1>4, <1>5, <1>6

LEMMA DbBaseStep ==
  ASSUME BaseInv, CloserInv, [DbNext]_dbVars
  PROVE  BaseInv'
<1>1. ASSUME NEW c \in Calls, NEW p \in Calls \cup {NoOp},
             Refuse(c, p) \/ CallTransaction(c, p) \/ CallRun(c, p)
      PROVE  BaseInv'
  <2>1. CASE CallTransaction(c, p)
    <3>1. Next
      BY <2>1 DEF CallTransaction, Next
    <3>2. QED
      BY <3>1, BaseStep
  <2>2. QED
    BY <1>1, <2>1, RefuseHolds, CallRunHolds
<1>2. ASSUME NEW c \in Calls, CallItem(c) \/ CallAgain(c) \/ DbWrite(c) \/ DbCallbackEnds(c)
      PROVE  BaseInv'
  <2>1. DbWrite(c) => Write(c)
    BY DEF DbWrite
  <2>2. DbCallbackEnds(c) => CallbackEnds(c)
    BY DEF DbCallbackEnds
  <2>3. QED
    BY <1>2, <2>1, <2>2, CallItemHolds, CallAgainHolds, WriteKeepsBase, CallbackEndsHolds
<1>3. CASE EnterDbProcess
  BY <1>3, EnterDbProcessHolds
<1>4. CASE SettleDbItem
  BY <1>4, SettleDbItemHolds
<1>5. CASE BeginClose
  BY <1>5, BeginCloseHolds
<1>6. CASE CloseConnection
  BY <1>6, CloseConnectionHolds
<1>7. CASE UNCHANGED dbVars
  BY <1>7, UnchangedHolds DEF dbVars
<1>8. QED
  BY <1>1, <1>2, <1>3, <1>4, <1>5, <1>6, <1>7 DEF DbNext

-----------------------------------------------------------------------------
(* The facade's own invariant is kept *)

\* Only the callback of a transaction makes calls.
LEMMA CallerIsTransaction ==
  ASSUME BaseInv, CallsTyped, NEW c \in Calls, NEW p \in Calls \cup {NoOp},
         p # NoOp => Runs(p), MadeBy(c, p)
  PROVE  /\ \A d \in Calls : parent'[d] \in TxCalls \cup {NoOp}
         /\ \A d \in Calls : d # c => inside'[d] = inside[d]
<1>1. p \in TxCalls \cup {NoOp}
  BY DEF CallsTyped, Runs
<1>2. FieldTypes
  BY DEF BaseInv, ManagerInv
<1>3. QED
  BY <1>1, <1>2 DEF CallsTyped, MadeBy, FieldTypes

\* While the database is closed nothing is in execution, nothing is queued and no
\* callback of a queued call is open; before close() no drain has been asked for.
LEMMA ClosedDatabase ==
  ASSUME BaseInv, CloserInv
  PROVE  /\ ~dbOpen => closed /\ ~scheduled /\ current = NoOp /\ ~txProcessing
         /\ ~closed => dbOpen /\ \A d \in Drainers : drainer[d] = "idle"
<1>1. "closer" \in Drainers
  BY DbAssumption
<1>2. ASSUME ~dbOpen PROVE closed /\ ~scheduled /\ current = NoOp /\ ~txProcessing
  BY <1>1, <1>2, DrainedIsQuiet DEF CloserInv
<1>3. ASSUME ~closed PROVE dbOpen /\ \A d \in Drainers : drainer[d] = "idle"
  BY <1>2, <1>3 DEF CloserInv
<1>4. QED
  BY <1>2, <1>3

\* No result changes that says which lock was met, and a call that is made now is a
\* first attempt.
LEMMA OrderIsKept ==
  ASSUME AttemptsInOrder, \A e \in Calls : result[e] = "busy" => result'[e] = "busy",
         \A e \in Calls : phase'[e] = "idle" \/ phase[e] # "idle" \/ IsFirst(e)
  PROVE  AttemptsInOrder'
<1>1. ASSUME NEW d \in Calls, phase'[d] # "idle", NEW e \in Earlier(d) PROVE result'[e] = "busy"
  <2>1. Earlier(d) # {} /\ e \in Calls
    BY <1>1 DEF Earlier
  <2>2. phase[d] # "idle"
    BY <1>1, <2>1, FirstHasNoEarlier
  <2>3. QED
    BY <1>1, <2>1, <2>2 DEF AttemptsInOrder
<1>2. \A d \in Calls : Earlier(d)' = Earlier(d)
  BY DEF Earlier
<1>3. QED
  BY <1>1, <1>2 DEF AttemptsInOrder

LEMMA RefuseKeepsFacade ==
  ASSUME DbInv, NEW c \in Calls, NEW p \in Calls \cup {NoOp}, Refuse(c, p)
  PROVE  FacadeInv'
<1> USE DEF DbInv, FacadeInv
<1>0. /\ phase[c] = "idle" /\ (p # NoOp => Runs(p)) /\ MadeBy(c, p) /\ FieldTypes
      /\ IsFirst(c) /\ result[c] = "none"
      /\ phase' = [phase EXCEPT ![c] = "done"] /\ result' = [result EXCEPT ![c] = "error"]
      /\ UNCHANGED <<queueVars, conn, wrote, dbOpen, lockedOut>>
  BY DEF Refuse, MayAct, facadeVars, BaseInv, ManagerInv, AnswersDecided
<1>1. CallsTyped'
  BY <1>0, CallerIsTransaction DEF CallsTyped, InCallback, FieldTypes
<1>2. CloserInv'
  BY <1>0 DEF CloserInv, queueVars
<1>3. LocksInv'
  <2>1. AttemptsInOrder'
    BY <1>0, OrderIsKept DEF LocksInv, FieldTypes
  <2>2. BusyKinds'
    BY <1>0 DEF LocksInv, BusyKinds, FieldTypes, MadeBy
  <2>3. QED
    BY <2>1, <2>2 DEF LocksInv
<1>4. ExecIsAlone'
  <2>1. c \notin wrote
    BY <1>0 DEF BaseInv, ManagerInv, WritersStarted, Unstarted
  <2>2. QED
    BY <1>0, <2>1, CallerIsTransaction, CallKinds DEF ExecIsAlone, FieldTypes
<1>5. QED
  BY <1>1, <1>2, <1>3, <1>4

LEMMA CallTransactionKeepsFacade ==
  ASSUME DbInv, NEW c \in Calls, NEW p \in Calls \cup {NoOp}, CallTransaction(c, p)
  PROVE  FacadeInv'
<1> USE DEF DbInv, FacadeInv
<1>0. /\ phase[c] = "idle" /\ (p # NoOp => Runs(p)) /\ MadeBy(c, p) /\ FieldTypes
      /\ c \in TxCalls /\ c \notin ExecCalls /\ ~closed /\ IsFirst(c)
      /\ UNCHANGED <<wrote, result, dbOpen, lockedOut>>
  BY CallKinds DEF CallTransaction, Call, MayAct, facadeVars, BaseInv, ManagerInv
<1>1. \E x \in {"nested", "queued"} : phase' = [phase EXCEPT ![c] = x]
  BY DEF CallTransaction, Call, NestedCall, QueuedCall
<1>2. CallsTyped'
  BY <1>0, <1>1, CallerIsTransaction DEF CallsTyped, InCallback, FieldTypes
<1>3. CloserInv'
  <2>1. closed' = closed /\ drainer' = drainer /\ dbOpen
    BY <1>0, ClosedDatabase DEF CallTransaction, Call, NestedCall, QueuedCall, queueVars,
                                Q!EnqueueAccepted
  <2>2. QED
    BY <1>0, <2>1, ClosedDatabase DEF CloserInv
<1>4. LocksInv'
  <2>1. AttemptsInOrder'
    BY <1>0, <1>1, OrderIsKept DEF LocksInv, FieldTypes
  <2>2. BusyKinds'
    BY <1>0, <1>1 DEF LocksInv, BusyKinds, FieldTypes, MadeBy
  <2>3. QED
    BY <2>1, <2>2 DEF LocksInv
<1>5. ExecIsAlone'
  BY <1>0, <1>1, CallerIsTransaction, CallKinds DEF ExecIsAlone, FieldTypes
<1>6. QED
  BY <1>2, <1>3, <1>4, <1>5

LEMMA CallRunKeepsFacade ==
  ASSUME DbInv, NEW c \in Calls, NEW p \in Calls \cup {NoOp}, CallRun(c, p)
  PROVE  FacadeInv'
<1> USE DEF DbInv, FacadeInv
<1>0. /\ phase[c] = "idle" /\ (p # NoOp => Runs(p)) /\ MadeBy(c, p) /\ FieldTypes
      /\ c \notin ExecCalls /\ ~closed /\ wrote' = wrote \cup {c}
      /\ IsFirst(c) /\ result[c] = "none"
      /\ phase' = [phase EXCEPT ![c] = "done"] /\ result' = [result EXCEPT ![c] = "ok"]
      /\ UNCHANGED <<queueVars, dbOpen, lockedOut>>
  BY CallKinds DEF CallRun, MayAct, facadeVars, BaseInv, ManagerInv, AnswersDecided
<1>1. CallsTyped'
  BY <1>0, CallerIsTransaction DEF CallsTyped, InCallback, FieldTypes
<1>2. CloserInv'
  BY <1>0, ClosedDatabase DEF CloserInv, queueVars
<1>3. LocksInv'
  <2>1. AttemptsInOrder'
    BY <1>0, OrderIsKept DEF LocksInv, FieldTypes
  <2>2. BusyKinds'
    BY <1>0 DEF LocksInv, BusyKinds, FieldTypes, MadeBy
  <2>3. QED
    BY <2>1, <2>2 DEF LocksInv
<1>4. ExecIsAlone'
  BY <1>0, CallerIsTransaction, CallKinds DEF ExecIsAlone, FieldTypes
<1>5. QED
  BY <1>1, <1>2, <1>3, <1>4

LEMMA CallItemKeepsFacade ==
  ASSUME DbInv, NEW c \in Calls, CallItem(c)
  PROVE  FacadeInv'
<1> USE DEF DbInv, FacadeInv
<1>0. /\ phase[c] = "idle" /\ FieldTypes /\ ~closed /\ Q!EnqueueAccepted(c)
      /\ IsFirst(c) /\ phase' = [phase EXCEPT ![c] = "queued"]
      /\ UNCHANGED <<parent, inside, wrote, result, conn, dbOpen, lockedOut>>
  BY DEF CallItem, facadeVars, BaseInv, ManagerInv
<1>1. CallsTyped'
  BY <1>0 DEF CallsTyped, InCallback, FieldTypes
<1>2. CloserInv'
  BY <1>0, ClosedDatabase DEF CloserInv, Q!EnqueueAccepted
<1>3. LocksInv'
  <2>1. AttemptsInOrder'
    BY <1>0, OrderIsKept DEF LocksInv, FieldTypes
  <2>2. BusyKinds'
    BY <1>0 DEF LocksInv, BusyKinds, FieldTypes
  <2>3. QED
    BY <2>1, <2>2 DEF LocksInv
<1>4. ExecIsAlone'
  BY <1>0, CallKinds DEF ExecIsAlone, FieldTypes
<1>5. QED
  BY <1>1, <1>2, <1>3, <1>4

\* What an attempt that follows another does first.
LEMMA AttemptAgainCases ==
  ASSUME NEW d \in Calls, NEW p, AttemptAgain(d, p)
  PROVE  \/ d \in TxCalls /\ NestedCall(d, p) /\ result' = result
         \/ /\ ~closed /\ Q!EnqueueAccepted(d) /\ phase' = [phase EXCEPT ![d] = "queued"]
            /\ d \in TxCalls => ~(txProcessing /\ txDepth > 0)
            /\ UNCHANGED <<txProcessing, txDepth, spCounter, conn, savepoint, result>>
         \/ /\ Q!EnqueueRefused(d) /\ phase' = [phase EXCEPT ![d] = "done"]
            /\ d \in TxCalls => ~(txProcessing /\ txDepth > 0)
            /\ result' = [result EXCEPT ![d] = "error"]
            /\ UNCHANGED <<txProcessing, txDepth, spCounter, conn, savepoint>>
BY DEF AttemptAgain, QueuedCall, Q!EnqueueAccepted

LEMMA CallAgainKeepsFacade ==
  ASSUME DbInv, NEW c \in Calls, CallAgain(c)
  PROVE  FacadeInv'
<1> USE DEF DbInv, FacadeInv
<1> DEFINE d == Again(c)
           p == parent[c]
<1>0. /\ d \in Calls /\ phase[d] = "idle" /\ result[c] = "busy" /\ Earlier(d) = Earlier(c) \cup {c}
      /\ d \in TxCalls <=> c \in TxCalls
      /\ phase[c] = "done" /\ (p # NoOp => Runs(p)) /\ MadeBy(d, p) /\ AttemptAgain(d, p)
      /\ UNCHANGED <<wrote, dbOpen, lockedOut>>
  BY NextAttempt DEF CallAgain, facadeVars
<1>1. FieldTypes /\ p \in Calls \cup {NoOp} /\ result[d] = "none" /\ d \notin wrote
  BY <1>0 DEF BaseInv, ManagerInv, FieldTypes, AnswersDecided, WritersStarted, Unstarted
<1>2. d \notin TxCalls => d \notin ExecCalls /\ p = NoOp
  <2>1. ASSUME d \notin TxCalls PROVE c \in VacuumCalls /\ p = NoOp
    BY <1>0, <2>1 DEF LocksInv, BusyKinds
  <2>2. d \in VacuumCalls <=> c \in VacuumCalls
    BY NextAttempt DEF CallAgain
  <2>3. QED
    BY <2>1, <2>2, CallKinds
<1>3. d \notin ExecCalls
  BY <1>2, CallKinds
<1> HIDE DEF d, p
<1>4. /\ \/ \E x \in {"queued", "done"} : phase' = [phase EXCEPT ![d] = x]
         \/ phase' = [phase EXCEPT ![d] = "nested"] /\ d \in TxCalls
      /\ result' = result \/ result' = [result EXCEPT ![d] = "error"]
  BY <1>0, AttemptAgainCases DEF NestedCall
<1>5. CallsTyped'
  BY <1>0, <1>1, <1>4, CallerIsTransaction DEF CallsTyped, InCallback, FieldTypes
<1>6. CloserInv'
  <2>1. CASE NestedCall(d, p)
    BY <1>0, <2>1, ClosedDatabase DEF CloserInv, NestedCall, queueVars
  <2>2. CASE Q!EnqueueAccepted(d)
    BY <1>0, <2>2, ClosedDatabase DEF CloserInv, Q!EnqueueAccepted
  <2>3. CASE Q!EnqueueRefused(d) /\ conn' = conn
    BY <1>0, <2>3 DEF CloserInv, Q!EnqueueRefused
  <2>4. QED
    BY <1>0, <2>1, <2>2, <2>3, AttemptAgainCases
<1>7. LocksInv'
  <2>1. AttemptsInOrder'
    <3>1. ASSUME NEW f \in Calls, phase'[f] # "idle", NEW e \in Earlier(f)
          PROVE  result'[e] = "busy"
      <4>1. e \in Calls
        BY DEF Earlier
      <4>2. result[e] = "busy"
        <5>1. CASE f = d
          BY <1>0, <5>1 DEF LocksInv, AttemptsInOrder
        <5>2. CASE f # d
          BY <1>1, <1>4, <3>1, <5>2 DEF LocksInv, AttemptsInOrder, FieldTypes
        <5>3. QED
          BY <5>1, <5>2
      <4>3. QED
        BY <1>1, <1>4, <4>1, <4>2 DEF FieldTypes
    <3>2. \A f \in Calls : Earlier(f)' = Earlier(f)
      BY DEF Earlier
    <3>3. QED
      BY <3>1, <3>2 DEF AttemptsInOrder
  <2>2. BusyKinds'
    BY <1>0, <1>1, <1>2, <1>4 DEF LocksInv, BusyKinds, FieldTypes, MadeBy
  <2>3. QED
    BY <2>1, <2>2 DEF LocksInv
<1>8. ExecIsAlone'
  BY <1>0, <1>1, <1>3, <1>4, CallerIsTransaction, CallKinds DEF ExecIsAlone, FieldTypes
<1>9. QED
  BY <1>5, <1>6, <1>7, <1>8

\* What the loop head of #process does: it ends, or the first item starts.
LEMMA LoopHeadCases ==
  ASSUME BaseInv, NEW ph, Between(ph), StartNextDbItem(ph), Q!LoopHead
  PROVE  \/ /\ items = <<>> /\ items' = <<>> /\ current' = NoOp /\ ~processing'
            /\ phase' = ph /\ UNCHANGED <<txProcessing, txDepth, conn, wrote, result, lockedOut>>
         \/ /\ items # <<>> /\ drainer' = drainer /\ processing' = processing
            /\ \E h \in Calls :
                 /\ current' = h /\ phase[h] = "queued" /\ ph[h] = "queued" /\ ItemStarts(h, ph)
                 /\ lockedOut' \subseteq lockedOut \cup ({h} \cap (BatchCalls \cup ExecCalls))
<1>1. CASE items = <<>>
  <2>1. Q!FinishProcessing
    BY <1>1 DEF Q!LoopHead, Q!TakeNextItem
  <2>2. QED
    BY <1>1, <2>1 DEF Q!FinishProcessing, StartNextDbItem
<1>2. CASE items # <<>>
  <2>1. Q!TakeNextItem
    BY <1>2 DEF Q!LoopHead, Q!FinishProcessing
  <2> DEFINE h == Head(items)
  <2>2. /\ h \in Calls /\ phase[h] = "queued" /\ ph[h] = "queued" /\ StartDbItem(h, ph)
        /\ current' = h /\ drainer' = drainer /\ processing' = processing
    BY <1>2, <2>1, HeadIsQueued DEF Between, StartNextDbItem, Q!TakeNextItem
  <2> HIDE DEF h
  <2>3. /\ ItemStarts(h, ph)
        /\ lockedOut' \subseteq lockedOut \cup ({h} \cap (BatchCalls \cup ExecCalls))
    BY <2>2, ItemRuns
  <2>4. QED
    BY <1>2, <2>2, <2>3
<1>3. QED
  BY <1>1, <1>2

\* An item in execution writes its own row and no other.
LEMMA ItemStartsFields ==
  ASSUME BaseInv, NEW ph, Between(ph), NEW h \in Calls, ItemStarts(h, ph)
  PROVE  /\ \/ phase' = [ph EXCEPT ![h] = "open"] /\ h \in TxCalls /\ result' = result
            \/ /\ phase' = [ph EXCEPT ![h] = "unwound"]
               /\ result'[h] = "busy" => h \in TxCalls \cup VacuumCalls /\ wrote' = wrote
         /\ \A c \in Calls : c # h => result'[c] = result[c]
         /\ wrote \subseteq wrote' /\ wrote' \subseteq wrote \cup {h}
<1>0. FieldTypes
  BY DEF BaseInv, ManagerInv
<1>1. CASE TransactionBegins(h, ph) /\ wrote' = wrote /\ h \in TxCalls
  BY <1>1 DEF TransactionBegins
<1>2. ASSUME NEW r \in {"ok", "error", "busy"}, ItemEnds(h, ph, r),
             r = "busy" => h \in TxCalls \cup VacuumCalls /\ wrote' = wrote
      PROVE  /\ phase' = [ph EXCEPT ![h] = "unwound"]
             /\ result'[h] = "busy" => h \in TxCalls \cup VacuumCalls /\ wrote' = wrote
             /\ \A c \in Calls : c # h => result'[c] = result[c]
             /\ wrote \subseteq wrote' /\ wrote' \subseteq wrote \cup {h}
  BY <1>0, <1>2 DEF ItemEnds, FieldTypes
<1>3. QED
  BY <1>1, <1>2 DEF ItemStarts

LEMMA LoopHeadKeepsFacade ==
  ASSUME DbInv, NEW ph, Between(ph), StartNextDbItem(ph), Q!LoopHead,
         dbOpen, UNCHANGED <<closed, dbOpen>>
  PROVE  FacadeInv'
<1> USE DEF DbInv, FacadeInv
<1>0. /\ FieldTypes /\ UNCHANGED <<parent, inside>> /\ ph \in [Calls -> Phases]
      /\ \A c \in Calls : ph[c] \notin {"open", "unwound"}
      /\ \A c \in Calls : ph[c] = phase[c] \/ (phase[c] = "unwound" /\ ph[c] = "done")
  BY DEF BaseInv, ManagerInv, Between
<1>1. CASE /\ items = <<>> /\ items' = <<>> /\ current' = NoOp /\ ~processing'
           /\ phase' = ph /\ UNCHANGED <<txProcessing, txDepth, conn, wrote, result, lockedOut>>
  <2>1. CallsTyped'
    BY <1>0, <1>1 DEF CallsTyped, InCallback
  <2>2. CloserInv'
    <3>1. Q!FinishProcessing
      BY <1>1 DEF Q!LoopHead, Q!TakeNextItem
    <3>2. \A d \in Drainers : drainer'[d] # "idle" => drainer[d] # "idle"
      BY <3>1 DEF Q!FinishProcessing
    <3>3. QED
      BY <1>1, <3>2 DEF CloserInv
  <2>3. LocksInv'
    <3>1. AttemptsInOrder'
      BY <1>0, <1>1, OrderIsKept DEF LocksInv
    <3>2. BusyKinds'
      BY <1>0, <1>1 DEF LocksInv, BusyKinds
    <3>3. QED
      BY <3>1, <3>2 DEF LocksInv
  <2>4. ExecIsAlone'
    BY <1>0, <1>1, CallKinds DEF ExecIsAlone, BaseInv, ManagerInv, WritersStarted
  <2>5. QED
    BY <2>1, <2>2, <2>3, <2>4
<1>2. CASE items # <<>> /\ drainer' = drainer /\ processing' = processing
           /\ \E h \in Calls :
                /\ current' = h /\ phase[h] = "queued" /\ ph[h] = "queued" /\ ItemStarts(h, ph)
                /\ lockedOut' \subseteq lockedOut \cup ({h} \cap (BatchCalls \cup ExecCalls))
  <2>0. PICK h \in Calls :
                /\ phase[h] = "queued" /\ ph[h] = "queued" /\ ItemStarts(h, ph)
                /\ lockedOut' \subseteq lockedOut \cup ({h} \cap (BatchCalls \cup ExecCalls))
    BY <1>2
  <2>1. /\ \/ phase' = [ph EXCEPT ![h] = "open"] /\ h \in TxCalls /\ result' = result
           \/ /\ phase' = [ph EXCEPT ![h] = "unwound"]
              /\ result'[h] = "busy" => h \in TxCalls \cup VacuumCalls /\ wrote' = wrote
        /\ \A c \in Calls : c # h => result'[c] = result[c]
        /\ wrote \subseteq wrote' /\ wrote' \subseteq wrote \cup {h}
    BY <2>0, ItemStartsFields
  <2>2. CallsTyped'
    BY <1>0, <2>0, <2>1 DEF CallsTyped, InCallback
  <2>3. CloserInv'
    BY <1>2 DEF CloserInv
  <2>4. LocksInv'
    <3>1. result[h] = "none"
      BY <2>0 DEF BaseInv, ManagerInv, AnswersDecided
    <3>2. \A e \in Calls : result[e] = "busy" => result'[e] = "busy"
      BY <2>1, <3>1
    <3>3. \A e \in Calls : phase'[e] = "idle" \/ phase[e] # "idle" \/ IsFirst(e)
      BY <1>0, <2>0, <2>1
    <3>4. AttemptsInOrder'
      BY <3>2, <3>3, OrderIsKept DEF LocksInv
    <3>5. BusyKinds'
      BY <1>0, <2>0, <2>1, CallKinds DEF LocksInv, BusyKinds
    <3>6. QED
      BY <3>4, <3>5 DEF LocksInv
  <2>5. ExecIsAlone'
    <3>1. ASSUME NEW c \in ExecCalls, phase'[c] # "done" \/ c \in wrote'
          PROVE  phase[c] # "done" \/ c \in wrote
      BY <1>0, <2>0, <2>1, <3>1, CallKinds
    <3>2. QED
      BY <1>0, <3>1 DEF ExecIsAlone
  <2>6. QED
    BY <2>2, <2>3, <2>4, <2>5
<1>3. QED
  BY <1>1, <1>2, LoopHeadCases

LEMMA EnterKeepsFacade ==
  ASSUME DbInv, EnterDbProcess
  PROVE  FacadeInv'
<1>1. /\ Q!EnterProcess /\ StartNextDbItem(phase)
      /\ UNCHANGED <<spCounter, parent, savepoint, inside, failed, dbOpen>>
  BY DEF EnterDbProcess
<1>2. Between(phase) /\ Q!LoopHead /\ scheduled /\ closed' = closed
  BY <1>1, EnterIsBetween DEF Q!EnterProcess, DbInv
<1>3. dbOpen
  BY <1>2, ClosedDatabase DEF DbInv, FacadeInv
<1>4. QED
  BY <1>1, <1>2, <1>3, LoopHeadKeepsFacade

LEMMA SettleKeepsFacade ==
  ASSUME DbInv, SettleDbItem
  PROVE  FacadeInv'
<1> DEFINE ph == [phase EXCEPT ![current] = "done"]
<1>1. Q!LoopHead /\ Between(ph) /\ StartNextDbItem(ph)
  BY SettleDbItemParts DEF DbInv
<1>2. UNCHANGED <<closed, dbOpen>> /\ current # NoOp
  BY DEF SettleDbItem, Q!Settle
<1>3. dbOpen
  BY <1>2, ClosedDatabase DEF DbInv, FacadeInv
<1> HIDE DEF ph
<1>4. QED
  BY <1>1, <1>2, <1>3, LoopHeadKeepsFacade

LEMMA DbWriteKeepsFacade ==
  ASSUME DbInv, NEW c \in Calls, DbWrite(c)
  PROVE  FacadeInv'
<1> USE DEF DbInv, FacadeInv
<1>0. /\ InCallback(c) /\ dbOpen /\ wrote' = wrote \cup {c}
      /\ UNCHANGED <<queueVars, phase, parent, inside, result, dbOpen, lockedOut>>
  BY DEF DbWrite, Write, Runs, facadeVars
<1>1. (CallsTyped /\ CloserInv /\ LocksInv)'
  BY <1>0 DEF CallsTyped, CloserInv, LocksInv, AttemptsInOrder, Earlier, BusyKinds, queueVars,
              InCallback
<1>2. ExecIsAlone'
  BY <1>0 DEF ExecIsAlone, InCallback
<1>3. QED
  BY <1>1, <1>2

LEMMA CallbackEndKeepsFacade ==
  ASSUME DbInv, NEW c \in Calls, DbCallbackEnds(c)
  PROVE  FacadeInv'
<1> USE DEF DbInv, FacadeInv
<1>0. /\ FieldTypes /\ InCallback(c) /\ phase[c] \notin {"unwound", "done"}
      /\ \E x \in {"unwound", "done"} : phase' = [phase EXCEPT ![c] = x]
      /\ \E r \in {"ok", "error", "busy"} : result' = [result EXCEPT ![c] = r]
      /\ UNCHANGED <<queueVars, parent, inside, wrote, dbOpen, lockedOut>>
  BY DEF DbCallbackEnds, CallbackEnds, Commits, CommitFails, RollsBack, NestedReleases,
         NestedRollsBack, Finally, NestedEnds, Failures, CommitErrors, Runs, InCallback,
         facadeVars, BaseInv, ManagerInv
<1>1. CallsTyped'
  BY <1>0 DEF CallsTyped, InCallback, FieldTypes
<1>2. CloserInv'
  <2>1. ASSUME ~dbOpen PROVE conn' = conn
    <3>1. "closer" \in Drainers /\ conn.stack = <<>>
      BY <2>1, DbAssumption DEF CloserInv, InTransaction
    <3>2. phase[c] # "open"
      BY <2>1, <3>1, DrainedIsQuiet DEF CloserInv
    <3>3. ~HasSavepoint(conn, savepoint[c])
      BY <3>1 DEF HasSavepoint
    <3>4. QED
      BY <3>2, <3>3 DEF DbCallbackEnds, CallbackEnds, Commits, CommitFails, RollsBack,
                        NestedReleases, NestedRollsBack
  <2>2. QED
    BY <1>0, <2>1 DEF CloserInv, queueVars
<1>3. LocksInv'
  <2>1. result[c] = "none" /\ c \in TxCalls
    BY <1>0 DEF BaseInv, ManagerInv, AnswersDecided, CallsTyped
  <2>2. \A e \in Calls : phase'[e] = phase[e] \/ phase[e] # "idle"
    BY <1>0 DEF FieldTypes, InCallback
  <2>3. \A e \in Calls : result[e] = "busy" => result'[e] = "busy"
    BY <1>0, <2>1 DEF FieldTypes
  <2>4. AttemptsInOrder'
    BY <2>2, <2>3, OrderIsKept DEF LocksInv
  <2>5. BusyKinds'
    BY <1>0, <2>1 DEF LocksInv, BusyKinds, FieldTypes
  <2>6. QED
    BY <2>4, <2>5 DEF LocksInv
<1>4. ExecIsAlone'
  BY <1>0, CallKinds DEF ExecIsAlone, FieldTypes
<1>5. QED
  BY <1>1, <1>2, <1>3, <1>4

LEMMA BeginCloseKeepsFacade ==
  ASSUME DbInv, BeginClose
  PROVE  FacadeInv'
<1> USE DEF DbInv, FacadeInv
<1>0. /\ FieldTypes /\ ~closed /\ closed' = TRUE /\ items' = <<>>
      /\ drainer' = [d \in Drainers |-> IF processing THEN "waiting" ELSE "resolved"]
      /\ phase' = [c \in Calls |-> IF c \in Waiting THEN "done" ELSE phase[c]]
      /\ result' = [c \in Calls |-> IF c \in Waiting THEN "error" ELSE result[c]]
      /\ \A c \in Calls : c \in Waiting <=> phase[c] = "queued"
      /\ UNCHANGED <<processing, conn, parent, wrote, inside, dbOpen, lockedOut>>
  BY WaitingIsQueued DEF BeginClose, RejectWaiting, AwaitDrain, Waiting, facadeVars, BaseInv,
                         ManagerInv
<1>1. CallsTyped'
  BY <1>0 DEF CallsTyped, InCallback
<1>2. CloserInv'
  BY <1>0, ClosedDatabase DEF CloserInv
<1>3. LocksInv'
  <2>1. \A c \in Waiting : c \in Calls => result[c] = "none"
    BY <1>0 DEF BaseInv, ManagerInv, AnswersDecided
  <2>2. AttemptsInOrder'
    BY <1>0, <2>1, OrderIsKept DEF LocksInv
  <2>3. BusyKinds'
    BY <1>0 DEF LocksInv, BusyKinds
  <2>4. QED
    BY <2>2, <2>3 DEF LocksInv
<1>4. ExecIsAlone'
  BY <1>0, CallKinds DEF ExecIsAlone
<1>5. QED
  BY <1>1, <1>2, <1>3, <1>4

LEMMA CloseConnectionKeepsFacade ==
  ASSUME DbInv, CloseConnection
  PROVE  FacadeInv'
<1> USE DEF DbInv, FacadeInv
<1>0. /\ dbOpen' = FALSE /\ conn' = Rollback(conn) /\ conn \in Connections(Calls)
      /\ \A d \in Drainers : drainer[d] = "resolved"
      /\ UNCHANGED <<queueVars, phase, parent, wrote, result, inside, lockedOut>>
  BY DEF CloseConnection, BaseInv, ManagerInv, ConnectionFollows, Sound
<1>1. (CallsTyped /\ LocksInv /\ ExecIsAlone)'
  BY <1>0 DEF CallsTyped, LocksInv, AttemptsInOrder, Earlier, BusyKinds, ExecIsAlone, InCallback
<1>2. CloserInv'
  BY <1>0 DEF CloserInv, queueVars, Rollback, InTransaction, Connections
<1>3. QED
  BY <1>1, <1>2

LEMMA DbStep == DbInv /\ [DbNext]_dbVars => DbInv'
<1> SUFFICES ASSUME DbInv, [DbNext]_dbVars PROVE DbInv'
  OBVIOUS
<1>1. BaseInv'
  BY DbBaseStep DEF DbInv, FacadeInv
<1>2. CASE \E c \in Calls, p \in Calls \cup {NoOp} :
             Refuse(c, p) \/ CallTransaction(c, p) \/ CallRun(c, p)
  BY <1>1, <1>2, RefuseKeepsFacade, CallTransactionKeepsFacade, CallRunKeepsFacade DEF DbInv
<1>3. CASE \E c \in Calls : CallItem(c) \/ CallAgain(c) \/ DbWrite(c) \/ DbCallbackEnds(c)
  BY <1>1, <1>3, CallItemKeepsFacade, CallAgainKeepsFacade, DbWriteKeepsFacade,
     CallbackEndKeepsFacade DEF DbInv
<1>4. CASE EnterDbProcess \/ SettleDbItem
  BY <1>1, <1>4, EnterKeepsFacade, SettleKeepsFacade DEF DbInv
<1>5. CASE BeginClose \/ CloseConnection
  BY <1>1, <1>5, BeginCloseKeepsFacade, CloseConnectionKeepsFacade DEF DbInv
<1>6. CASE UNCHANGED dbVars
  <2>1. FacadeInv'
    BY <1>6 DEF DbInv, FacadeInv, CallsTyped, CloserInv, LocksInv, AttemptsInOrder, Earlier,
                BusyKinds, ExecIsAlone, InCallback, dbVars, vars, queueVars, facadeVars
  <2>2. QED
    BY <1>1, <2>1 DEF DbInv
<1>7. QED
  BY <1>2, <1>3, <1>4, <1>5, <1>6 DEF DbNext

\* The invariant, whatever the calls do and whoever makes them.
LEMMA DbAlways == DbSpec => []DbInv
<1>1. DbInv /\ [DbNext]_dbVars => DbInv'
  BY DbStep
<1>2. QED
  BY DbInitHolds, <1>1, PTL DEF DbSpec, DbSafety

-----------------------------------------------------------------------------
(* What holds whoever makes the calls *)

\* The fields of the facade, the queue, the manager and the connection always hold
\* values of their types: no call is attempted more often than the retry policy
\* says (retry-policy.ts), only the callback of a transaction makes calls, and
\* #depth never leaves 0 and 1 whatever item follows a transaction.
THEOREM DbTypeCorrect == DbSpec => []DbTypeOK
<1>1. DbInv => DbTypeOK
  <2> SUFFICES ASSUME DbInv PROVE DbTypeOK
    OBVIOUS
  <2>1. FieldTypes /\ ManagerKnows /\ CallsTyped /\ ConnectionFollows
    BY DEF DbInv, FacadeInv, BaseInv, ManagerInv
  <2>2. Q!TypeOK
    BY DEF DbInv, BaseInv, QP!IInv, QP!TypeOK, Q!TypeOK, Q!Outcomes, QP!Outcomes
  <2>3. Visible(conn) \subseteq Calls
    BY <2>1 DEF ConnectionFollows, Sound, FieldTypes
  <2>4. txDepth \in {0, 1}
    BY <2>1 DEF ManagerKnows
  <2>5. parent \in [Calls -> TxCalls \cup {NoOp}]
    BY <2>1 DEF FieldTypes, CallsTyped
  <2>6. QED
    BY <2>1, <2>2, <2>3, <2>4, <2>5 DEF DbTypeOK, FieldTypes, CallsTyped, Phases, Failures
<1>2. QED
  BY <1>1, DbAlways, PTL

\* A batch, an exec or a refused BEGIN never leaves the connection inside a
\* transaction, further attempts and close() never confuse the manager: what the theorem
\* NothingLeaks says of the manager alone holds in the whole database.
THEOREM DbNothingLeaks == DbSpec => []NoTransactionLeaks
<1>1. DbInv => NoTransactionLeaks
  <2> SUFFICES ASSUME DbInv PROVE NoTransactionLeaks
    OBVIOUS
  <2>1. CurrentIsStarted /\ ManagerKnows /\ ConnectionFollows
    BY DEF DbInv, BaseInv, ManagerInv
  <2>2. SomeOpen <=> {c \in Calls : phase[c] = "open"} # {}
    BY DEF SomeOpen
  <2>3. QED
    BY <2>1, <2>2 DEF NoTransactionLeaks, CurrentIsStarted, ManagerKnows, ConnectionFollows
<1>2. QED
  BY <1>1, DbAlways, PTL

\* Once close() has been called #process starts no item any more: clearPending has
\* emptied the queue and enqueue() refuses (bunql-close.ts, write-queue.ts).
THEOREM NothingStartsAfterClose == DbSpec => NoItemStartsAfterClose
<1>1. ASSUME DbInv, [DbNext]_dbVars, closed PROVE current' \in {current, NoOp}
  <2>0. items = <<>>
    BY <1>1 DEF DbInv, FacadeInv, CloserInv
  <2>1. CASE Q!LoopHead
    BY <2>0, <2>1 DEF Q!LoopHead, Q!TakeNextItem, Q!FinishProcessing
  <2>2. CASE EnterDbProcess \/ SettleDbItem
    BY <2>1, <2>2 DEF EnterDbProcess, SettleDbItem, Q!EnterProcess, Q!Settle
  <2>3. ASSUME NEW c \in Calls, NEW p \in Calls \cup {NoOp},
               Refuse(c, p) \/ CallTransaction(c, p) \/ CallRun(c, p)
        PROVE  current' = current
    BY <2>3 DEF Refuse, CallTransaction, CallRun, Call, NestedCall, QueuedCall, queueVars,
                Q!EnqueueAccepted
  <2>4. ASSUME NEW c \in Calls, CallItem(c) \/ CallAgain(c) \/ DbWrite(c) \/ DbCallbackEnds(c)
        PROVE  current' = current
    <3>1. CASE DbCallbackEnds(c)
      BY <3>1 DEF DbCallbackEnds, CallbackEnds, Commits, CommitFails, RollsBack,
                  NestedReleases, NestedRollsBack, Finally, NestedEnds, queueVars
    <3>2. CASE CallItem(c) \/ CallAgain(c) \/ DbWrite(c)
      BY <3>2 DEF CallItem, CallAgain, AttemptAgain, DbWrite, Write, NestedCall, QueuedCall,
                  queueVars, Q!EnqueueAccepted, Q!EnqueueRefused
    <3>3. QED
      BY <2>4, <3>1, <3>2
  <2>5. CASE BeginClose \/ CloseConnection \/ UNCHANGED dbVars
    BY <2>5 DEF BeginClose, CloseConnection, dbVars, vars, queueVars
  <2>6. QED
    BY <1>1, <2>2, <2>3, <2>4, <2>5 DEF DbNext
<1>2. DbInv /\ [DbNext]_dbVars => [closed => current' \in {current, NoOp}]_dbVars
  BY <1>1
<1>3. QED
  BY <1>2, DbAlways, PTL DEF DbSpec, DbSafety, NoItemStartsAfterClose

-----------------------------------------------------------------------------
(* An attempt that is tried again has left nothing behind, whoever calls *)

\* If the row is on the connection at all, it is in the frame nm or above it.
Above(cn, row, nm) ==
  \A i \in DOMAIN cn.stack : cn.stack[i].name = nm =>
    row \notin cn.durable /\ (row \in Uncommitted(cn) => row \in RowsFrom(cn, i))

\* What a callback in progress has written is undone with its own frame.
RowsAreAbove == \A a \in Calls : InCallback(a) => Above(conn, a, savepoint[a])

BusyLeavesNothing == \A c \in Calls : result[c] = "busy" => c \notin Visible(conn)

OnceInv == failed = {} => RowsAreAbove /\ BusyLeavesNothing

\* From cn to cn2 the rows that are above a frame stay above it.
KeepsAbove(cn, cn2, R, k) ==
  \A row \in R, nm \in 0..k : Above(cn, row, nm) => Above(cn2, row, nm)

\* SAVEPOINT with the next number.
LEMMA AboveSavepoint ==
  ASSUME NEW R, NEW k \in Nat, NEW W, NEW cn, Sound(cn, R, k, W), InTransaction(cn),
         NEW sp, sp = Savepoint(cn, k + 1)
  PROVE  Visible(sp) = Visible(cn) /\ KeepsAbove(cn, sp, R, k)
<1> DEFINE n == Len(cn.stack)
<1>1. /\ cn \in Connections(R) /\ Ordered(cn) /\ Apart(cn)
      /\ \A i \in DOMAIN cn.stack : cn.stack[i].name <= k
  BY DEF Sound, Numbered
<1>2. DOMAIN cn.stack = 1..n /\ n \in Nat /\ \A i \in 1..n : cn.stack[i].name \in Nat
  BY <1>1, StackFacts
<1>3. k + 1 \in Nat /\ \A i \in DOMAIN cn.stack : cn.stack[i].name < k + 1
  BY <1>1, <1>2
<1>4. sp \in Connections(R) /\ AddsFrame(cn, sp, k + 1)
  BY <1>1, <1>3, SavepointHolds
<1>5. DOMAIN sp.stack = 1..Len(sp.stack)
  BY <1>4, StackFacts
<1>6. /\ sp.durable = cn.durable /\ DOMAIN sp.stack = 1..(n + 1) /\ Uncommitted(sp) = Uncommitted(cn)
      /\ \A i \in 1..n : sp.stack[i].name = cn.stack[i].name /\ RowsFrom(sp, i) = RowsFrom(cn, i)
      /\ sp.stack[n + 1].name = k + 1
  BY <1>4, <1>5 DEF AddsFrame
<1>7. ASSUME NEW row \in R, NEW nm \in 0..k, Above(cn, row, nm)
      PROVE  Above(sp, row, nm)
  <2>1. \A i \in DOMAIN sp.stack : sp.stack[i].name = nm => i \in 1..n
    BY <1>2, <1>6
  <2>2. QED
    BY <1>2, <1>6, <1>7, <2>1 DEF Above
<1>8. Visible(sp) = Visible(cn)
  BY <1>6 DEF Visible
<1>9. QED
  BY <1>7, <1>8 DEF KeepsAbove

\* A statement inside a transaction.
LEMMA AboveWrite ==
  ASSUME NEW R, NEW k \in Nat, NEW W, NEW cn, Sound(cn, R, k, W), InTransaction(cn),
         NEW x \in R \ W, NEW w, w = WriteRow(cn, x)
  PROVE  Visible(w) = Visible(cn) \cup {x} /\ KeepsAbove(cn, w, R, k)
<1>1. cn \in Connections(R) /\ Ordered(cn) /\ Apart(cn) /\ x \notin Uncommitted(cn)
  BY DEF Sound, Visible
<1>2. DOMAIN cn.stack = 1..Len(cn.stack)
  BY <1>1, StackFacts
<1>3. w \in Connections(R) /\ AddsRow(cn, w, x)
  BY <1>1, WriteHolds
<1>4. DOMAIN w.stack = 1..Len(w.stack)
  BY <1>3, StackFacts
<1>5. /\ w.durable = cn.durable /\ DOMAIN w.stack = DOMAIN cn.stack
      /\ Uncommitted(w) = Uncommitted(cn) \cup {x}
      /\ \A i \in DOMAIN cn.stack : /\ w.stack[i].name = cn.stack[i].name
                                    /\ RowsFrom(w, i) = RowsFrom(cn, i) \cup {x}
  BY <1>2, <1>3, <1>4 DEF AddsRow
<1>6. KeepsAbove(cn, w, R, k)
  BY <1>5 DEF Above, KeepsAbove
<1>7. QED
  BY <1>5, <1>6 DEF Visible

\* RELEASE and ROLLBACK TO of the savepoint sv, whoever's the row is; ROLLBACK TO takes
\* the rows of its own frame away.
LEMMA AboveEnds ==
  ASSUME NEW R, NEW k \in Nat, NEW W, NEW cn, Sound(cn, R, k, W),
         NEW sv \in Nat \ {TxFrame}, HasSavepoint(cn, sv)
  PROVE  /\ Visible(Release(cn, sv)) = Visible(cn)
         /\ Visible(RollbackTo(cn, sv)) \subseteq Visible(cn)
         /\ KeepsAbove(cn, Release(cn, sv), R, k)
         /\ KeepsAbove(cn, RollbackTo(cn, sv), R, k)
         /\ \A row \in R : Above(cn, row, sv) => row \notin Visible(RollbackTo(cn, sv))
<1>1. cn \in Connections(R) /\ Ordered(cn) /\ Apart(cn)
  BY DEF Sound
<1>2. DOMAIN cn.stack = 1..Len(cn.stack) /\ Len(cn.stack) \in Nat
  BY <1>1, StackFacts
<1>3. PICK n \in 2..Len(cn.stack) : cn.stack[n].name = sv
  <2>1. PICK n \in DOMAIN cn.stack : cn.stack[n].name = sv
    BY DEF HasSavepoint
  <2>2. n # 1
    BY <1>1, <1>2, <2>1 DEF Ordered
  <2>3. QED
    BY <1>2, <2>1, <2>2
<1>4. n \in 1..Len(cn.stack) /\ n \in DOMAIN cn.stack
  BY <1>2
<1> DEFINE rl == Release(cn, sv)
           rb == RollbackTo(cn, sv)
<1>5. rl \in Connections(R) /\ MergesFrames(cn, rl, n)
  BY <1>1, <1>3, ReleaseHolds
<1>6. rb \in Connections(R) /\ UndoesFrames(cn, rb, n)
  BY <1>1, <1>3, <1>4, RollbackToHolds
<1>7. DOMAIN rl.stack = 1..Len(rl.stack) /\ DOMAIN rb.stack = 1..Len(rb.stack)
  BY <1>5, <1>6, StackFacts
<1> HIDE DEF rl, rb
<1>8. /\ rl.durable = cn.durable /\ Uncommitted(rl) = Uncommitted(cn)
      /\ \A i \in DOMAIN rl.stack :
           /\ i \in DOMAIN cn.stack /\ rl.stack[i].name = cn.stack[i].name
           /\ RowsFrom(rl, i) = RowsFrom(cn, i)
  BY <1>2, <1>5, <1>7 DEF MergesFrames
<1>9. /\ rb.durable = cn.durable /\ Uncommitted(rb) = Uncommitted(cn) \ RowsFrom(cn, n)
      /\ \A i \in DOMAIN rb.stack :
           /\ i \in DOMAIN cn.stack /\ rb.stack[i].name = cn.stack[i].name
           /\ RowsFrom(rb, i) = RowsFrom(cn, i) \ RowsFrom(cn, n)
  BY <1>2, <1>6, <1>7 DEF UndoesFrames
<1>10. ASSUME NEW row \in R, NEW nm \in 0..k, Above(cn, row, nm)
       PROVE  Above(rl, row, nm) /\ Above(rb, row, nm)
  BY <1>8, <1>9, <1>10 DEF Above
<1>11. ASSUME NEW row \in R, Above(cn, row, sv) PROVE row \notin Visible(rb)
  BY <1>3, <1>4, <1>9, <1>11 DEF Above, Visible
<1>12. Visible(rl) = Visible(cn) /\ Visible(rb) \subseteq Visible(cn)
  BY <1>8, <1>9 DEF Visible
<1>13. QED
  BY <1>10, <1>11, <1>12 DEF KeepsAbove, rl, rb

\* What a step does to the connection.
Moves ==
  \/ conn' = conn /\ wrote' = wrote
  \/ conn'.stack = <<>> /\ Visible(conn') \subseteq Visible(conn) \cup (wrote' \ wrote)
  \/ ~InTransaction(conn) /\ conn' = Begin(conn) /\ wrote' = wrote
  \/ /\ InTransaction(conn) /\ wrote' = wrote
     /\ spCounter' = spCounter + 1 /\ conn' = Savepoint(conn, spCounter')
  \/ \E x \in Calls \ wrote :
       InTransaction(conn) /\ conn' = WriteRow(conn, x) /\ wrote' = wrote \cup {x}
  \/ /\ wrote' = wrote
     /\ \E c \in Calls :
          /\ phase[c] = "nested" /\ HasSavepoint(conn, savepoint[c])
          /\ conn' = Release(conn, savepoint[c]) \/ conn' = RollbackTo(conn, savepoint[c])

\* A callback goes on, or it begins and has written nothing.
CallbacksGoOn ==
  \A a \in Calls : InCallback(a)' =>
    (InCallback(a) /\ savepoint'[a] = savepoint[a]) \/ a \notin wrote'

\* An attempt that met a lock writes nothing, and one that meets it now has no row.
LocksAreUndone ==
  \A c \in Calls : result'[c] = "busy" =>
    (result[c] = "busy" /\ c \notin wrote' \ wrote) \/ c \notin Visible(conn')

LEMMA MovesKeepAbove ==
  ASSUME BaseInv, RowsAreAbove, Moves
  PROVE  /\ Visible(conn') \subseteq Visible(conn) \cup (wrote' \ wrote)
         /\ \A a \in Calls : InCallback(a) => Above(conn', a, savepoint[a])
<1>0. /\ Sound(conn, Calls, spCounter, wrote) /\ spCounter \in Nat /\ conn \in Connections(Calls)
      /\ \A c \in Calls : /\ savepoint[c] \in 0..spCounter
                          /\ phase[c] = "nested" => savepoint[c] \in Nat \ {TxFrame}
      /\ SomeOpen => InTransaction(conn)
  BY DEF BaseInv, ManagerInv, ConnectionFollows, Sound, FieldTypes, SavepointsNamed
<1>1. CASE conn' = conn /\ wrote' = wrote
  BY <1>1 DEF RowsAreAbove
<1>2. CASE conn'.stack = <<>> /\ Visible(conn') \subseteq Visible(conn) \cup (wrote' \ wrote)
  BY <1>2 DEF Above
<1>3. CASE ~InTransaction(conn) /\ conn' = Begin(conn) /\ wrote' = wrote
  <2>1. /\ conn'.durable = conn.durable /\ Uncommitted(conn') = {}
        /\ conn'.stack = <<[name |-> TxFrame, rows |-> {}]>>
    BY <1>0, <1>3, BeginHolds
  <2>2. \A i \in DOMAIN conn'.stack : conn'.stack[i].name = TxFrame
    BY <2>1
  <2>3. \A a \in Calls : InCallback(a) => savepoint[a] # TxFrame
    BY <1>0, <1>3 DEF InCallback, SomeOpen
  <2>4. \A a \in Calls : InCallback(a) => Above(conn', a, savepoint[a])
    BY <2>2, <2>3 DEF Above
  <2>5. QED
    BY <2>1, <2>4 DEF Visible
<1>4. CASE /\ InTransaction(conn) /\ wrote' = wrote
           /\ spCounter' = spCounter + 1 /\ conn' = Savepoint(conn, spCounter')
  <2>1. conn' = Savepoint(conn, spCounter + 1)
    BY <1>4
  <2>2. Visible(conn') = Visible(conn) /\ KeepsAbove(conn, conn', Calls, spCounter)
    BY <1>0, <1>4, <2>1, AboveSavepoint
  <2>3. QED
    BY <1>0, <2>2 DEF RowsAreAbove, KeepsAbove
<1>5. ASSUME NEW x \in Calls \ wrote, InTransaction(conn), conn' = WriteRow(conn, x),
             wrote' = wrote \cup {x}
      PROVE  /\ Visible(conn') \subseteq Visible(conn) \cup (wrote' \ wrote)
             /\ \A a \in Calls : InCallback(a) => Above(conn', a, savepoint[a])
  <2>1. Visible(conn') = Visible(conn) \cup {x} /\ KeepsAbove(conn, conn', Calls, spCounter)
    BY <1>0, <1>5, AboveWrite
  <2>2. QED
    BY <1>0, <1>5, <2>1 DEF RowsAreAbove, KeepsAbove
<1>6. ASSUME wrote' = wrote, NEW c \in Calls, phase[c] = "nested", HasSavepoint(conn, savepoint[c]),
             conn' = Release(conn, savepoint[c]) \/ conn' = RollbackTo(conn, savepoint[c])
      PROVE  /\ Visible(conn') \subseteq Visible(conn) \cup (wrote' \ wrote)
             /\ \A a \in Calls : InCallback(a) => Above(conn', a, savepoint[a])
  <2> DEFINE sv == savepoint[c]
             rl == Release(conn, sv)
             rb == RollbackTo(conn, sv)
  <2>1. sv \in Nat \ {TxFrame} /\ HasSavepoint(conn, sv)
    BY <1>0, <1>6
  <2>2. conn' = rl \/ conn' = rb
    BY <1>6
  <2> HIDE DEF sv
  <2>3. Sound(conn, Calls, spCounter, wrote) /\ spCounter \in Nat
    BY <1>0
  <2>4. /\ Visible(rl) = Visible(conn) /\ Visible(rb) \subseteq Visible(conn)
        /\ KeepsAbove(conn, rl, Calls, spCounter) /\ KeepsAbove(conn, rb, Calls, spCounter)
    BY <2>1, <2>3, AboveEnds
  <2> HIDE DEF rl, rb
  <2>5. QED
    BY <1>0, <2>2, <2>4 DEF RowsAreAbove, KeepsAbove
<1>7. QED
  BY <1>1, <1>2, <1>3, <1>4, <1>5, <1>6 DEF Moves

\* A statement outside a transaction commits its row.
LEMMA WriteMoves ==
  ASSUME BaseInv, NEW x \in Calls \ wrote, conn' = WriteRow(conn, x), wrote' = wrote \cup {x}
  PROVE  Moves
<1>1. CASE InTransaction(conn)
  BY <1>1 DEF Moves
<1>2. CASE ~InTransaction(conn)
  <2>1. conn \in Connections(Calls) /\ conn.stack = <<>>
    BY <1>2 DEF BaseInv, ManagerInv, ConnectionFollows, Sound, InTransaction
  <2>2. conn'.stack = <<>> /\ conn'.durable = conn.durable \cup {x}
    BY <1>2, <2>1 DEF WriteRow, Connections
  <2>3. Uncommitted(conn') = {}
    BY <2>2 DEF Uncommitted
  <2>4. QED
    BY <2>2, <2>3 DEF Moves, Visible
<1>3. QED
  BY <1>1, <1>2

\* ROLLBACK and COMMIT bring no new row.
LEMMA EndMoves ==
  ASSUME BaseInv, conn' = Rollback(conn) \/ conn' = Commit(conn)
  PROVE  conn'.stack = <<>> /\ Visible(conn') \subseteq Visible(conn)
<1>1. conn \in Connections(Calls)
  BY DEF BaseInv, ManagerInv, ConnectionFollows, Sound
<1>2. CASE conn' = Rollback(conn)
  <2>1. conn' = [durable |-> conn.durable, stack |-> <<>>]
    BY <1>1, <1>2, RollbackHolds
  <2>2. QED
    BY <2>1 DEF Visible, Uncommitted
<1>3. CASE conn' = Commit(conn)
  <2>1. conn' = [durable |-> conn.durable \cup Uncommitted(conn), stack |-> <<>>]
    BY <1>1, <1>3, CommitHolds
  <2>2. QED
    BY <2>1 DEF Visible, Uncommitted
<1>4. QED
  BY <1>2, <1>3

\* A call that is made, and is not a callback of its own yet.
LEMMA CallsMove ==
  ASSUME DbInv, NEW c \in Calls, NEW p \in Calls \cup {NoOp},
         Refuse(c, p) \/ CallTransaction(c, p) \/ CallRun(c, p)
  PROVE  Moves /\ CallbacksGoOn /\ LocksAreUndone /\ failed \subseteq failed'
<1>0. /\ FieldTypes /\ phase[c] = "idle" /\ c \notin wrote /\ result[c] = "none" /\ BaseInv
      /\ txDepth > 0 /\ txProcessing => InTransaction(conn)
  BY DEF Refuse, CallTransaction, CallRun, Call, DbInv, BaseInv, ManagerInv, WritersStarted,
         Unstarted, AnswersDecided, ManagerKnows, ConnectionFollows
<1>1. CASE Refuse(c, p)
  <2>1. /\ UNCHANGED <<conn, wrote, savepoint, failed>>
        /\ phase' = [phase EXCEPT ![c] = "done"] /\ result' = [result EXCEPT ![c] = "error"]
    BY <1>1 DEF Refuse, managerVars
  <2>2. QED
    BY <1>0, <2>1 DEF Moves, CallbacksGoOn, LocksAreUndone, InCallback, FieldTypes
<1>2. CASE CallTransaction(c, p)
  <2>1. UNCHANGED <<wrote, result, failed>> /\ (NestedCall(c, p) \/ QueuedCall(c, p))
    BY <1>2 DEF CallTransaction, Call
  <2>2. Moves
    BY <1>0, <2>1 DEF Moves, NestedCall, QueuedCall
  <2>3. CallbacksGoOn
    BY <1>0, <2>1 DEF CallbacksGoOn, NestedCall, QueuedCall, InCallback, FieldTypes
  <2>4. QED
    BY <2>1, <2>2, <2>3 DEF LocksAreUndone
<1>3. CASE CallRun(c, p)
  <2>1. /\ UNCHANGED <<savepoint, failed>> /\ wrote' = wrote \cup {c} /\ conn' = WriteRow(conn, c)
        /\ phase' = [phase EXCEPT ![c] = "done"] /\ result' = [result EXCEPT ![c] = "ok"]
    BY <1>3 DEF CallRun, managerVars
  <2>2. Moves
    BY <1>0, <2>1, WriteMoves
  <2>3. CallbacksGoOn /\ LocksAreUndone
    BY <1>0, <2>1 DEF CallbacksGoOn, LocksAreUndone, InCallback, FieldTypes
  <2>4. QED
    BY <2>1, <2>2, <2>3
<1>4. QED
  BY <1>1, <1>2, <1>3

LEMMA AttemptsMove ==
  ASSUME DbInv, NEW c \in Calls, CallItem(c) \/ CallAgain(c) \/ DbWrite(c)
  PROVE  Moves /\ CallbacksGoOn /\ LocksAreUndone /\ failed \subseteq failed'
<1>0. FieldTypes /\ BaseInv
  BY DEF DbInv, BaseInv, ManagerInv
<1>1. CASE CallItem(c)
  <2>1. /\ phase[c] = "idle" /\ phase' = [phase EXCEPT ![c] = "queued"]
        /\ UNCHANGED <<conn, wrote, savepoint, failed, result>>
    BY <1>1 DEF CallItem, managerVars
  <2>2. QED
    BY <1>0, <2>1 DEF Moves, CallbacksGoOn, LocksAreUndone, InCallback, FieldTypes
<1>2. CASE DbWrite(c)
  <2>1. /\ c \in Calls \ wrote /\ wrote' = wrote \cup {c} /\ conn' = WriteRow(conn, c)
        /\ UNCHANGED <<phase, savepoint, failed, result>> /\ InCallback(c)
    BY <1>2 DEF DbWrite, Write, Runs
  <2>2. Moves
    BY <1>0, <2>1, WriteMoves
  <2>3. result[c] = "none"
    BY <1>0, <2>1 DEF BaseInv, ManagerInv, AnswersDecided, InCallback
  <2>4. CallbacksGoOn /\ LocksAreUndone
    BY <2>1, <2>3 DEF CallbacksGoOn, LocksAreUndone, InCallback
  <2>5. QED
    BY <2>1, <2>2, <2>4
<1>3. CASE CallAgain(c)
  <2> DEFINE d == Again(c)
             p == parent[c]
  <2>1. d \in Calls /\ phase[d] = "idle" /\ AttemptAgain(d, p) /\ UNCHANGED <<wrote, failed>>
    BY <1>3, NextAttempt DEF CallAgain
  <2> HIDE DEF d, p
  <2>2. /\ d \notin wrote /\ result[d] = "none"
        /\ txDepth > 0 /\ txProcessing => InTransaction(conn)
    BY <1>0, <2>1 DEF BaseInv, ManagerInv, WritersStarted, Unstarted, AnswersDecided,
                      ManagerKnows, ConnectionFollows
  <2>3. \/ NestedCall(d, p) /\ result' = result
        \/ /\ \E q \in {"queued", "done"} : phase' = [phase EXCEPT ![d] = q]
           /\ UNCHANGED <<conn, savepoint>>
           /\ result' = result \/ result' = [result EXCEPT ![d] = "error"]
    BY <2>1, AttemptAgainCases
  <2>4. Moves
    BY <2>1, <2>2, <2>3 DEF Moves, NestedCall
  <2>5. CallbacksGoOn
    BY <1>0, <2>1, <2>2, <2>3 DEF CallbacksGoOn, NestedCall, InCallback, FieldTypes
  <2>6. LocksAreUndone
    BY <1>0, <2>1, <2>3 DEF LocksAreUndone, FieldTypes
  <2>7. QED
    BY <2>1, <2>4, <2>5, <2>6
<1>4. QED
  BY <1>1, <1>2, <1>3

LEMMA LoopHeadMoves ==
  ASSUME DbInv, NEW ph, Between(ph), StartNextDbItem(ph), Q!LoopHead
  PROVE  Moves /\ CallbacksGoOn /\ LocksAreUndone /\ failed \subseteq failed'
<1>0. /\ FieldTypes /\ BaseInv /\ UNCHANGED <<savepoint, failed>> /\ ph \in [Calls -> Phases]
      /\ \A c \in Calls : ph[c] = phase[c] \/ (phase[c] = "unwound" /\ ph[c] = "done")
      /\ conn \in Connections(Calls) /\ Visible(conn) \subseteq wrote
  BY DEF DbInv, BaseInv, ManagerInv, ConnectionFollows, Sound, Between
<1>1. CASE phase' = ph /\ UNCHANGED <<conn, wrote, result>>
  BY <1>0, <1>1 DEF Moves, CallbacksGoOn, LocksAreUndone, InCallback
<1>2. ASSUME NEW h \in Calls, phase[h] = "queued", StartDbItem(h, ph)
      PROVE  Moves /\ CallbacksGoOn /\ LocksAreUndone
  <2>1. h \notin wrote /\ result[h] = "none"
    BY <1>0, <1>2 DEF BaseInv, ManagerInv, WritersStarted, Unstarted, AnswersDecided
  <2>2. ItemStarts(h, ph)
    BY <1>0, <1>2, ItemRuns
  <2>3. /\ \/ phase' = [ph EXCEPT ![h] = "open"] /\ result' = result
           \/ /\ phase' = [ph EXCEPT ![h] = "unwound"]
              /\ result'[h] = "busy" => wrote' = wrote
        /\ \A c \in Calls : c # h => result'[c] = result[c]
        /\ wrote \subseteq wrote' /\ wrote' \subseteq wrote \cup {h}
    BY <1>0, <2>2, ItemStartsFields
  <2>4. CallbacksGoOn
    <3>1. CASE phase' = [ph EXCEPT ![h] = "open"] /\ wrote' = wrote
      BY <1>0, <2>1, <3>1 DEF CallbacksGoOn, InCallback
    <3>2. CASE phase' = [ph EXCEPT ![h] = "unwound"]
      BY <1>0, <3>2 DEF CallbacksGoOn, InCallback
    <3>3. QED
      BY <2>2, <3>1, <3>2 DEF ItemStarts, ItemEnds, TransactionBegins
  <2>5. Moves
    <3>1. CASE StartTransaction(h, ph)
      BY <3>1 DEF StartTransaction, StartItem, TransactionBegins, TransactionFailsToBegin, Moves
    <3>2. CASE BatchSucceeds(h, ph)
      <4> DEFINE b == Begin(conn)
                 w == WriteRow(b, h)
      <4>1. b \in Connections(Calls) /\ InTransaction(b) /\ Visible(b) = conn.durable
            /\ Ordered(b) /\ Apart(b) /\ Uncommitted(b) = {}
        BY <1>0, BeginHolds DEF Visible
      <4> HIDE DEF b
      <4>2. w \in Connections(Calls) /\ AddsRow(b, w, h)
        BY <4>1, WriteHolds
      <4>3. Visible(w) = Visible(b) \cup {h}
        BY <4>2 DEF AddsRow, Visible
      <4>4. conn' = Commit(w) /\ wrote' = wrote \cup {h}
        BY <3>2 DEF BatchSucceeds, b, w
      <4> HIDE DEF w
      <4>5. conn' = [durable |-> Visible(w), stack |-> <<>>]
        BY <4>4 DEF Commit
      <4>6. conn'.stack = <<>> /\ Visible(conn') = Visible(w)
        BY <4>5 DEF Visible, Uncommitted
      <4>7. QED
        BY <2>1, <4>1, <4>3, <4>4, <4>6 DEF Moves, Visible
    <3>3. CASE BatchFails(h, ph)
      <4>1. conn' = Rollback(conn) /\ wrote' = wrote
        BY <3>3 DEF BatchFails
      <4>2. QED
        BY <1>0, <4>1, EndMoves DEF Moves
    <3>4. CASE StartExec(h, ph)
      BY <1>0, <2>1, <3>4, WriteMoves DEF StartExec, Moves
    <3>5. CASE StartVacuum(h, ph)
      BY <3>5 DEF StartVacuum, Moves
    <3>6. QED
      BY <1>2, <3>1, <3>2, <3>3, <3>4, <3>5 DEF StartDbItem, StartBatch
  <2>6. LocksAreUndone
    <3>1. ASSUME NEW c \in Calls, result'[c] = "busy", c # h
          PROVE  result[c] = "busy" /\ c \notin wrote' \ wrote
      BY <2>3, <3>1
    <3>2. result'[h] = "busy" => wrote' = wrote
      BY <2>1, <2>3
    <3>3. Sound(conn', Calls, spCounter, wrote') => Visible(conn') \subseteq wrote'
      BY DEF Sound
    <3>4. result'[h] = "busy" => h \notin Visible(conn')
      <4>1. CASE TransactionBegins(h, ph)
        BY <2>1, <4>1 DEF TransactionBegins
      <4>2. ASSUME NEW r \in {"ok", "error", "busy"}, ItemEnds(h, ph, r)
            PROVE  result'[h] = "busy" => h \notin Visible(conn')
        BY <2>1, <3>2, <3>3, <4>2 DEF ItemEnds
      <4>3. QED
        BY <2>2, <4>1, <4>2 DEF ItemStarts
    <3>5. QED
      BY <3>1, <3>4 DEF LocksAreUndone
  <2>7. QED
    BY <2>4, <2>5, <2>6
<1>3. CASE items = <<>>
  BY <1>0, <1>1, <1>3 DEF StartNextDbItem
<1>4. CASE items # <<>>
  <2>1. Head(items) \in Calls /\ phase[Head(items)] = "queued"
    BY <1>0, <1>4, HeadIsQueued
  <2>2. StartDbItem(Head(items), ph)
    BY <1>4 DEF StartNextDbItem
  <2>3. QED
    BY <1>0, <1>2, <2>1, <2>2
<1>5. QED
  BY <1>3, <1>4

\* ROLLBACK takes the row of the call away, and ROLLBACK TO that of a nested one: a
\* lock met at COMMIT, or thrown by a hook, is a fault of failed.
LEMMA CallbackEndMoves ==
  ASSUME DbInv, NEW c \in Calls, DbCallbackEnds(c), failed' = {}, RowsAreAbove
  PROVE  Moves /\ CallbacksGoOn /\ LocksAreUndone
<1>0. /\ FieldTypes /\ BaseInv /\ CallbackEnds(c) /\ InCallback(c) /\ savepoint' = savepoint
      /\ wrote' = wrote /\ conn \in Connections(Calls) /\ Ordered(conn)
      /\ \E x \in {"unwound", "done"} : phase' = [phase EXCEPT ![c] = x]
      /\ \A d \in Calls : d # c => result'[d] = result[d]
  BY DEF DbCallbackEnds, CallbackEnds, Commits, CommitFails, RollsBack, NestedReleases,
         NestedRollsBack, Finally, NestedEnds, Runs, InCallback, DbInv, BaseInv, ManagerInv,
         ConnectionFollows, Sound, FieldTypes
<1>1. CallbacksGoOn
  BY <1>0 DEF CallbacksGoOn, InCallback, FieldTypes
<1>2. SUFFICES Moves /\ (result'[c] = "busy" => c \notin Visible(conn'))
  BY <1>0, <1>1 DEF LocksAreUndone
<1>3. CASE Commits(c)
  <2>1. conn' = Commit(conn) /\ result' = [result EXCEPT ![c] = "ok"]
    BY <1>3 DEF Commits
  <2>2. QED
    BY <1>0, <2>1, EndMoves DEF Moves, FieldTypes
<1>4. CASE CommitFails(c)
  <2>1. conn' = conn /\ ~InTransaction(conn)
    BY <1>4 DEF CommitFails
  <2>2. result' = [result EXCEPT ![c] = "error"]
    BY <1>4, <2>1 DEF CommitFails, CommitErrors
  <2>3. QED
    BY <1>0, <2>1, <2>2 DEF Moves, FieldTypes
<1>5. CASE RollsBack(c)
  <2>1. conn' = Rollback(conn) /\ phase[c] = "open"
    BY <1>5 DEF RollsBack
  <2>2. Moves
    BY <1>0, <2>1, EndMoves DEF Moves
  <2>3. savepoint[c] = TxFrame /\ InTransaction(conn)
    BY <1>0, <2>1 DEF BaseInv, ManagerInv, SavepointsNamed, ConnectionFollows, SomeOpen
  <2>4. 1 \in DOMAIN conn.stack /\ conn.stack[1].name = TxFrame
    BY <1>0, <2>3, StackFacts DEF Ordered, InTransaction
  <2>5. c \notin conn.durable
    BY <1>0, <2>3, <2>4 DEF RowsAreAbove, Above
  <2>6. conn'.durable = conn.durable /\ Uncommitted(conn') = {}
    BY <1>0, <2>1, RollbackHolds
  <2>7. QED
    BY <2>2, <2>5, <2>6 DEF Visible
<1>6. CASE NestedReleases(c)
  <2>1. phase[c] = "nested" /\ \E r \in {"ok", "error"} : result' = [result EXCEPT ![c] = r]
    BY <1>6 DEF NestedReleases, NestedEnds
  <2>2. Moves
    BY <1>0, <1>6 DEF NestedReleases, Moves
  <2>3. QED
    BY <1>0, <2>1, <2>2 DEF FieldTypes
<1>7. CASE NestedRollsBack(c)
  <2>1. CASE HasSavepoint(conn, savepoint[c]) /\ conn' = RollbackTo(conn, savepoint[c])
    <3> DEFINE sv == savepoint[c]
    <3>1. /\ Sound(conn, Calls, spCounter, wrote) /\ spCounter \in Nat
          /\ sv \in Nat \ {TxFrame} /\ phase[c] = "nested"
      BY <1>0, <1>7 DEF NestedRollsBack, BaseInv, ManagerInv, ConnectionFollows, FieldTypes,
                        SavepointsNamed
    <3>2. HasSavepoint(conn, sv) /\ conn' = RollbackTo(conn, sv) /\ Above(conn, c, sv)
      BY <1>0, <2>1 DEF RowsAreAbove
    <3>3. Moves
      BY <1>0, <2>1, <3>1 DEF Moves
    <3> HIDE DEF sv
    <3>4. c \notin Visible(conn')
      BY <3>1, <3>2, AboveEnds
    <3>5. QED
      BY <3>3, <3>4
  <2>2. CASE conn' = conn /\ result' = [result EXCEPT ![c] = "error"]
    BY <1>0, <2>2 DEF Moves, FieldTypes
  <2>3. QED
    BY <1>7, <2>1, <2>2 DEF NestedRollsBack, NestedEnds
<1>8. QED
  BY <1>0, <1>3, <1>4, <1>5, <1>6, <1>7 DEF CallbackEnds

LEMMA CloseMoves ==
  ASSUME DbInv, BeginClose \/ CloseConnection \/ UNCHANGED dbVars
  PROVE  Moves /\ CallbacksGoOn /\ LocksAreUndone /\ failed \subseteq failed'
<1>0. FieldTypes /\ BaseInv
  BY DEF DbInv, BaseInv, ManagerInv
<1>1. CASE BeginClose
  <2>1. /\ phase' = [c \in Calls |-> IF c \in Waiting THEN "done" ELSE phase[c]]
        /\ result' = [c \in Calls |-> IF c \in Waiting THEN "error" ELSE result[c]]
        /\ UNCHANGED <<conn, savepoint, wrote, failed>>
    BY <1>1 DEF BeginClose, RejectWaiting, Waiting, managerVars
  <2>2. QED
    BY <1>0, <2>1 DEF Moves, CallbacksGoOn, LocksAreUndone, InCallback
<1>2. CASE CloseConnection
  <2>1. conn' = Rollback(conn) /\ UNCHANGED <<phase, savepoint, wrote, result, failed>>
    BY <1>2 DEF CloseConnection, managerVars
  <2>2. Moves
    BY <1>0, <2>1, EndMoves DEF Moves
  <2>3. QED
    BY <2>1, <2>2 DEF CallbacksGoOn, LocksAreUndone, InCallback
<1>3. CASE UNCHANGED dbVars
  BY <1>3 DEF dbVars, vars, Moves, CallbacksGoOn, LocksAreUndone, InCallback
<1>4. QED
  BY <1>1, <1>2, <1>3

LEMMA OnceStep ==
  ASSUME DbInv, OnceInv, [DbNext]_dbVars
  PROVE  OnceInv'
<1> SUFFICES ASSUME failed' = {} PROVE RowsAreAbove' /\ BusyLeavesNothing'
  BY DEF OnceInv
<1>1. failed \subseteq failed'
  <2>1. ASSUME NEW c \in Calls, DbCallbackEnds(c) PROVE failed \subseteq failed'
    BY <2>1 DEF DbCallbackEnds, CallbackEnds, Commits, CommitFails, RollsBack, NestedReleases,
                NestedRollsBack
  <2>2. CASE EnterDbProcess \/ SettleDbItem
    BY <2>2 DEF EnterDbProcess, SettleDbItem
  <2>3. QED
    BY <2>1, <2>2, CallsMove, AttemptsMove, CloseMoves DEF DbNext
<1>2. RowsAreAbove /\ BusyLeavesNothing /\ BaseInv /\ BaseInv'
  BY <1>1, DbStep DEF OnceInv, DbInv
<1>3. Moves /\ CallbacksGoOn /\ LocksAreUndone
  <2>1. CASE EnterDbProcess
    <3>1. Q!EnterProcess /\ StartNextDbItem(phase) /\ UNCHANGED <<spCounter, parent, savepoint, inside, failed>>
      BY <2>1 DEF EnterDbProcess
    <3>2. Between(phase) /\ Q!LoopHead
      BY <1>2, <3>1, EnterIsBetween
    <3>3. QED
      BY <3>1, <3>2, LoopHeadMoves
  <2>2. CASE SettleDbItem
    <3> DEFINE ph == [phase EXCEPT ![current] = "done"]
    <3>1. Q!LoopHead /\ Between(ph) /\ StartNextDbItem(ph)
      BY <1>2, <2>2, SettleDbItemParts
    <3> HIDE DEF ph
    <3>2. QED
      BY <3>1, LoopHeadMoves
  <2>3. QED
    BY <1>2, <2>1, <2>2, CallsMove, AttemptsMove, CallbackEndMoves, CloseMoves DEF DbNext
<1>4. /\ Visible(conn') \subseteq Visible(conn) \cup (wrote' \ wrote)
      /\ \A a \in Calls : InCallback(a) => Above(conn', a, savepoint[a])
  BY <1>2, <1>3, MovesKeepAbove
<1>5. Visible(conn') \subseteq wrote'
  BY <1>2 DEF BaseInv, ManagerInv, ConnectionFollows, Sound
<1>6. ASSUME NEW a \in Calls, InCallback(a)' PROVE Above(conn', a, savepoint'[a])
  <2>1. CASE a \notin wrote'
    BY <1>5, <2>1 DEF Above, Visible
  <2>2. CASE InCallback(a) /\ savepoint'[a] = savepoint[a]
    BY <1>4, <2>2
  <2>3. QED
    BY <1>3, <1>6, <2>1, <2>2 DEF CallbacksGoOn
<1>7. BusyLeavesNothing'
  BY <1>2, <1>3, <1>4 DEF BusyLeavesNothing, LocksAreUndone
<1>8. RowsAreAbove'
  BY <1>6 DEF RowsAreAbove, Above
<1>9. QED
  BY <1>7, <1>8

\* However often the retry loop runs a call (executeWithRetry, retry-policy.ts), and
\* wherever the attempt met the lock -- at BEGIN, in its callback after it has written,
\* or in a nested call -- the rows of at most one attempt are on the connection: ROLLBACK
\* and ROLLBACK TO have taken away those of the attempts before it, whoever calls
\* meanwhile and whatever frames the savepoints of overlapping calls share, unless a
\* COMMIT or an afterTransaction hook has failed.
THEOREM AttemptsApplyOnce == DbSpec => []AppliedOnce
<1>1. DbInit => OnceInv
  <2> SUFFICES ASSUME DbInit PROVE RowsAreAbove /\ BusyLeavesNothing
    BY DEF OnceInv
  <2>1. QED
    BY DEF DbInit, Init, RowsAreAbove, BusyLeavesNothing, InCallback
<1>2. DbInv /\ OnceInv /\ [DbNext]_dbVars => OnceInv'
  BY OnceStep
<1>3. DbInv /\ OnceInv => AppliedOnce
  <2> SUFFICES ASSUME DbInv, OnceInv, failed = {},
                      NEW c \in Visible(conn), NEW d \in Visible(conn), c[1] = d[1]
               PROVE  c = d
    BY DEF AppliedOnce
  <2>1. /\ \A e \in Visible(conn) : e \in Calls /\ phase[e] # "idle"
        /\ BusyLeavesNothing /\ AttemptsInOrder
    BY DEF DbInv, FacadeInv, LocksInv, OnceInv, BaseInv, ManagerInv, ConnectionFollows, Sound,
           FieldTypes, WritersStarted, Unstarted
  <2>2. c \notin Earlier(d) /\ d \notin Earlier(c)
    BY <2>1 DEF AttemptsInOrder, BusyLeavesNothing
  <2>3. ~(c[2] < d[2]) /\ ~(d[2] < c[2])
    BY <2>1, <2>2 DEF Earlier
  <2>4. c[2] = d[2]
    BY <2>1, <2>3, AttemptsAreNumbered
  <2>5. QED
    BY <2>1, <2>4, AttemptsAreNumbered
<1>4. QED
  BY <1>1, <1>2, <1>3, DbAlways, PTL DEF DbSpec, DbSafety

-----------------------------------------------------------------------------
(* The nesting invariant is kept, as long as no attempt has joined a transaction *)

\* A call inside a callback that is answered in the same segment: it is refused, or
\* its row goes into the frame on top and is inside every callback in progress.
LEMMA AnsweredInsideNests ==
  ASSUME NEW X, NEW G, "after" \in G, NestedInv(X, G), NEW c \in Calls, NEW p \in Calls,
         phase[c] = "idle", Runs(p), MadeBy(c, p), NEW r \in {"ok", "error"},
         phase' = [phase EXCEPT ![c] = "done"], result' = [result EXCEPT ![c] = r],
         UNCHANGED <<current, savepoint, failed>>,
         \/ wrote' = wrote /\ conn' = conn
         \/ r = "ok" /\ wrote' = wrote \cup {c} /\ conn' = WriteRow(conn, c)
  PROVE  NestingInv' /\ RowsInv(X, G)'
<1>0. /\ BaseInv /\ NestingInv /\ RowsInv(X, G) /\ FieldTypes /\ InCallback(p) /\ p # NoOp
  BY TMAssumption DEF NestedInv, BaseInv, ManagerInv, Runs
<1>1. /\ InTransaction(conn) /\ current \in Calls /\ phase[current] = "open" /\ p # c
  BY <1>0, CallbackFacts DEF InCallback
<1>2. /\ inside[c] = {c} /\ c \notin wrote
      /\ \A d \in Calls : c \in inside[d] => d = c
  BY <1>0, NotStarted DEF Unstarted
<1>3. /\ \A d \in Calls : phase'[d] = IF d = c THEN "done" ELSE phase[d]
      /\ \A d \in Calls : inside'[d] = IF d = c THEN {c} \cup inside[p] ELSE inside[d]
      /\ \A d \in Calls : result'[d] = IF d = c THEN r ELSE result[d]
      /\ \A d \in Calls : inside[d] \subseteq Calls
      /\ wrote \subseteq Calls
  BY <1>0 DEF FieldTypes, MadeBy
<1>4. \A a \in Calls : (InCallback(a)' <=> InCallback(a)) /\ (InCallback(a) => a # c)
  BY <1>3 DEF InCallback
<1>5. \A a \in Calls : InCallback(a) => a \in inside[p] /\ a \in inside'[c]
  BY <1>0, <1>3, Innermost
<1>6. \A e \in inside[p] : e # c /\ result[e] = "none" /\ result'[e] = "none"
  <2>1. \A e \in inside[p] : e \in Calls /\ InCallback(e)
    BY <1>0, <1>3 DEF NestingInv, AroundIsOpen, InCallback
  <2>2. \A e \in inside[p] : result[e] = "none"
    BY <1>0, <2>1, CallbackFacts
  <2>3. QED
    BY <1>3, <1>4, <2>1, <2>2
<1>7. p \in inside[p]
  BY <1>0 DEF NestingInv, InsideSelf
<1> DEFINE D == wrote' \ wrote
           n == Len(conn.stack)
<1>8. /\ D \subseteq {c} /\ wrote' = wrote \cup D /\ (c \in D => r = "ok")
      /\ DOMAIN conn.stack = 1..n /\ DOMAIN conn'.stack = 1..n
      /\ conn'.durable = conn.durable /\ Uncommitted(conn') = Uncommitted(conn) \cup D
      /\ \A i \in 1..n : conn'.stack[i].name = conn.stack[i].name
                         /\ RowsFrom(conn', i) = RowsFrom(conn, i) \cup D
  <2>1. /\ conn \in Connections(Calls) /\ Ordered(conn) /\ Apart(conn)
        /\ c \notin Uncommitted(conn)
    BY <1>0, <1>2 DEF BaseInv, ManagerInv, ConnectionFollows, Sound, Visible
  <2>2. DOMAIN conn.stack = 1..n
    BY <2>1, StackFacts
  <2>3. CASE wrote' = wrote /\ conn' = conn
    BY <2>2, <2>3
  <2>4. CASE r = "ok" /\ wrote' = wrote \cup {c} /\ conn' = WriteRow(conn, c)
    <3> DEFINE w == WriteRow(conn, c)
    <3>1. /\ w \in Connections(Calls) /\ AddsRow(conn, w, c)
      BY <1>1, <2>1, WriteHolds
    <3> HIDE DEF w, n
    <3>2. /\ w.durable = conn.durable /\ Len(w.stack) = n
          /\ \A i \in 1..n : w.stack[i].name = conn.stack[i].name
                             /\ RowsFrom(w, i) = RowsFrom(conn, i) \cup {c}
          /\ Uncommitted(w) = Uncommitted(conn) \cup {c}
      BY <3>1 DEF AddsRow, n
    <3>3. DOMAIN w.stack = 1..n
      BY <3>1, <3>2, StackFacts
    <3>4. conn' = w /\ D = {c} /\ r = "ok" /\ wrote' = wrote \cup D
      BY <1>2, <2>4 DEF w
    <3> HIDE DEF D
    <3>5. QED
      BY <2>2, <3>2, <3>3, <3>4
  <2>5. QED
    BY <2>3, <2>4
<1> HIDE DEF D, n
<1>9. (InsideSelf /\ InsideTransitive /\ AroundIsOpen /\ TopLevelIsAlone)'
  <2> DEFINE q == "done"
  <2>1. q \in {"nested", "done"} /\ phase' = [phase EXCEPT ![c] = q]
    OBVIOUS
  <2>2. BaseInv /\ NestingInv /\ p # NoOp
    BY <1>0
  <2>3. \A d \in Calls : d # c => result'[d] = result[d]
    BY <1>3
  <2> HIDE DEF q
  <2>4. QED
    BY <2>1, <2>2, <2>3, MadeInsideNests
<1>10. OneChain'
  <2>1. current # c
    BY <1>1
  <2>2. QED
    BY <1>0, <1>1, <1>3, <1>4, <2>1 DEF NestingInv, OneChain
<1>11. FramesOfCallbacks'
  BY <1>0, <1>4, <1>8 DEF NestingInv, FramesOfCallbacks, HasSavepoint
<1>12. \A d \in wrote : d # c /\ d \in Calls /\ inside'[d] = inside[d]
  BY <1>2, <1>3
<1>13. OpenOwnsRows'
  <2>1. Uncommitted(conn) \subseteq wrote
    BY <1>0 DEF BaseInv, ManagerInv, ConnectionFollows, Sound, Visible
  <2>2. \A a \in Calls : phase'[a] = "open" => phase[a] = "open" /\ InCallback(a)
    BY <1>3 DEF InCallback
  <2>3. QED
    BY <1>0, <1>5, <1>8, <1>12, <2>1, <2>2 DEF RowsInv, OpenOwnsRows
<1>14. /\ wrote' \cap Kept' = wrote \cap Kept
       /\ wrote' \ Lost' = (wrote \ Lost) \cup D
  <2>1. \A d \in wrote : \A e \in inside[d] : e \in Calls /\ e # c /\ result'[e] = result[e]
    BY <1>2, <1>3, <1>12
  <2>2. \A d \in wrote : (d \in Kept' <=> d \in Kept) /\ (d \in Lost' <=> d \in Lost)
    BY <1>12, <2>1 DEF Kept, Lost
  <2>3. c \notin Kept'
    BY <1>3, <1>6, <1>7 DEF Kept
  <2>4. r = "ok" => c \notin Lost'
    BY <1>3, <1>6 DEF Lost, Failures
  <2>5. QED
    BY <1>8, <2>2, <2>3, <2>4
<1>15. DurableIsKept(X, G)'
  BY <1>0, <1>8, <1>14 DEF RowsInv, DurableIsKept
<1>16. RowsOfCallbacks'
  <2> SUFFICES ASSUME failed \cap {"commit", "after"} = {}, NEW a \in Calls, InCallback(a),
                      NEW i \in 1..n, conn.stack[i].name = savepoint[a]
               PROVE  RowsFrom(conn', i) = {d \in wrote' \ Lost' : a \in inside'[d]}
    BY <1>4, <1>8 DEF RowsOfCallbacks
  <2>1. RowsFrom(conn, i) = {d \in wrote \ Lost : a \in inside[d]}
    BY <1>0, <1>8 DEF RowsInv, RowsOfCallbacks
  <2>2. a \in inside'[c]
    BY <1>5
  <2>3. QED
    BY <1>8, <1>12, <1>14, <2>1, <2>2
<1>17. QED
  BY <1>9, <1>10, <1>11, <1>13, <1>15, <1>16 DEF NestingInv, RowsInv

\* A call alone changes its phase without an effect, outside any callback.
LEMMA OneAloneNests ==
  ASSUME NEW X, NEW G, "after" \in G, NestedInv(X, G), NEW c \in Calls,
         phase[c] \in Unstarted, inside'[c] = {c}, NEW q \in {"queued", "done"},
         phase' = [phase EXCEPT ![c] = q], \A d \in Calls : inside'[d] = inside[d],
         \A d \in Calls : d # c => result'[d] = result[d] /\ parent'[d] = parent[d],
         UNCHANGED <<current, conn, savepoint, wrote, failed>>
  PROVE  NestingInv' /\ RowsInv(X, G)'
<1>0. FieldTypes
  BY DEF NestedInv, BaseInv, ManagerInv
<1> DEFINE S == {c}
<1>1. /\ S \in SUBSET Calls
      /\ \A d \in S : /\ phase[d] \in Unstarted /\ inside'[d] = {d}
                      /\ phase'[d] \in {"queued", "done"}
      /\ \A d \in Calls \ S : /\ phase'[d] = phase[d] /\ parent'[d] = parent[d]
                             /\ result'[d] = result[d] /\ inside'[d] = inside[d]
  BY <1>0 DEF FieldTypes
<1> HIDE DEF S
<1>2. QED
  BY <1>1, AloneNests

LEMMA RefuseNests ==
  ASSUME NEW X, NEW G, "after" \in G, NestedInv(X, G), NEW c \in Calls,
         NEW p \in Calls \cup {NoOp}, Refuse(c, p)
  PROVE  NestingInv' /\ RowsInv(X, G)'
<1>0. /\ phase[c] = "idle" /\ (p # NoOp => Runs(p)) /\ MadeBy(c, p)
      /\ phase' = [phase EXCEPT ![c] = "done"] /\ result' = [result EXCEPT ![c] = "error"]
      /\ UNCHANGED <<current, conn, savepoint, wrote, failed>>
      /\ BaseInv /\ NestingInv /\ FieldTypes
  BY DEF Refuse, MayAct, queueVars, managerVars, NestedInv, BaseInv, ManagerInv
<1>1. CASE p = NoOp
  <2>1. /\ \A d \in Calls : inside'[d] = inside[d]
        /\ inside'[c] = {c}
        /\ \A d \in Calls : d # c => parent'[d] = parent[d]
    BY <1>0, <1>1, MadeOutside
  <2>2. phase[c] \in Unstarted /\ \A d \in Calls : d # c => result'[d] = result[d]
    BY <1>0 DEF Unstarted, FieldTypes
  <2> DEFINE q == "done"
  <2>3. q \in {"queued", "done"} /\ phase' = [phase EXCEPT ![c] = q]
    BY <1>0
  <2> HIDE DEF q
  <2>4. QED
    BY <1>0, <2>1, <2>2, <2>3, OneAloneNests
<1>2. CASE p # NoOp
  <2>1. p \in Calls /\ Runs(p)
    BY <1>0, <1>2
  <2> DEFINE r == "error"
  <2>2. r \in {"ok", "error"} /\ result' = [result EXCEPT ![c] = r]
    BY <1>0
  <2> HIDE DEF r
  <2>3. QED
    BY <1>0, <2>1, <2>2, AnsweredInsideNests
<1>3. QED
  BY <1>1, <1>2

\* Outside any callback the row of run() is durable at once.
LEMMA CallRunNests ==
  ASSUME ~Outsiders, NEW X, NEW G, "after" \in G, "commit" \in G, NestedInv(X, G),
         NEW c \in Calls, NEW p \in Calls \cup {NoOp}, CallRun(c, p)
  PROVE  NestingInv' /\ RowsInv(X, G)'
<1>0. /\ phase[c] = "idle" /\ MayCall(p) /\ MadeBy(c, p)
      /\ phase' = [phase EXCEPT ![c] = "done"] /\ result' = [result EXCEPT ![c] = "ok"]
      /\ wrote' = wrote \cup {c} /\ conn' = WriteRow(conn, c)
      /\ UNCHANGED <<current, savepoint, failed>>
      /\ BaseInv /\ NestingInv /\ RowsInv(X, G) /\ FieldTypes
  BY DEF CallRun, queueVars, managerVars, NestedInv, BaseInv, ManagerInv
<1>1. CASE p = NoOp
  <2>1. /\ \A d \in Calls : inside'[d] = inside[d]
        /\ inside'[c] = {c} /\ inside[c] = {c} /\ c \notin wrote
        /\ \A d \in Calls : d # c => parent'[d] = parent[d]
        /\ phase[c] \in Unstarted
    BY <1>0, <1>1, MadeOutside, NotStarted DEF Unstarted
  <2>2. \A a \in Calls : ~InCallback(a)
    BY <1>0, <1>1 DEF MayCall
  <2> DEFINE S == {c}
  <2>3. /\ S \in SUBSET Calls
        /\ \A d \in S : /\ phase[d] \in Unstarted /\ inside'[d] = {d}
                        /\ phase'[d] \in {"queued", "done"}
        /\ \A d \in Calls \ S : /\ phase'[d] = phase[d] /\ parent'[d] = parent[d]
                               /\ result'[d] = result[d] /\ inside'[d] = inside[d]
    BY <1>0, <2>1 DEF FieldTypes
  <2>4. c \in S
    OBVIOUS
  <2> HIDE DEF S
  <2>5. /\ (InsideSelf /\ InsideTransitive /\ AroundIsOpen /\ TopLevelIsAlone)'
        /\ \A a \in Calls : InCallback(a)' <=> InCallback(a)
        /\ \A d \in Calls : \A e \in inside[d] : e \in S => e = d /\ d \notin wrote
    BY <1>0, <2>3, AloneStays
  <2>6. \A a \in Calls : ~InCallback(a)'
    BY <2>2, <2>5
  <2>7. wrote' \cap Kept' = (wrote \cap Kept) \cup {c}
    <3>1. wrote \subseteq Calls /\ result'[c] = "ok" /\ \A d \in Calls : inside[d] \subseteq Calls
      BY <1>0 DEF FieldTypes
    <3>2. \A d \in wrote : \A e \in inside[d] : e # c /\ e \in Calls /\ result'[e] = result[e]
      BY <1>0, <2>4, <2>5, <3>1 DEF FieldTypes
    <3>3. \A d \in wrote : inside'[d] = inside[d] /\ (d \in Kept' <=> d \in Kept)
      BY <2>1, <3>1, <3>2 DEF Kept
    <3>4. c \in Kept'
      BY <2>1, <3>1 DEF Kept
    <3>5. QED
      BY <1>0, <3>3, <3>4
  <2>8. failed \cap G = {} => conn'.durable = conn.durable \cup {c}
    <3>1. ~SomeOpen
      BY <2>2 DEF SomeOpen, InCallback
    <3>2. failed \cap G = {} => ~InTransaction(conn)
      BY <1>0, <3>1 DEF BaseInv, ManagerInv, ConnectionFollows
    <3>3. conn \in Connections(Calls)
      BY <1>0 DEF BaseInv, ManagerInv, ConnectionFollows, Sound
    <3>4. QED
      BY <1>0, <3>2, <3>3 DEF WriteRow, Connections
  <2>9. DurableIsKept(X, G)'
    BY <1>0, <2>7, <2>8 DEF RowsInv, DurableIsKept
  <2>10. QED
    BY <2>5, <2>6, <2>9, NoCallbackNests
<1>2. CASE p # NoOp
  <2>1. p \in Calls /\ Runs(p)
    BY <1>0, <1>2 DEF MayCall
  <2> DEFINE r == "ok"
  <2>2. /\ r \in {"ok", "error"} /\ result' = [result EXCEPT ![c] = r]
        /\ r = "ok" /\ wrote' = wrote \cup {c} /\ conn' = WriteRow(conn, c)
    BY <1>0
  <2> HIDE DEF r
  <2>3. QED
    BY <1>0, <2>1, <2>2, AnsweredInsideNests
<1>3. QED
  BY <1>1, <1>2

LEMMA CallItemNests ==
  ASSUME NEW X, NEW G, "after" \in G, NestedInv(X, G), NEW c \in Calls, CallItem(c)
  PROVE  NestingInv' /\ RowsInv(X, G)'
<1>0. /\ phase[c] = "idle" /\ phase' = [phase EXCEPT ![c] = "queued"]
      /\ UNCHANGED <<current, conn, savepoint, wrote, failed, result, parent, inside>>
      /\ BaseInv /\ NestingInv
  BY DEF CallItem, Q!EnqueueAccepted, managerVars, NestedInv
<1>1. inside[c] = {c} /\ phase[c] \in Unstarted
  BY <1>0, NotStarted DEF Unstarted
<1> DEFINE q == "queued"
<1>2. q \in {"queued", "done"} /\ phase' = [phase EXCEPT ![c] = q]
  BY <1>0
<1> HIDE DEF q
<1>3. QED
  BY <1>0, <1>1, <1>2, OneAloneNests

\* A further attempt that is not run inside a transaction it has found open: one
\* made by a callback runs inside that callback, and others wait in the queue.
LEMMA CallAgainNests ==
  ASSUME ~Outsiders, NEW X, NEW G, "after" \in G, NestedInv(X, G), LocksInv, NEW c \in Calls,
         CallAgain(c), ~(NestedCall(Again(c), NoOp) /\ parent[c] = NoOp)
  PROVE  NestingInv' /\ RowsInv(X, G)'
<1> DEFINE d == Again(c)
           p == parent[c]
<1>0. /\ d \in Calls /\ phase[d] = "idle" /\ result[c] = "busy"
      /\ d \in TxCalls <=> c \in TxCalls
      /\ (p # NoOp => Runs(p)) /\ MadeBy(d, p) /\ AttemptAgain(d, p)
      /\ UNCHANGED <<wrote, failed>>
  BY NextAttempt DEF CallAgain
<1>1. FieldTypes /\ BaseInv /\ NestingInv /\ p \in Calls \cup {NoOp}
  BY DEF NestedInv, BaseInv, ManagerInv, FieldTypes
<1>2. ~(NestedCall(d, NoOp) /\ p = NoOp)
  OBVIOUS
<1>3. d \notin TxCalls => p = NoOp
  BY <1>0 DEF LocksInv, BusyKinds
<1> HIDE DEF d, p
<1>4. CASE p # NoOp
  <2>1. p \in Calls /\ Runs(p) /\ d \in TxCalls
    BY <1>0, <1>1, <1>3, <1>4
  <2>2. txProcessing /\ txDepth > 0
    BY <1>1, <2>1, CallbackFacts DEF Runs, BaseInv, ManagerInv, ManagerKnows
  <2>3. NestedCall(d, p) /\ result' = result
    BY <1>0, <2>1, <2>2, AttemptAgainCases
  <2>4. MayCall(p) /\ UNCHANGED <<wrote, result, failed>>
    BY <1>0, <1>4, <2>1, <2>3 DEF MayCall
  <2>5. QED
    BY <1>0, <1>1, <2>3, <2>4, NestedCallNests
<1>5. CASE p = NoOp
  <2>1. /\ \A e \in Calls : inside'[e] = inside[e]
        /\ inside'[d] = {d}
        /\ \A e \in Calls : e # d => parent'[e] = parent[e]
    BY <1>0, <1>1, <1>5, MadeOutside
  <2>2. ~NestedCall(d, p)
    BY <1>2, <1>5 DEF NestedCall
  <2>3. /\ \E q \in {"queued", "done"} : phase' = [phase EXCEPT ![d] = q]
        /\ result' = result \/ result' = [result EXCEPT ![d] = "error"]
        /\ UNCHANGED <<current, conn, savepoint>>
    BY <1>0, <2>2, AttemptAgainCases DEF Q!EnqueueAccepted, Q!EnqueueRefused
  <2>4. phase[d] \in Unstarted /\ \A e \in Calls : e # d => result'[e] = result[e]
    BY <1>0, <1>1, <2>3 DEF Unstarted, FieldTypes
  <2>5. PICK q \in {"queued", "done"} : phase' = [phase EXCEPT ![d] = q]
    BY <2>3
  <2>6. QED
    BY <1>0, <2>1, <2>3, <2>4, <2>5, OneAloneNests
<1>6. QED
  BY <1>4, <1>5

LEMMA ItemStartsNests ==
  ASSUME NEW X, NEW G, "after" \in G, "commit" \in G, ExecCalls \subseteq X,
         NestedInv(X, G), NEW ph, Between(ph), NEW h \in Calls, phase[h] = "queued",
         current' = h, ItemStarts(h, ph)
  PROVE  NestingInv' /\ RowsInv(X, G)'
<1>1. CASE TransactionBegins(h, ph) /\ wrote' = wrote
  BY <1>1, TransactionBeginsNests
<1>2. ASSUME NEW r \in {"ok", "error", "busy"}, ItemEnds(h, ph, r)
      PROVE  NestingInv' /\ RowsInv(X, G)'
  <2>1. failed \cap G = {} => ~InTransaction(conn)
    BY DEF NestedInv, BaseInv, ManagerInv, ConnectionFollows, SomeOpen, Between
  <2>2. /\ phase' = [ph EXCEPT ![h] = "unwound"] /\ result' = [result EXCEPT ![h] = r]
        /\ \/ wrote' = wrote /\ (failed \cap G = {} => conn'.durable = conn.durable)
           \/ /\ wrote' = wrote \cup {h} /\ (r = "ok" \/ h \in X)
              /\ failed \cap G = {} => conn'.durable = conn.durable \cup {h}
    BY <1>2, <2>1 DEF ItemEnds
  <2>3. QED
    BY <2>2, SyncItemNests
<1>3. QED
  BY <1>1, <1>2 DEF ItemStarts

LEMMA LoopHeadNests ==
  ASSUME NEW X, NEW G, "after" \in G, "commit" \in G, ExecCalls \subseteq X,
         NestedInv(X, G), NEW ph, Between(ph), StartNextDbItem(ph), Q!LoopHead
  PROVE  NestingInv' /\ RowsInv(X, G)'
<1>0. BaseInv
  BY DEF NestedInv
<1>1. CASE phase' = ph /\ UNCHANGED <<conn, wrote, result>>
  BY <1>1, NothingStartsNests
<1>2. ASSUME NEW h \in Calls, current' = h, phase[h] = "queued", ItemStarts(h, ph)
      PROVE  NestingInv' /\ RowsInv(X, G)'
  BY <1>2, ItemStartsNests
<1>3. QED
  BY <1>0, <1>1, <1>2, LoopHeadCases

LEMMA EnterNests ==
  ASSUME NEW X, NEW G, "after" \in G, "commit" \in G, ExecCalls \subseteq X,
         NestedInv(X, G), EnterDbProcess
  PROVE  NestingInv' /\ RowsInv(X, G)'
<1>1. /\ BaseInv /\ Q!EnterProcess /\ StartNextDbItem(phase)
      /\ UNCHANGED <<spCounter, parent, savepoint, inside, failed>>
  BY DEF EnterDbProcess, NestedInv
<1>2. Between(phase) /\ Q!LoopHead
  BY <1>1, EnterIsBetween
<1>3. QED
  BY <1>1, <1>2, LoopHeadNests

LEMMA SettleDbItemNests ==
  ASSUME NEW X, NEW G, "after" \in G, "commit" \in G, ExecCalls \subseteq X,
         NestedInv(X, G), SettleDbItem
  PROVE  NestingInv' /\ RowsInv(X, G)'
<1> DEFINE ph == [phase EXCEPT ![current] = "done"]
<1>1. Between(ph) /\ StartNextDbItem(ph) /\ Q!LoopHead
  BY SettleDbItemParts DEF NestedInv
<1> HIDE DEF ph
<1>2. QED
  BY <1>1, LoopHeadNests

LEMMA BeginCloseNests ==
  ASSUME NEW X, NEW G, "after" \in G, NestedInv(X, G), BeginClose
  PROVE  NestingInv' /\ RowsInv(X, G)'
<1>0. /\ phase' = [c \in Calls |-> IF c \in Waiting THEN "done" ELSE phase[c]]
      /\ result' = [c \in Calls |-> IF c \in Waiting THEN "error" ELSE result[c]]
      /\ UNCHANGED <<current, conn, savepoint, wrote, failed, parent, inside>>
      /\ BaseInv /\ NestingInv
  BY DEF BeginClose, RejectWaiting, Waiting, managerVars, NestedInv
<1>1. \A c \in Calls : c \in Waiting <=> phase[c] = "queued"
  BY <1>0, WaitingIsQueued
<1>2. Waiting \in SUBSET Calls
  BY DEF Waiting
<1>3. \A c \in Waiting : /\ phase[c] \in Unstarted /\ inside'[c] = {c}
                         /\ phase'[c] \in {"queued", "done"}
  BY <1>0, <1>1, <1>2, NotStarted DEF Unstarted
<1>4. \A c \in Calls \ Waiting : /\ phase'[c] = phase[c] /\ parent'[c] = parent[c]
                                /\ result'[c] = result[c] /\ inside'[c] = inside[c]
  BY <1>0
<1>5. QED
  BY <1>0, <1>2, <1>3, <1>4, AloneNests

\* When the connection is closed no callback is in progress.
LEMMA CloseConnectionNests ==
  ASSUME NEW X, NEW G, "after" \in G, NestedInv(X, G), CloserInv, CloseConnection
  PROVE  NestingInv' /\ RowsInv(X, G)'
<1>0. /\ BaseInv /\ NestingInv /\ RowsInv(X, G) /\ "closer" \in Drainers
      /\ conn' = Rollback(conn) /\ conn \in Connections(Calls)
      /\ \A d \in Drainers : drainer[d] = "resolved"
      /\ UNCHANGED <<phase, parent, wrote, result, inside, failed>>
  BY DbAssumption DEF CloseConnection, managerVars, NestedInv, BaseInv, ManagerInv,
                      ConnectionFollows, Sound
<1>1. \A a \in Calls : ~InCallback(a)
  BY <1>0, DrainedIsQuiet, CallbackFacts
<1>2. /\ (InsideSelf /\ InsideTransitive /\ AroundIsOpen /\ TopLevelIsAlone)'
      /\ \A a \in Calls : ~InCallback(a)'
  BY <1>0, <1>1 DEF NestingInv, InsideSelf, InsideTransitive, AroundIsOpen, TopLevelIsAlone,
                    InCallback
<1>3. conn'.durable = conn.durable
  BY <1>0, RollbackHolds
<1>4. DurableIsKept(X, G)'
  BY <1>0, <1>3 DEF RowsInv, DurableIsKept, Kept
<1>5. QED
  BY <1>2, <1>4, NoCallbackNests

\* Once an attempt has joined a transaction it has joined it for good: who made a
\* call and its savepoint are set when the call is made.
LEMMA JoinedForGood ==
  ASSUME DbInv, DbNext, NoRetryJoined'
  PROVE  NoRetryJoined
<1>0. FieldTypes /\ SavepointsNamed
  BY DEF DbInv, FacadeInv, BaseInv, ManagerInv
<1> DEFINE MadeNow(c) == /\ phase[c] = "idle"
                         /\ \A e \in Calls : e # c => savepoint'[e] = savepoint[e]
                                                      /\ parent'[e] = parent[e]
<1>1. UNCHANGED <<savepoint, parent>> \/ \E c \in Calls : MadeNow(c)
  <2>1. ASSUME NEW c \in Calls, NEW p \in Calls \cup {NoOp},
               Refuse(c, p) \/ CallTransaction(c, p) \/ CallRun(c, p)
        PROVE  MadeNow(c)
    <3>1. phase[c] = "idle" /\ MadeBy(c, p)
      BY <2>1 DEF Refuse, CallTransaction, CallRun, Call
    <3>2. savepoint' = savepoint \/ savepoint' = [savepoint EXCEPT ![c] = spCounter']
      BY <2>1 DEF Refuse, CallTransaction, CallRun, Call, NestedCall, QueuedCall, managerVars
    <3>3. QED
      BY <1>0, <3>1, <3>2 DEF MadeBy, FieldTypes
  <2>2. ASSUME NEW c \in Calls, CallAgain(c) PROVE Again(c) \in Calls /\ MadeNow(Again(c))
    <3>1. /\ phase[Again(c)] = "idle" /\ Again(c) \in Calls /\ MadeBy(Again(c), parent[c])
          /\ AttemptAgain(Again(c), parent[c])
      BY <2>2, NextAttempt DEF CallAgain
    <3>2. savepoint' = savepoint \/ savepoint' = [savepoint EXCEPT ![Again(c)] = spCounter']
      BY <3>1, AttemptAgainCases DEF NestedCall
    <3>3. QED
      BY <1>0, <3>1, <3>2 DEF MadeBy, FieldTypes
  <2>3. ASSUME NEW c \in Calls, CallItem(c) \/ DbWrite(c) \/ DbCallbackEnds(c)
        PROVE  UNCHANGED <<savepoint, parent>>
    BY <2>3 DEF CallItem, DbWrite, DbCallbackEnds, Write, CallbackEnds, Commits, CommitFails,
       RollsBack, NestedReleases, NestedRollsBack, Finally, NestedEnds, managerVars
  <2>4. CASE EnterDbProcess \/ SettleDbItem \/ BeginClose \/ CloseConnection
    BY <2>4 DEF EnterDbProcess, SettleDbItem, BeginClose, CloseConnection, managerVars
  <2> HIDE DEF MadeNow
  <2>5. QED
    BY <2>1, <2>2, <2>3, <2>4 DEF DbNext
<1>2. \A c \in Calls : savepoint[c] # TxFrame => /\ savepoint'[c] = savepoint[c]
                                                 /\ parent'[c] = parent[c]
  BY <1>0, <1>1 DEF SavepointsNamed
<1>3. QED
  BY <1>0, <1>2, CallKinds DEF NoRetryJoined

\* An attempt that joins a transaction is given a savepoint.
LEMMA JoiningIsSeen ==
  ASSUME DbInv, NEW c \in Calls, CallAgain(c), NestedCall(Again(c), NoOp), parent[c] = NoOp
  PROVE  ~NoRetryJoined'
<1> DEFINE d == Again(c)
<1>1. /\ d \in Calls /\ ~IsFirst(d) /\ result[c] = "busy" /\ MadeBy(d, NoOp)
      /\ (d \in TxCalls <=> c \in TxCalls) /\ NestedCall(d, NoOp) /\ AttemptAgain(d, NoOp)
  BY NextAttempt DEF CallAgain
<1> HIDE DEF d
<1>2. FieldTypes
  BY DEF DbInv, BaseInv, ManagerInv
<1>3. phase'[d] = "nested" /\ parent'[d] = NoOp
  BY <1>1, <1>2 DEF NestedCall, MadeBy, FieldTypes
<1>4. d \in TxCalls
  BY <1>1, <1>2, <1>3, AttemptAgainCases DEF FieldTypes
<1>5. savepoint'[d] = spCounter + 1 /\ spCounter \in Nat
  BY <1>1, <1>2 DEF NestedCall, FieldTypes
<1>6. QED
  BY <1>1, <1>3, <1>4, <1>5 DEF NoRetryJoined, TxFrame

\* The invariant of a database whose calls from outside wait for the callbacks.
DbNestedInv == DbInv /\ (NoRetryJoined => NestedInv(ExecCalls, {"commit", "after"}))

LEMMA DbNestedStep ==
  ASSUME ~Outsiders, DbNestedInv, [DbNext]_dbVars
  PROVE  DbNestedInv'
<1>1. DbInv /\ DbInv'
  BY DbStep DEF DbNestedInv
<1> DEFINE X == ExecCalls
           G == {"commit", "after"}
<1>2. "after" \in G /\ "commit" \in G /\ ExecCalls \subseteq X /\ RefusedEnds(G)'
  BY DEF RefusedEnds
<1>3. NoRetryJoined => NestedInv(X, G)
  BY DEF DbNestedInv
<1> HIDE DEF X, G
<1>4. ASSUME NoRetryJoined' PROVE NestingInv' /\ RowsInv(X, G)'
  <2>1. CASE UNCHANGED dbVars
    <3>1. NoRetryJoined
      BY <1>4, <2>1 DEF NoRetryJoined, dbVars, vars
    <3>2. QED
      BY <1>2, <1>3, <2>1, <3>1, NestingUnchanged DEF dbVars
  <2>2. CASE DbNext
    <3>1. NestedInv(X, G)
      BY <1>1, <1>3, <1>4, <2>2, JoinedForGood
    <3>2. ASSUME NEW c \in Calls, NEW p \in Calls \cup {NoOp},
                 Refuse(c, p) \/ CallTransaction(c, p) \/ CallRun(c, p)
          PROVE  NestingInv' /\ RowsInv(X, G)'
      BY <1>2, <3>1, <3>2, RefuseNests, CallRunNests, NestedCallNests, QueuedCallNests
      DEF CallTransaction, Call
    <3>3. ASSUME NEW c \in Calls,
                 CallItem(c) \/ CallAgain(c) \/ DbWrite(c) \/ DbCallbackEnds(c)
          PROVE  NestingInv' /\ RowsInv(X, G)'
      <4>1. CASE CallAgain(c)
        <5>1. LocksInv
          BY <1>1 DEF DbInv, FacadeInv
        <5>2. ~(NestedCall(Again(c), NoOp) /\ parent[c] = NoOp)
          BY <1>1, <1>4, <4>1, JoiningIsSeen
        <5>3. QED
          BY <1>2, <3>1, <4>1, <5>1, <5>2, CallAgainNests
      <4>2. CASE DbWrite(c) \/ DbCallbackEnds(c)
        BY <1>2, <3>1, <4>2, WriteNests, CallbackEndNests DEF DbWrite, DbCallbackEnds
      <4>3. QED
        BY <1>2, <3>1, <3>3, <4>1, <4>2, CallItemNests
    <3>4. CASE EnterDbProcess \/ SettleDbItem
      BY <1>2, <3>1, <3>4, EnterNests, SettleDbItemNests
    <3>5. CASE BeginClose \/ CloseConnection
      BY <1>1, <1>2, <3>1, <3>5, BeginCloseNests, CloseConnectionNests DEF DbInv, FacadeInv
    <3>6. QED
      BY <2>2, <3>2, <3>3, <3>4, <3>5 DEF DbNext
  <2>3. QED
    BY <2>1, <2>2
<1>5. NoRetryJoined' => NestedInv(X, G)'
  BY <1>1, <1>2, <1>4 DEF NestedInv, DbInv
<1>6. QED
  BY <1>1, <1>5 DEF DbNestedInv, X, G

LEMMA DbNestedAlways ==
  ASSUME ~Outsiders
  PROVE  DbSpec => []DbNestedInv
<1>1. DbInit => DbNestedInv
  <2> SUFFICES ASSUME DbInit PROVE DbNestedInv
    OBVIOUS
  <2>1. DbInv /\ BaseInv /\ NestingInv /\ RowsInv(ExecCalls, {"commit", "after"})
    BY DbInitHolds, NestingInit DEF DbInit, DbInv
  <2>2. RefusedEnds({"commit", "after"})
    BY DEF RefusedEnds
  <2>3. QED
    BY <2>1, <2>2 DEF DbNestedInv, NestedInv
<1>2. DbNestedInv /\ [DbNext]_dbVars => DbNestedInv'
  BY DbNestedStep
<1>3. QED
  BY <1>1, <1>2, PTL DEF DbSpec, DbSafety

-----------------------------------------------------------------------------
(* What the database promises when calls from outside wait for the callbacks *)

\* When calls of the facade come only from inside a callback while one is in
\* progress, every row of a transaction, a batch or a run is durable exactly when
\* its call and every callback around it succeeded, and is in the open transaction
\* exactly while that is undecided: an attempt that meets a lock before or after it
\* has written, the attempts that follow, clearPending and close() at any moment
\* leave no row behind and lose none (bunql-tx.ts, retry-policy.ts, bunql-close.ts).
THEOREM WritesAreAllOrNothing ==
  ASSUME ~Outsiders
  PROVE  DbSpec => []WritesAllOrNothing
<1>1. DbNestedInv => WritesAllOrNothing
  <2> SUFFICES ASSUME DbNestedInv, failed = {}, NoRetryJoined
               PROVE  /\ conn.durable \ ExecCalls = (wrote \ ExecCalls) \cap Kept
                      /\ Uncommitted(conn) = (wrote \ ExecCalls) \ (Kept \cup Lost)
    BY DEF WritesAllOrNothing
  <2> DEFINE X == ExecCalls
             G == {"commit", "after"}
  <2>1. NestedInv(X, G) /\ DbInv /\ failed \cap G = {}
    BY DEF DbNestedInv
  <2>2. X = ExecCalls
    OBVIOUS
  <2> HIDE DEF X, G
  <2>3. BaseInv /\ NestingInv /\ DurableIsKept(X, G)
    BY <2>1 DEF NestedInv, RowsInv
  <2>4. conn.durable \ X = (wrote \cap Kept) \ X
    BY <2>1, <2>3 DEF DurableIsKept
  <2>5. Uncommitted(conn) = wrote \ (Kept \cup Lost)
    BY <2>1, UncommittedIsUndecided
  <2>6. ASSUME NEW d \in wrote \cap ExecCalls, d \notin Kept, d \notin Lost PROVE FALSE
    <3>1. SomeOpen /\ current \in inside[d]
      BY <2>3, <2>6, UndecidedIsOpen
    <3>2. inside[d] = {d}
      BY <2>1, <2>6 DEF DbInv, FacadeInv, ExecIsAlone
    <3>3. d \in Calls /\ phase[d] = "open"
      BY <2>3, <3>1, <3>2, CallKinds DEF SomeOpen, BaseInv, ManagerInv, CurrentIsStarted
    <3>4. d \in TxCalls
      BY <2>1, <3>3 DEF DbInv, FacadeInv, CallsTyped, InCallback
    <3>5. QED
      BY <2>6, <3>4, CallKinds
  <2>7. QED
    BY <2>2, <2>4, <2>5, <2>6
<1>2. QED
  BY <1>1, DbNestedAlways, PTL

\* db.close() is called on the connection only when no item waits or is in execution
\* and no callback is in progress, so that SQLite has nothing to roll back
\* (closeBunQL awaits drain() first, bunql-close.ts).
THEOREM ConnectionClosesQuietly ==
  ASSUME ~Outsiders
  PROVE  DbSpec => []ClosedWhenQuiet
<1>1. DbNestedInv => ClosedWhenQuiet
  <2> SUFFICES ASSUME DbNestedInv, ~dbOpen
               PROVE  /\ current = NoOp /\ ~scheduled /\ ~InTransaction(conn)
                      /\ \A c \in Calls :
                           /\ phase[c] \notin {"queued", "open", "unwound"}
                           /\ NoRetryJoined => phase[c] # "nested"
    BY DEF ClosedWhenQuiet
  <2>1. /\ BaseInv /\ CloserInv /\ ~InTransaction(conn)
        /\ "closer" \in Drainers /\ drainer["closer"] = "resolved"
    BY DbAssumption DEF DbNestedInv, DbInv, FacadeInv, CloserInv
  <2>2. /\ current = NoOp /\ ~scheduled /\ ~SomeOpen
        /\ \A c \in Calls : phase[c] \notin {"queued", "open", "unwound"}
    BY <2>1, DrainedIsQuiet
  <2>3. ASSUME NoRetryJoined, NEW c \in Calls PROVE phase[c] # "nested"
    <3>1. NestingInv
      BY <2>3 DEF DbNestedInv, NestedInv
    <3>2. QED
      BY <2>1, <2>2, <3>1, CallbackFacts DEF InCallback
  <2>4. QED
    BY <2>1, <2>2, <2>3
<1>2. QED
  BY <1>1, DbNestedAlways, PTL
=============================================================================
