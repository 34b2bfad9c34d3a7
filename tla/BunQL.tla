------------------------------- MODULE BunQL -------------------------------
(***************************************************************************)
(* The BunQL facade on a SQLite file: transaction(), batch(), exec(), run(), *)
(* vacuum() and close() of one database object (bunql-tx.ts, bunql-query.ts, *)
(* bunql-maintenance.ts, bunql-close.ts, bunql-state.ts), composed with the  *)
(* write queue, the transaction manager, the connection and the retry loop   *)
(* of retry-policy.ts.                                                       *)
(*                                                                         *)
(* batch, exec and vacuum are queue items whose execute() has no await: their *)
(* whole effect belongs to the segment that starts the item.  run() goes      *)
(* straight to the connection.  vacuum() stands for checkpoint(), backup()    *)
(* and the maintenance tasks too: items that write no row.                    *)
(*                                                                         *)
(* The retry loop runs the whole function again: each attempt is a call of    *)
(* its own for the queue, the manager and the connection, with its own        *)
(* savepoint and row.  A call of Calls is therefore a name and the number of  *)
(* the attempt, and only attempt 0 is the caller's.                           *)
(***************************************************************************)
EXTENDS TransactionManager

CONSTANTS
  Txs, Batches, Execs, Vacuums, RunOps,   \* the names of the calls, by kind
  MaxRetries      \* maxRetries of the retry policy

Attempts(names) == names \X (0..MaxRetries)

TxCalls == Attempts(Txs)
BatchCalls == Attempts(Batches)
ExecCalls == Attempts(Execs)
VacuumCalls == Attempts(Vacuums)
RunCalls == Attempts(RunOps)

ASSUME DbAssumption ==
  /\ Calls = Attempts(Txs \cup Batches \cup Execs \cup Vacuums \cup RunOps)
  /\ Txs \cap (Batches \cup Execs \cup Vacuums \cup RunOps) = {}
  /\ Batches \cap (Execs \cup Vacuums \cup RunOps) = {}
  /\ Execs \cap (Vacuums \cup RunOps) = {}
  /\ Vacuums \cap RunOps = {}
  /\ MaxRetries \in Nat
  /\ Drainers = {"closer"}

VARIABLES
  dbOpen,         \* db.close() has not been called on the connection
  lockedOut       \* history: the batches and execs that a lock refused

\* s.closed of the facade is raised together with closed of the queue, in the
\* first segment of closeBunQL, so the variable closed stands for both.

facadeVars == <<dbOpen, lockedOut>>
dbVars == <<vars, facadeVars>>

\* What only the transaction manager and the policy change.
managerVars == <<txProcessing, txDepth, spCounter, savepoint, failed>>

DbInit ==
  /\ Init
  /\ dbOpen = TRUE
  /\ lockedOut = {}

-----------------------------------------------------------------------------
(* The retry loop *)

IsFirst(c) == c[2] = 0

Again(c) == <<c[1], c[2] + 1>>

\* isBusyError and shouldRetry.
MayRetry(c) == result[c] = "busy" /\ c[2] < MaxRetries

\* The attempt failed for a lock and the loop sleeps before the next one.
Sleeps(c) == phase[c] = "done" /\ MayRetry(c) /\ phase[Again(c)] = "idle"

\* The callback of p awaits a call that sleeps in the retry loop.
AwaitsRetry(p) == \E c \in Calls : parent[c] = p /\ Sleeps(c)

\* Code of p is running, or p is no callback.
MayAct(p) == p # NoOp => Runs(p) /\ ~AwaitsRetry(p)

-----------------------------------------------------------------------------
(* The calls: what they do before their first await *)

\* ensureOpen throws.
Refuse(c, p) ==
  /\ phase[c] = "idle" /\ IsFirst(c) /\ closed
  /\ MayAct(p)
  /\ MadeBy(c, p)
  /\ phase' = [phase EXCEPT ![c] = "done"]
  /\ result' = [result EXCEPT ![c] = "error"]
  /\ UNCHANGED <<queueVars, managerVars, conn, wrote, facadeVars>>

CallTransaction(c, p) ==
  /\ c \in TxCalls /\ IsFirst(c)
  /\ ~closed
  /\ MayAct(p)
  /\ Call(c, p)
  /\ UNCHANGED facadeVars

\* batch, exec and vacuum always queue, whatever is open.  A callback that
\* awaited one of them would wait behind itself, so no callback does here.
CallItem(c) ==
  /\ c \in BatchCalls \cup ExecCalls \cup VacuumCalls
  /\ phase[c] = "idle" /\ IsFirst(c) /\ ~closed
  /\ Q!EnqueueAccepted(c)
  /\ phase' = [phase EXCEPT ![c] = "queued"]
  /\ UNCHANGED <<managerVars, conn, parent, wrote, result, inside, facadeVars>>

\* run() writes on the connection and returns, all in the caller's segment.
CallRun(c, p) ==
  /\ c \in RunCalls
  /\ phase[c] = "idle" /\ IsFirst(c) /\ MayCall(p) /\ MayAct(p)
  /\ ~closed
  /\ MadeBy(c, p)
  /\ conn' = WriteRow(conn, c)
  /\ wrote' = wrote \cup {c}
  /\ result' = [result EXCEPT ![c] = "ok"]
  /\ phase' = [phase EXCEPT ![c] = "done"]
  /\ UNCHANGED <<queueVars, managerVars, facadeVars>>

\* The next attempt d of a call of p: with no ensureOpen; a queue closed meanwhile
\* rejects it.
AttemptAgain(d, p) ==
  \/ /\ d \in TxCalls
     /\ NestedCall(d, p) \/ (~closed /\ QueuedCall(d, p))
     /\ UNCHANGED result
  \/ /\ d \notin TxCalls
     /\ Q!EnqueueAccepted(d)
     /\ phase' = [phase EXCEPT ![d] = "queued"]
     /\ UNCHANGED <<txProcessing, txDepth, spCounter, conn, savepoint, result>>
  \/ /\ d \in TxCalls => ~(txProcessing /\ txDepth > 0)
     /\ Q!EnqueueRefused(d)
     /\ phase' = [phase EXCEPT ![d] = "done"]
     /\ result' = [result EXCEPT ![d] = "error"]
     /\ UNCHANGED <<txProcessing, txDepth, spCounter, conn, savepoint>>

\* The sleep of the retry loop is over.  A callback that awaits the call is still
\* suspended: it runs nothing and has not ended.
CallAgain(c) ==
  /\ Sleeps(c)
  /\ parent[c] # NoOp => Runs(parent[c])
  /\ MadeBy(Again(c), parent[c])
  /\ AttemptAgain(Again(c), parent[c])
  /\ UNCHANGED <<wrote, failed, facadeVars>>

-----------------------------------------------------------------------------
(* execute() of each kind of item.  Another process may hold the lock.       *)

SyncItem(c, ph, res) ==
  /\ phase' = [ph EXCEPT ![c] = "unwound"]
  /\ result' = [result EXCEPT ![c] = res]
  /\ UNCHANGED <<txProcessing, txDepth>>

StartTransaction(c, ph) ==
  /\ c \in TxCalls
  /\ StartItem(c, ph)
  /\ UNCHANGED <<wrote, lockedOut>>

BatchSucceeds(c, ph) ==
  /\ ~InTransaction(conn)
  /\ conn' = Commit(WriteRow(Begin(conn), c))
  /\ wrote' = wrote \cup {c}
  /\ UNCHANGED lockedOut
  /\ SyncItem(c, ph, "ok")

\* BUG: a statement throws and the transaction is left as it is.
BatchFailsOpen(c, ph) ==
  /\ ~InTransaction(conn)
  /\ conn' = WriteRow(Begin(conn), c)
  /\ wrote' = wrote \cup {c}
  /\ UNCHANGED lockedOut
  /\ SyncItem(c, ph, "error")

\* A QueueError, whether or not a lock was the cause, or when BEGIN was refused the
\* error of ROLLBACK, which has nothing to roll back: neither is a busy error.
WrappedError(c, ph) ==
  /\ lockedOut' \in {lockedOut, lockedOut \cup {c}}
  /\ SyncItem(c, ph, "error")

\* BEGIN, a statement or COMMIT throws: ROLLBACK, whatever was open.
BatchFails(c, ph) ==
  /\ conn' = Rollback(conn)
  /\ UNCHANGED wrote
  /\ WrappedError(c, ph)

StartBatch(c, ph) ==
  c \in BatchCalls /\ (BatchSucceeds(c, ph) \/ BatchFails(c, ph))

\* BUG: the error of exec is thrown as it is, and a lock met by a later statement
\* has the whole script run again.
StartExecUnwrapped(c, ph) ==
  /\ c \in ExecCalls
  /\ conn' = WriteRow(conn, c)
  /\ wrote' = wrote \cup {c}
  /\ UNCHANGED lockedOut
  /\ \E res \in {"ok", "busy"} : SyncItem(c, ph, res)

\* Every failure of exec, a lock included, is wrapped in a QueueError.  The
\* statements before the failing one have taken effect.
StartExec(c, ph) ==
  /\ c \in ExecCalls
  /\ \/ /\ conn' = WriteRow(conn, c)
        /\ wrote' = wrote \cup {c}
        /\ \/ SyncItem(c, ph, "ok") /\ UNCHANGED lockedOut
           \/ WrappedError(c, ph)
     \/ UNCHANGED <<conn, wrote>> /\ WrappedError(c, ph)

\* VACUUM is refused inside a transaction.
StartVacuum(c, ph) ==
  /\ c \in VacuumCalls
  /\ UNCHANGED <<conn, wrote, lockedOut>>
  /\ \E res \in IF InTransaction(conn) THEN Failures ELSE {"ok"} \cup Failures :
       SyncItem(c, ph, res)

StartDbItem(c, ph) ==
  \/ StartTransaction(c, ph) \/ StartBatch(c, ph)
  \/ StartExec(c, ph) \/ StartVacuum(c, ph)

StartNextDbItem(ph) ==
  IF items = <<>>
    THEN /\ phase' = ph
         /\ UNCHANGED <<txProcessing, txDepth, conn, wrote, result, lockedOut>>
    ELSE StartDbItem(Head(items), ph)

EnterDbProcess ==
  /\ Q!EnterProcess
  /\ StartNextDbItem(phase)
  /\ UNCHANGED <<spCounter, parent, savepoint, inside, failed, dbOpen>>

\* The item settles; the retry loop around it then sleeps or answers.
SettleDbItem ==
  /\ current # NoOp
  /\ phase[current] = "unwound"
  /\ Q!Settle(IF result[current] = "ok" THEN "resolved" ELSE "rejected")
  /\ StartNextDbItem([phase EXCEPT ![current] = "done"])
  /\ UNCHANGED <<spCounter, parent, savepoint, inside, failed, dbOpen>>

-----------------------------------------------------------------------------
(* The callbacks *)

\* A statement on a closed database throws and writes nothing.
DbWrite(c) == dbOpen /\ MayAct(c) /\ Write(c) /\ UNCHANGED facadeVars

DbCallbackEnds(c) == MayAct(c) /\ CallbackEnds(c) /\ UNCHANGED facadeVars

-----------------------------------------------------------------------------
(* close() *)

\* BUG: the items that wait are not cleared, and run while close() waits.
KeepWaiting == UNCHANGED <<items, outcome, phase, result>>

\* BUG: the items that wait are dropped and their promises never settle.
DropWaiting == items' = <<>> /\ UNCHANGED <<outcome, phase, result>>

\* clearPending.
RejectWaiting ==
  LET cleared == {c \in Calls : \E i \in DOMAIN items : items[i] = c}
  IN /\ items' = <<>>
     /\ outcome' = [c \in Calls |-> IF c \in cleared THEN "cleared" ELSE outcome[c]]
     /\ phase' = [c \in Calls |-> IF c \in cleared THEN "done" ELSE phase[c]]
     /\ result' = [c \in Calls |-> IF c \in cleared THEN "error" ELSE result[c]]

\* BUG: drain waits for #process even when nothing is being processed.
AwaitDrainAlways ==
  /\ draining' = TRUE
  /\ drainer' = [d \in Drainers |-> "waiting"]
  /\ owed' = [d \in Drainers |-> {c \in Calls : outcome'[c] = "pending"}]

\* drain, called right after clearPending.
AwaitDrain ==
  /\ draining' = processing
  /\ drainer' = [d \in Drainers |-> IF processing THEN "waiting" ELSE "resolved"]
  /\ owed' = [d \in Drainers |-> {c \in Calls : outcome'[c] = "pending"}]

\* closeBunQL up to the await of drain.
BeginClose ==
  /\ ~closed
  /\ closed' = TRUE
  /\ RejectWaiting
  /\ AwaitDrain
  /\ UNCHANGED <<processing, scheduled, current, managerVars, conn, parent, wrote,
                 inside, facadeVars>>

\* BUG: the connection is closed without waiting for the drain.
CloseConnectionAtOnce ==
  /\ dbOpen
  /\ closed
  /\ dbOpen' = FALSE
  /\ conn' = Rollback(conn)
  /\ UNCHANGED <<queueVars, managerVars, phase, parent, wrote, result, inside,
                 lockedOut>>

\* After the drain the connection is closed; SQLite rolls back what is open.
CloseConnection ==
  /\ dbOpen
  /\ \A d \in Drainers : drainer[d] = "resolved"
  /\ dbOpen' = FALSE
  /\ conn' = Rollback(conn)
  /\ UNCHANGED <<queueVars, managerVars, phase, parent, wrote, result, inside,
                 lockedOut>>

-----------------------------------------------------------------------------
DbNext ==
  \/ \E c \in Calls, p \in Calls \cup {NoOp} :
       Refuse(c, p) \/ CallTransaction(c, p) \/ CallRun(c, p)
  \/ \E c \in Calls :
       CallItem(c) \/ CallAgain(c) \/ DbWrite(c) \/ DbCallbackEnds(c)
  \/ EnterDbProcess
  \/ SettleDbItem
  \/ BeginClose
  \/ CloseConnection

\* The event loop runs the queued segments, a sleep ends, and a callback that
\* is not waiting for a call of its own comes to an end.
DbFairness ==
  /\ WF_dbVars(EnterDbProcess)
  /\ WF_dbVars(SettleDbItem)
  /\ WF_dbVars(CloseConnection)
  /\ \A c \in Calls : WF_dbVars(CallAgain(c)) /\ WF_dbVars(DbCallbackEnds(c))

DbSafety == DbInit /\ [][DbNext]_dbVars
DbSpec == DbSafety /\ DbFairness

-----------------------------------------------------------------------------
(* Properties *)

DbTypeOK ==
  /\ Q!TypeOK
  /\ txProcessing \in BOOLEAN /\ dbOpen \in BOOLEAN
  /\ txDepth \in {0, 1}
  /\ Visible(conn) \subseteq Calls
  /\ phase \in [Calls -> {"idle", "queued", "open", "nested", "unwound", "done"}]
  /\ parent \in [Calls -> TxCalls \cup {NoOp}]
  /\ wrote \subseteq Calls
  /\ result \in [Calls -> {"none", "ok"} \cup Failures]
  /\ lockedOut \subseteq BatchCalls \cup ExecCalls

\* No transaction that was called from outside any callback has been run again
\* inside one that the retry loop found open after its sleep.
NoRetryJoined ==
  \A c \in TxCalls : ~IsFirst(c) /\ parent[c] = NoOp => savepoint[c] = TxFrame

\* The rows of transactions, batches and runs are committed exactly when the
\* attempt and every callback around it succeeded, and are in the open
\* transaction exactly while that is undecided, with locks met at BEGIN, in a
\* callback or nested in one, the attempts that follow, and close() at any
\* moment, unless a COMMIT or an afterTransaction hook failed or a retry joined
\* another transaction.  exec() promises no atomicity and is left out.
WritesAllOrNothing ==
  LET w == wrote \ ExecCalls
  IN failed = {} /\ NoRetryJoined =>
       /\ conn.durable \ ExecCalls = w \cap Kept
       /\ Uncommitted(conn) = w \ (Kept \cup Lost)

\* No call takes effect twice: however often the retry loop runs it, at most one
\* of its attempts has a row on the connection, committed or not.  The exceptions
\* are a COMMIT that fails and leaves the rows of its transaction behind, and an
\* afterTransaction hook that throws, before ROLLBACK TO or after COMMIT.
AppliedOnce ==
  failed = {} =>
    \A c, d \in Visible(conn) : c[1] = d[1] => c = d

\* db.close() is called only when nothing runs or waits: no callback is
\* interrupted and no accepted call is left behind (bunql-close.ts:16-22).
ClosedWhenQuiet ==
  ~dbOpen => /\ current = NoOp /\ ~scheduled /\ ~InTransaction(conn)
             /\ \A c \in Calls :
                  /\ phase[c] \notin {"queued", "open", "unwound"}
                  /\ NoRetryJoined => phase[c] # "nested"

\* After close() is called no item is started: the one in execution finishes,
\* those that waited are rejected, and a call that slept in the retry loop is
\* refused when it wakes.
NoItemStartsAfterClose ==
  [][closed => current' \in {current, NoOp}]_dbVars

\* The caller has its answer: an attempt is done and none follows it.
Answered(c) == phase[c] = "done" /\ ~MayRetry(c)

\* Every call is answered, whatever is retried, refused or cleared.
EveryCallIsAnswered ==
  \A c \in Calls : IsFirst(c) =>
    (phase[c] # "idle" ~> \E d \in Calls : d[1] = c[1] /\ Answered(d))

\* close() gets to the end.
CloseCompletes == closed ~> ~dbOpen

\* README.md:744: SQLITE_BUSY is retried for batch and exec as well.
BatchAndExecAreRetried ==
  \A c \in lockedOut : Answered(c) => c[2] = MaxRetries
=============================================================================
