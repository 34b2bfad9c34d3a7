------------------------- MODULE TransactionManager -------------------------
(***************************************************************************)
(* Transactions of a BunQL database (transaction-manager.ts): the write      *)
(* queue, the SQLite connection and the manager's own fields, composed.      *)
(*                                                                         *)
(* A call of transaction() is made from outside any callback or from inside  *)
(* the callback of another call, which then awaits it.  When a transaction   *)
(* is open the manager runs the call at once under a SAVEPOINT, whoever      *)
(* makes it; otherwise the call becomes an item of the write queue, whose    *)
(* execute() issues BEGIN, awaits the callback and issues COMMIT or ROLLBACK. *)
(* The queue starts an item in the same synchronous segment that settles the *)
(* previous one, so the actions of the queue and of the manager are conjoined. *)
(*                                                                         *)
(* Each call is made once and its callback writes at most one row, named     *)
(* after the call.  The counters committed and rolledBack, which only        *)
(* metrics() reads, are left out; the statements of a context are modelled    *)
(* by Statements.                                                            *)
(***************************************************************************)
EXTENDS Sequences, Integers, SqliteConnection

CONSTANTS
  Calls,          \* the calls of transaction()
  Drainers,       \* the callers of the queue's drain()
  NoOp,           \* no call
  Outsiders,      \* whether calls from outside a callback may come while a
                  \* transaction is open
  Faults          \* what may fail: a subset of FaultKinds

\* "before" and "after": the beforeTransaction and afterTransaction hooks throw;
\* "begin": BEGIN is refused by a lock of another process; "commit": COMMIT is
\* refused and the transaction stays open (a deferred constraint, a lock).
FaultKinds == {"before", "begin", "commit", "after"}

\* What a call fails with: the error of a lock (SQLITE_BUSY), or any other.  A
\* callback and a hook may throw either, whatever they ran into.
Failures == {"error", "busy"}

ASSUME TMAssumption ==
  /\ NoOp \notin Calls
  /\ Outsiders \in BOOLEAN
  /\ Faults \subseteq FaultKinds

VARIABLES
  items, processing, closed, draining, scheduled, current,
  outcome, drainer, owed,     \* the write queue
  txProcessing,               \* #processing of the manager
  txDepth,                    \* #depth
  spCounter,                  \* #savepointCounter
  conn,                       \* the SQLite connection
  phase,                      \* how far each call has come
  parent,                     \* the callback that made the call, or NoOp
  savepoint,                  \* the savepoint of a nested call
  wrote,                      \* the calls whose callback has written its row
  result,                     \* what the call's promise will say: ok or a failure
  inside,                     \* history: each call with the calls around it, up
                              \* to the one that no callback made
  failed                      \* history: which of "commit" and "after" failed

Q == INSTANCE WriteQueue WITH Ops <- Calls

queueVars == <<items, processing, closed, draining, scheduled, current,
               outcome, drainer, owed>>
vars == <<queueVars, txProcessing, txDepth, spCounter, conn, phase, parent,
          savepoint, wrote, result, inside, failed>>

Init ==
  /\ Q!Init
  /\ txProcessing = FALSE
  /\ txDepth = 0
  /\ spCounter = 0
  /\ conn = Autocommit
  /\ phase = [c \in Calls |-> "idle"]
  /\ parent = [c \in Calls |-> NoOp]
  /\ savepoint = [c \in Calls |-> 0]
  /\ wrote = {}
  /\ result = [c \in Calls |-> "none"]
  /\ inside = [c \in Calls |-> {c}]
  /\ failed = {}

\* The callback of c has been entered and has not ended.
InCallback(c) == phase[c] \in {"open", "nested"}

\* Code inside the callback of c is running: it awaits no call of its own.
Runs(c) ==
  /\ InCallback(c)
  /\ \A d \in Calls : parent[d] = c => phase[d] = "done"

MayCall(p) ==
  IF p = NoOp THEN Outsiders \/ \A c \in Calls : ~InCallback(c) ELSE Runs(p)

\* The call c is made by the callback of p.
MadeBy(c, p) ==
  /\ parent' = [parent EXCEPT ![c] = p]
  /\ inside' = [inside EXCEPT ![c] = IF p = NoOp THEN {c} ELSE {c} \cup inside[p]]

-----------------------------------------------------------------------------
(* transaction(): under a SAVEPOINT, or through the queue *)

NestedCall(c, p) ==
  /\ txProcessing /\ txDepth > 0
  /\ spCounter' = spCounter + 1
  /\ conn' = Savepoint(conn, spCounter')
  /\ savepoint' = [savepoint EXCEPT ![c] = spCounter']
  /\ phase' = [phase EXCEPT ![c] = "nested"]
  /\ UNCHANGED <<queueVars, txProcessing, txDepth>>

QueuedCall(c, p) ==
  /\ ~(txProcessing /\ txDepth > 0)
  /\ Q!EnqueueAccepted(c)
  /\ phase' = [phase EXCEPT ![c] = "queued"]
  /\ UNCHANGED <<txProcessing, txDepth, spCounter, conn, savepoint>>

\* BUG: a call made inside a callback goes to the queue like any other.
CallAlwaysQueues(c, p) ==
  /\ phase[c] = "idle"
  /\ MayCall(p)
  /\ MadeBy(c, p)
  /\ Q!EnqueueAccepted(c)
  /\ phase' = [phase EXCEPT ![c] = "queued"]
  /\ UNCHANGED <<txProcessing, txDepth, spCounter, conn, savepoint, wrote, result, failed>>

Call(c, p) ==
  /\ phase[c] = "idle"
  /\ MayCall(p)
  /\ MadeBy(c, p)
  /\ NestedCall(c, p) \/ QueuedCall(c, p)
  /\ UNCHANGED <<wrote, result, failed>>

-----------------------------------------------------------------------------
(* execute() of a queued call, up to the await of its callback.  ph is phase *)
(* as the rest of the step leaves it.                                        *)

TransactionBegins(c, ph) ==
  /\ ~InTransaction(conn)
  /\ conn' = Begin(conn)
  /\ txProcessing' = TRUE
  /\ txDepth' = txDepth + 1
  /\ phase' = [ph EXCEPT ![c] = "open"]
  /\ UNCHANGED result

\* BUG: depth is counted up only after BEGIN, and down in every case.
FailsToBeginUncounted(c, ph) ==
  /\ InTransaction(conn) \/ Faults \cap {"before", "begin"} # {}
  /\ txProcessing' = FALSE
  /\ txDepth' = txDepth - 1
  /\ phase' = [ph EXCEPT ![c] = "unwound"]
  /\ result' = [result EXCEPT ![c] = "error"]
  /\ UNCHANGED conn

\* What the hook throws, and what BEGIN throws: inside a transaction that was left
\* open it is refused whoever holds a lock.
BeginErrors ==
  (IF "before" \in Faults THEN Failures ELSE {})
    \cup (IF InTransaction(conn) THEN {"error"}
          ELSE IF "begin" \in Faults THEN {"busy"} ELSE {})

\* The hook or BEGIN throws; the finally block runs in the same segment.
TransactionFailsToBegin(c, ph) ==
  /\ \E e \in BeginErrors : result' = [result EXCEPT ![c] = e]
  /\ txProcessing' = FALSE
  /\ phase' = [ph EXCEPT ![c] = "unwound"]
  /\ UNCHANGED <<conn, txDepth>>

StartItem(c, ph) == TransactionBegins(c, ph) \/ TransactionFailsToBegin(c, ph)

\* What happens at the loop head of #process besides the queue's own part.
StartNext(ph) ==
  IF items = <<>>
    THEN phase' = ph /\ UNCHANGED <<txProcessing, txDepth, conn, result>>
    ELSE StartItem(Head(items), ph)

EnterProcess ==
  /\ Q!EnterProcess
  /\ StartNext(phase)
  /\ UNCHANGED <<spCounter, parent, savepoint, wrote, inside, failed>>

\* The promise of execute() is settled, then the promise of the call.
Settle ==
  /\ current # NoOp
  /\ phase[current] = "unwound"
  /\ Q!Settle(IF result[current] = "ok" THEN "resolved" ELSE "rejected")
  /\ StartNext([phase EXCEPT ![current] = "done"])
  /\ UNCHANGED <<spCounter, parent, savepoint, wrote, inside, failed>>

-----------------------------------------------------------------------------
(* The callback: it writes, and returns or throws *)

Write(c) ==
  /\ Runs(c)
  /\ c \notin wrote
  /\ wrote' = wrote \cup {c}
  /\ conn' = WriteRow(conn, c)
  /\ UNCHANGED <<queueVars, txProcessing, txDepth, spCounter, phase, parent,
                 savepoint, result, inside, failed>>

Finally(c) ==
  /\ txDepth' = txDepth - 1
  /\ txProcessing' = FALSE
  /\ phase' = [phase EXCEPT ![c] = "unwound"]
  /\ UNCHANGED <<queueVars, spCounter, parent, savepoint, wrote, inside>>

\* COMMIT succeeds, and then the afterTransaction hook runs.
Commits(c) ==
  /\ phase[c] = "open" /\ Runs(c)
  /\ InTransaction(conn)
  /\ conn' = Commit(conn)
  /\ \/ result' = [result EXCEPT ![c] = "ok"] /\ UNCHANGED failed
     \/ /\ "after" \in Faults
        /\ \E e \in Failures : result' = [result EXCEPT ![c] = e]
        /\ failed' = failed \cup {"after"}
  /\ Finally(c)

CommitErrors ==
  IF ~InTransaction(conn) THEN {"error"} ELSE IF "commit" \in Faults THEN Failures ELSE {}

\* COMMIT throws, outside the try block that issues ROLLBACK.
CommitFails(c) ==
  /\ phase[c] = "open" /\ Runs(c)
  /\ \E e \in CommitErrors : result' = [result EXCEPT ![c] = e]
  /\ failed' = IF InTransaction(conn) THEN failed \cup {"commit"} ELSE failed
  /\ UNCHANGED conn
  /\ Finally(c)

\* BUG: the flag "began" is never raised, so there is no ROLLBACK.
RollsBackNothing(c) ==
  /\ phase[c] = "open" /\ Runs(c)
  /\ \E e \in Failures : result' = [result EXCEPT ![c] = e]
  /\ UNCHANGED <<conn, failed>>
  /\ Finally(c)

\* The callback throws, and its error is thrown again once ROLLBACK is done; the
\* hook comes after ROLLBACK and may throw one of its own.
RollsBack(c) ==
  /\ phase[c] = "open" /\ Runs(c)
  /\ conn' = Rollback(conn)
  /\ \E e \in IF InTransaction(conn) THEN Failures ELSE {"error"} :
       result' = [result EXCEPT ![c] = e]
  /\ UNCHANGED failed
  /\ Finally(c)

NestedEnds(c, res) ==
  /\ phase' = [phase EXCEPT ![c] = "done"]
  /\ result' = [result EXCEPT ![c] = res]
  /\ UNCHANGED <<queueVars, txProcessing, txDepth, spCounter, parent,
                 savepoint, wrote, inside>>

\* BUG: a nested call ends with COMMIT instead of RELEASE.
NestedCommits(c) ==
  /\ phase[c] = "nested" /\ Runs(c)
  /\ IF HasSavepoint(conn, savepoint[c])
       THEN conn' = Commit(conn) /\ NestedEnds(c, "ok")
       ELSE UNCHANGED conn /\ NestedEnds(c, "error")
  /\ UNCHANGED failed

NestedReleases(c) ==
  /\ phase[c] = "nested" /\ Runs(c)
  /\ IF HasSavepoint(conn, savepoint[c])
       THEN conn' = Release(conn, savepoint[c]) /\ NestedEnds(c, "ok")
       ELSE UNCHANGED conn /\ NestedEnds(c, "error")
  /\ UNCHANGED failed

\* BUG: a nested call that fails releases its savepoint, changes and all.
NestedFailsKeepingWrites(c) ==
  /\ phase[c] = "nested" /\ Runs(c)
  /\ conn' = IF HasSavepoint(conn, savepoint[c])
               THEN Release(conn, savepoint[c]) ELSE conn
  /\ \E e \in Failures : NestedEnds(c, e)
  /\ UNCHANGED failed

\* The callback throws.  The hook is called before ROLLBACK TO, and ROLLBACK TO
\* throws when the savepoint is gone.
NestedRollsBack(c) ==
  /\ phase[c] = "nested" /\ Runs(c)
  /\ \/ /\ HasSavepoint(conn, savepoint[c])
        /\ conn' = RollbackTo(conn, savepoint[c])
        /\ UNCHANGED failed
        /\ \E e \in Failures : NestedEnds(c, e)
     \/ /\ ~HasSavepoint(conn, savepoint[c])
        /\ UNCHANGED <<conn, failed>>
        /\ NestedEnds(c, "error")
     \/ /\ "after" \in Faults
        /\ failed' = failed \cup {"after"}
        /\ UNCHANGED conn
        /\ \E e \in Failures : NestedEnds(c, e)

CallbackEnds(c) ==
  \/ Commits(c) \/ CommitFails(c) \/ RollsBack(c)
  \/ NestedReleases(c) \/ NestedRollsBack(c)

-----------------------------------------------------------------------------
Next ==
  \/ \E c \in Calls, p \in Calls \cup {NoOp} : Call(c, p)
  \/ EnterProcess
  \/ Settle
  \/ \E c \in Calls : Write(c) \/ CallbackEnds(c)

\* The event loop runs the queued segments, and a callback that is not waiting
\* for a call of its own comes to an end.
Fairness ==
  /\ WF_vars(EnterProcess)
  /\ WF_vars(Settle)
  /\ \A c \in Calls : WF_vars(CallbackEnds(c))

Safety == Init /\ [][Next]_vars
Spec == Safety /\ Fairness

-----------------------------------------------------------------------------
(* Properties *)

TypeOK ==
  /\ Q!TypeOK
  /\ txProcessing \in BOOLEAN
  /\ txDepth \in Nat
  /\ spCounter \in Nat
  /\ conn \in [durable : SUBSET Calls,
               stack : Seq([name : TxFrame..spCounter, rows : SUBSET Calls])]
  /\ phase \in [Calls -> {"idle", "queued", "open", "nested", "unwound", "done"}]
  /\ parent \in [Calls -> Calls \cup {NoOp}]
  /\ savepoint \in [Calls -> 0..spCounter]
  /\ wrote \subseteq Calls
  /\ result \in [Calls -> {"none", "ok"} \cup Failures]
  /\ inside \in [Calls -> SUBSET Calls]
  /\ failed \subseteq Faults

\* The call and every call around it succeeded, up to the one that was queued.
Kept == {c \in Calls : \A d \in inside[c] : result[d] = "ok"}

\* The call or one around it failed.
Lost == {c \in Calls : \E d \in inside[c] : result[d] \in Failures}

\* All or nothing.  Unless an afterTransaction hook threw, the committed rows are
\* those of the callbacks that succeeded together with every callback around
\* them; unless COMMIT was refused too, the open transaction holds the rows of the
\* callbacks whose fate is not decided, and no others.
AllOrNothing ==
  /\ "after" \notin failed => conn.durable = wrote \cap Kept
  /\ failed = {} => Uncommitted(conn) = wrote \ (Kept \cup Lost)

\* Unless COMMIT was refused, a transaction is open on the connection exactly
\* while the callback of a queued call is in progress, and the manager knows:
\* whichever hook, statement or callback fails, nothing that ends leaves the
\* connection inside a transaction (README.md:1126).
NoTransactionLeaks ==
  LET open == {c \in Calls : phase[c] = "open"}
  IN /\ "commit" \notin failed => (InTransaction(conn) <=> open # {})
     /\ txProcessing <=> open # {}
     /\ \A c \in open : c = current
     /\ txDepth = IF open = {} THEN 0 ELSE 1

\* A call that is queued is answered, although its callback may itself call
\* transaction() and wait for it: the nested call does not queue behind the
\* call that waits for it.
QueuedIsAnswered == \A c \in Calls : phase[c] = "queued" ~> phase[c] = "done"

\* A step commits the rows of one transaction: those of a call that was queued
\* and of the calls nested in it, and takes nothing away.
CommitsOneTransaction ==
  [][ /\ conn.durable \subseteq conn'.durable
      /\ conn'.durable # conn.durable =>
           \E c \in Calls :
             /\ phase[c] = "open" /\ phase'[c] = "unwound"
             /\ result'[c] = "ok" \/ "after" \in failed'
             /\ \A d \in conn'.durable \ conn.durable : c \in inside[d]
    ]_vars

\* README.md:772 "Serialized transaction": what a transaction() call from
\* outside any callback wrote is not lost once its promise is resolved.
ResolvedIsNeverLost ==
  \A c \in wrote : parent[c] = NoOp /\ result[c] = "ok" => c \in Visible(conn)

\* README.md:1126 "Failure -> ROLLBACK": when no callback is in progress the
\* connection is not inside a transaction, COMMIT refused or not.
FailureRollsBack ==
  InTransaction(conn) => \E c \in Calls : phase[c] = "open"
=============================================================================
