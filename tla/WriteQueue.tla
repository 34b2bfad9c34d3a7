----------------------------- MODULE WriteQueue -----------------------------
(***************************************************************************)
(* The FIFO queue that serialises every write of a BunQL database            *)
(* (write-queue.ts).  JavaScript runs one synchronous segment at a time, so   *)
(* one action is one segment: a call of a public method, the microtask that   *)
(* enters #process, or the continuation of #process after the await of an     *)
(* item.  The continuation settles the item and, with no await in between,    *)
(* either dequeues and starts the next item or runs the finally block; the    *)
(* callers that wait on the promises run in later segments.                   *)
(*                                                                           *)
(* An operation is an identity.  Its caller may enqueue it again once it is   *)
(* settled, so behaviours have no bound on the number of enqueue calls.  The  *)
(* statistics peakSize and totalEnqueued, which nothing reads but metrics(),  *)
(* and the onDrain notification, which changes no state of the queue, are     *)
(* left out.                                                                  *)
(***************************************************************************)
EXTENDS Sequences, Naturals, Functions

CONSTANTS
  Ops,            \* the operations callers hand to enqueue
  Drainers,       \* the callers of drain
  NoOp            \* no operation is being executed

ASSUME NoOpAssumption == NoOp \notin Ops

VARIABLES
  items,          \* #items
  processing,     \* #processing
  closed,         \* #closed
  draining,       \* #drainPromise is not null
  scheduled,      \* the microtask that will enter #process is queued
  current,        \* the item whose execute() #process is awaiting
  outcome,        \* what the promise returned to each operation's caller says
  drainer,        \* what each caller of drain sees
  owed            \* history: the operations accepted before the last call of
                  \* drain of each drainer and not settled since

vars == <<items, processing, closed, draining, scheduled, current,
          outcome, drainer, owed>>

Outcomes == {"new", "pending", "resolved", "rejected", "cleared", "refused"}

Pending == {o \in Ops : outcome[o] = "pending"}

Init ==
  /\ items = <<>>
  /\ processing = FALSE
  /\ closed = FALSE
  /\ draining = FALSE
  /\ scheduled = FALSE
  /\ current = NoOp
  /\ outcome = [o \in Ops |-> "new"]
  /\ drainer = [d \in Drainers |-> "idle"]
  /\ owed = [d \in Drainers |-> {}]

-----------------------------------------------------------------------------
(* enqueue *)

\* BUG: a closed queue throws at its caller and returns no promise.
RefuseByThrowing(o) ==
  /\ closed
  /\ outcome[o] # "pending"
  /\ outcome' = [outcome EXCEPT ![o] = "thrown"]
  /\ UNCHANGED <<items, processing, closed, draining, scheduled, current,
                 drainer, owed>>

EnqueueRefused(o) ==
  /\ closed
  /\ outcome[o] # "pending"
  /\ outcome' = [outcome EXCEPT ![o] = "refused"]
  /\ UNCHANGED <<items, processing, closed, draining, scheduled, current,
                 drainer, owed>>

\* BUG: the item is pushed and nobody is told to process it.
AcceptWithoutWakeup(o) ==
  /\ ~closed
  /\ outcome[o] # "pending"
  /\ items' = Append(items, o)
  /\ outcome' = [outcome EXCEPT ![o] = "pending"]
  /\ UNCHANGED <<processing, scheduled, closed, draining, current, drainer, owed>>

\* BUG: push in front, a stack instead of a queue.
AcceptInFront(o) ==
  /\ ~closed
  /\ outcome[o] # "pending"
  /\ items' = <<o>> \o items
  /\ outcome' = [outcome EXCEPT ![o] = "pending"]
  /\ processing' = TRUE
  /\ scheduled' = (scheduled \/ ~processing)
  /\ UNCHANGED <<closed, draining, current, drainer, owed>>

\* BUG: the microtask is queued whenever an item arrives, processing or not.
AcceptAlwaysWakes(o) ==
  /\ ~closed
  /\ outcome[o] # "pending"
  /\ items' = Append(items, o)
  /\ outcome' = [outcome EXCEPT ![o] = "pending"]
  /\ processing' = TRUE
  /\ scheduled' = TRUE
  /\ UNCHANGED <<closed, draining, current, drainer, owed>>

EnqueueAccepted(o) ==
  /\ ~closed
  /\ outcome[o] # "pending"
  /\ items' = Append(items, o)
  /\ outcome' = [outcome EXCEPT ![o] = "pending"]
  /\ processing' = TRUE
  /\ scheduled' = (scheduled \/ ~processing)
  /\ UNCHANGED <<closed, draining, current, drainer, owed>>

Enqueue(o) == EnqueueAccepted(o) \/ EnqueueRefused(o)

-----------------------------------------------------------------------------
(* #process: the loop head, reached from the microtask and after each item *)

TakeNextItem ==
  /\ items # <<>>
  /\ current' = Head(items)
  /\ items' = Tail(items)
  /\ UNCHANGED <<processing, draining, drainer>>

\* BUG: the finally block forgets the waiters of the drain promise.
FinishForgettingDrain ==
  /\ items = <<>>
  /\ current' = NoOp
  /\ processing' = FALSE
  /\ draining' = FALSE
  /\ UNCHANGED <<items, drainer>>

FinishProcessing ==
  /\ items = <<>>
  /\ current' = NoOp
  /\ processing' = FALSE
  /\ draining' = FALSE
  /\ drainer' = [d \in Drainers |->
                   IF drainer[d] = "waiting" THEN "resolved" ELSE drainer[d]]
  /\ UNCHANGED items

LoopHead == TakeNextItem \/ FinishProcessing

EnterProcess ==
  /\ scheduled
  /\ scheduled' = FALSE
  /\ LoopHead
  /\ UNCHANGED <<closed, outcome, owed>>

\* The awaited execute() of the current item has resolved or rejected.
Settle(verdict) ==
  /\ current # NoOp
  /\ outcome' = [outcome EXCEPT ![current] = verdict]
  /\ owed' = [d \in Drainers |-> owed[d] \ {current}]
  /\ LoopHead
  /\ UNCHANGED <<closed, scheduled>>

-----------------------------------------------------------------------------
(* drain, close, clearPending *)

\* BUG: only the length of the queue is looked at, not the item in execution.
DrainWhenNothingWaits(d) ==
  /\ drainer[d] # "waiting"
  /\ items = <<>>
  /\ drainer' = [drainer EXCEPT ![d] = "resolved"]
  /\ owed' = [owed EXCEPT ![d] = Pending]
  /\ UNCHANGED <<items, processing, closed, draining, scheduled, current, outcome>>

DrainAtOnce(d) ==
  /\ drainer[d] # "waiting"
  /\ items = <<>> /\ ~processing
  /\ drainer' = [drainer EXCEPT ![d] = "resolved"]
  /\ owed' = [owed EXCEPT ![d] = Pending]
  /\ UNCHANGED <<items, processing, closed, draining, scheduled, current, outcome>>

DrainWaits(d) ==
  /\ drainer[d] # "waiting"
  /\ items # <<>> \/ processing
  /\ draining' = TRUE
  /\ drainer' = [drainer EXCEPT ![d] = "waiting"]
  /\ owed' = [owed EXCEPT ![d] = Pending]
  /\ UNCHANGED <<items, processing, closed, scheduled, current, outcome>>

Drain(d) == DrainAtOnce(d) \/ DrainWaits(d)

Close ==
  /\ closed' = TRUE
  /\ UNCHANGED <<items, processing, draining, scheduled, current,
                 outcome, drainer, owed>>

\* BUG: the items are dropped and their promises are left pending for ever.
ClearWithoutReject ==
  /\ items' = <<>>
  /\ UNCHANGED <<processing, closed, draining, scheduled, current,
                 outcome, drainer, owed>>

ClearPending ==
  /\ items' = <<>>
  /\ outcome' = [o \in Ops |-> IF o \in Range(items) THEN "cleared" ELSE outcome[o]]
  /\ owed' = [d \in Drainers |-> owed[d] \ Range(items)]
  /\ UNCHANGED <<processing, closed, draining, scheduled, current, drainer>>

-----------------------------------------------------------------------------
SettleSome == \E verdict \in {"resolved", "rejected"} : Settle(verdict)

Next ==
  \/ \E o \in Ops : Enqueue(o)
  \/ EnterProcess
  \/ SettleSome
  \/ \E d \in Drainers : Drain(d)
  \/ Close
  \/ ClearPending

\* The event loop runs every queued microtask, and the execute() of an item,
\* once started, ends.  Nobody is obliged to enqueue, drain, close or clear.
Fairness == WF_vars(EnterProcess) /\ WF_vars(SettleSome)

Safety == Init /\ [][Next]_vars
Spec == Safety /\ Fairness

-----------------------------------------------------------------------------
(* Properties *)

TypeOK ==
  /\ items \in Seq(Ops)
  /\ processing \in BOOLEAN
  /\ closed \in BOOLEAN
  /\ draining \in BOOLEAN
  /\ scheduled \in BOOLEAN
  /\ current \in Ops \cup {NoOp}
  /\ outcome \in [Ops -> Outcomes]
  /\ drainer \in [Drainers -> {"idle", "waiting", "resolved"}]
  /\ owed \in [Drainers -> SUBSET Ops]

\* The wake-up of #process is never lost and never doubled: while items wait
\* or a caller waits for the drain promise, exactly one of the microtask and
\* the suspended loop exists, and #processing is TRUE exactly then.
OneProcessLoop ==
  /\ processing = (scheduled \/ current # NoOp)
  /\ ~(scheduled /\ current # NoOp)
  /\ items # <<>> => processing
  /\ \A d \in Drainers : drainer[d] = "waiting" => processing /\ draining

\* A promise handed to a caller of enqueue is unsettled exactly while its item
\* is held by the queue, in one place only: no caller waits for an item that
\* was dropped, and no item is executed twice for one call.
HeldExactlyOnce ==
  /\ \A o \in Ops : o \in Pending <=> (o = current \/ o \in Range(items))
  /\ \A i, j \in DOMAIN items : items[i] = items[j] => i = j
  /\ current \notin Range(items)

\* When the promise of a drain call is resolved, every operation accepted
\* before that call is settled: closeBunQL closes the database on the strength
\* of it (bunql-close.ts:16-22).
DrainMeansSettled ==
  \A d \in Drainers : drainer[d] = "resolved" => owed[d] = {}

\* Every accepted operation is settled, whatever is enqueued after it.
AcceptedIsSettled ==
  \A o \in Ops : outcome[o] = "pending" ~> outcome[o] # "pending"

\* Once the queue is closed a drain call returns, even if callers keep calling
\* enqueue (while it is open they may keep a drain call waiting for ever).
ClosedQueueDrains ==
  \A d \in Drainers :
    closed /\ drainer[d] = "waiting" ~> drainer[d] = "resolved"

\* The queue implements the serial executor: its backlog is the item in
\* execution followed by the waiting ones.
Backlog == IF current = NoOp THEN items ELSE <<current>> \o items

Executor == INSTANCE SerialExecutor WITH backlog <- Backlog, shut <- closed

SerialInOrder == Executor!ExecSpec
=============================================================================
