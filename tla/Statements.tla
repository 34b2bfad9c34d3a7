----------------------------- MODULE Statements -----------------------------
(***************************************************************************)
(* Prepared statements of one connection: the LRU cache of statement-cache.ts, *)
(* the Statement objects that prepare() returns (statement-wrapper.ts), which   *)
(* keep the native statement the cache gave them, the clear() of close(), and    *)
(* the statements that are prepared past the cache: by a transaction for itself *)
(* (transaction-context.ts), by pragma(), the maintenance operations and the    *)
(* FTS5 helper (bunql-core.ts, bunql-maintenance.ts, fts5.ts).                   *)
(*                                                                         *)
(* Everything here is synchronous: an action is one call.  A native statement *)
(* is a member of Stmts, used again when it is finalized and nobody refers to  *)
(* it; running a finalized one throws.  Running a Statement object is no action:*)
(* it goes straight to the native statement it was made with and changes neither *)
(* the cache nor its order.  The hit and miss counters, which only cacheStats() *)
(* reads, are left out.                                                       *)
(***************************************************************************)
EXTENDS Naturals, Sequences, Functions

CONSTANTS
  Sqls,           \* statement texts
  Stmts,          \* native statements
  Wrappers,       \* the Statement objects of the callers
  Contexts,       \* the transactions, outer and nested
  DirectSqls,     \* the texts that are prepared past the cache
  MaxSize,        \* #maxSize of the cache
  None            \* no statement, no text

ASSUME StatementsAssumption ==
  /\ MaxSize \in Nat \ {0}
  /\ None \notin Sqls \cup Stmts
  /\ DirectSqls \subseteq Sqls

VARIABLES
  order,          \* the keys of #cache, the least recently used first
  cached,         \* the values of #cache
  text,           \* what each native statement is prepared from, None: finalized
  wrapper,        \* sql and native of each Statement object
  stmtCache,      \* the statements of each transaction's context, by their texts
  ended,          \* the contexts kept by somebody after their transaction ended
  closed,         \* close() has cleared the cache and closed the connection
  recent,         \* history: the texts by their last get() that succeeded, the
                  \* latest last
  stray           \* history: the statements prepared past the cache and outside a
                  \* transaction in progress, while they are prepared

vars == <<order, cached, text, wrapper, stmtCache, ended, closed, recent, stray>>

NoWrapper == [sql |-> None, native |-> None]
NoContext == <<>>
Exists(x) == stmtCache[x] # NoContext

\* The transaction of x is in progress.
Open(x) == Exists(x) /\ x \notin ended

Init ==
  /\ order = <<>>
  /\ cached = [q \in Sqls |-> None]
  /\ text = [s \in Stmts |-> None]
  /\ wrapper = [w \in Wrappers |-> NoWrapper]
  /\ stmtCache = [x \in Contexts |-> NoContext]
  /\ ended = {}
  /\ closed = FALSE
  /\ recent = <<>>
  /\ stray = {}

Live(s) == s \in Stmts /\ text[s] # None

Held(s) ==
  \/ \E q \in Sqls : cached[q] = s
  \/ \E w \in Wrappers : wrapper[w].native = s
  \/ \E x \in Contexts : Exists(x) /\ \E q \in DirectSqls : stmtCache[x][q] = s

\* What db.prepare returns: a statement that nobody refers to.  Stmts bounds how
\* many there may be at once.
Unused == {s \in Stmts : ~Live(s) /\ ~Held(s)}
NewStatement == CHOOSE s \in Unused : TRUE

\* finalize() of every native statement in the set S.
Finalized(S) == [s \in Stmts |-> IF s \in S THEN None ELSE text[s]]

\* The sequence s, which holds q at most once, without it.
Without(s, q) ==
  IF q \in Range(s)
    THEN LET i == CHOOSE j \in DOMAIN s : s[j] = q
         IN SubSeq(s, 1, i - 1) \o SubSeq(s, i + 1, Len(s))
    ELSE s

Latest(q) == Append(Without(recent, q), q)

-----------------------------------------------------------------------------
(* StatementCache.get *)

Hit(q) ==
  /\ cached[q] # None
  /\ order' = Append(Without(order, q), q)
  /\ recent' = Latest(q)
  /\ UNCHANGED <<cached, text>>

\* BUG: one entry too many, one entry too few.
EvictedTooLate == IF Len(order) > MaxSize THEN {Head(order)} ELSE {}
EvictedTooEarly == IF Len(order) + 1 >= MaxSize /\ order # <<>> THEN {Head(order)} ELSE {}

\* The entries #evict removes to make room for one more.
Evicted == IF Len(order) >= MaxSize THEN {Head(order)} ELSE {}

Kept == IF Evicted = {} THEN order ELSE Tail(order)

KeptCached == [q \in Sqls |-> IF q \in Evicted THEN None ELSE cached[q]]

Miss(q) ==
  /\ cached[q] = None
  /\ Unused # {}
  /\ order' = Append(Kept, q)
  /\ cached' = [KeptCached EXCEPT ![q] = NewStatement]
  /\ text' = [Finalized({cached[p] : p \in Evicted}) EXCEPT ![NewStatement] = q]
  /\ recent' = Latest(q)

\* db.prepare throws, after the eviction.
MissFails(q) ==
  /\ cached[q] = None
  /\ order' = Kept
  /\ cached' = KeptCached
  /\ text' = Finalized({cached[p] : p \in Evicted})
  /\ UNCHANGED recent

Get(q) == Hit(q) \/ Miss(q)

-----------------------------------------------------------------------------
(* The callers of the cache *)

\* query(), querySync(), run() and batch(): the statement runs at once.
Execute(q) ==
  /\ ~closed
  /\ Get(q) \/ MissFails(q)
  /\ UNCHANGED <<wrapper, stmtCache, ended, closed, stray>>

\* prepare(): the Statement object keeps the native statement it got.
Prepare(w, q) ==
  /\ ~closed
  /\ wrapper[w] = NoWrapper
  /\ Get(q)
  /\ wrapper' = [wrapper EXCEPT ![w] = [sql |-> q, native |-> cached'[q]]]
  /\ UNCHANGED <<stmtCache, ended, closed, stray>>

\* BUG: the finalized statement stays in the cache.
RemoveKeepingEntry(q) ==
  /\ text' = Finalized({cached[q]})
  /\ UNCHANGED <<order, cached>>

\* remove(): finalizes what the cache holds for the text, if anything.
RemoveStatement(q) ==
  /\ text' = Finalized({cached[q]})
  /\ cached' = [cached EXCEPT ![q] = None]
  /\ order' = Without(order, q)

\* finalize() of a Statement object, which its owner may keep, and finalize
\* again: remove() goes by the text, whichever statement the cache has for it.
Finalize(w) ==
  /\ wrapper[w] # NoWrapper
  /\ RemoveStatement(wrapper[w].sql)
  /\ UNCHANGED <<wrapper, stmtCache, ended, closed, recent, stray>>

\* The owner drops a Statement object.
Forget(w) ==
  /\ wrapper[w] # NoWrapper
  /\ wrapper' = [wrapper EXCEPT ![w] = NoWrapper]
  /\ UNCHANGED <<order, cached, text, stmtCache, ended, closed, recent, stray>>

Clear ==
  /\ order' = <<>>
  /\ cached' = [q \in Sqls |-> None]
  /\ text' = Finalized({cached[q] : q \in Sqls})

\* closeBunQL, after the drain: the transactions that were queued have ended.  The
\* cache is cleared and the connection closed in one segment.
Close ==
  /\ ~closed
  /\ \A x \in Contexts : ~Open(x)
  /\ closed' = TRUE
  /\ Clear
  /\ UNCHANGED <<wrapper, stmtCache, ended, recent, stray>>

-----------------------------------------------------------------------------
(* Transactions *)

TxBegins(x) ==
  /\ ~closed /\ ~Exists(x)
  /\ stmtCache' = [stmtCache EXCEPT ![x] = [q \in DirectSqls |-> None]]
  /\ UNCHANGED <<order, cached, text, wrapper, ended, closed, recent, stray>>

\* run(), query(), prepare() and batch() of the context, which whoever kept it may
\* call after its transaction has ended too: what it has of the text is used as it
\* is, finalized or not; a new statement may fail to prepare, and does when the
\* connection is closed.
GetOrPrepare(x, q) ==
  /\ Exists(x) /\ stmtCache[x][q] = None
  /\ ~closed
  /\ Unused # {}
  /\ stmtCache' = [stmtCache EXCEPT ![x][q] = NewStatement]
  /\ text' = [text EXCEPT ![NewStatement] = q]
  /\ stray' = IF Open(x) THEN stray ELSE stray \cup {NewStatement}
  /\ UNCHANGED <<order, cached, wrapper, ended, closed, recent>>

\* finalize() of what the context's prepare() returned: the map keeps it.
TxFinalize(x, q) ==
  /\ Exists(x) /\ Live(stmtCache[x][q])
  /\ text' = Finalized({stmtCache[x][q]})
  /\ stray' = stray \ {stmtCache[x][q]}
  /\ UNCHANGED <<order, cached, wrapper, stmtCache, ended, closed, recent>>

\* BUG: the statements are finalized only when the callback has not thrown.
TxEndsWithoutFinally(x) ==
  /\ Open(x)
  /\ ended' = ended \cup {x}
  /\ UNCHANGED <<order, cached, text, wrapper, stmtCache, closed, recent, stray>>

\* The finally block, however the transaction ends.
TxEnds(x) ==
  /\ Open(x)
  /\ text' = Finalized({stmtCache[x][q] : q \in DirectSqls})
  /\ ended' = ended \cup {x}
  /\ UNCHANGED <<order, cached, wrapper, stmtCache, closed, recent, stray>>

\* Nobody refers any more to the context or to what its prepare() returned.
TxForget(x) ==
  /\ x \in ended
  /\ stmtCache' = [stmtCache EXCEPT ![x] = NoContext]
  /\ ended' = ended \ {x}
  /\ UNCHANGED <<order, cached, text, wrapper, closed, recent, stray>>

-----------------------------------------------------------------------------
(* Statements that are prepared, run once and dropped *)

\* pragma(), walStatus(), vacuum(), checkpoint() and the FTS5 helper.
PrepareDirect(q) ==
  /\ ~closed
  /\ Unused # {}
  /\ text' = [text EXCEPT ![NewStatement] = q]
  /\ stray' = stray \cup {NewStatement}
  /\ UNCHANGED <<order, cached, wrapper, stmtCache, ended, closed, recent>>

\* The garbage collector finalizes a statement that nobody refers to.
Collect(s) ==
  /\ s \in stray /\ ~Held(s)
  /\ text' = Finalized({s})
  /\ stray' = stray \ {s}
  /\ UNCHANGED <<order, cached, wrapper, stmtCache, ended, closed, recent>>

Next ==
  \/ \E q \in Sqls : Execute(q)
  \/ \E w \in Wrappers, q \in Sqls : Prepare(w, q)
  \/ \E w \in Wrappers : Finalize(w) \/ Forget(w)
  \/ \E x \in Contexts : TxBegins(x) \/ TxEnds(x) \/ TxForget(x)
  \/ \E x \in Contexts, q \in DirectSqls : GetOrPrepare(x, q) \/ TxFinalize(x, q)
  \/ \E q \in DirectSqls : PrepareDirect(q)
  \/ \E s \in Stmts : Collect(s)
  \/ Close

Spec == Init /\ [][Next]_vars

-----------------------------------------------------------------------------
(* Properties *)

\* Type correctness, with the size of the map: never more than MaxSize entries,
\* each text at most once.
TypeOK ==
  /\ order \in Seq(Sqls) /\ Len(order) <= MaxSize
  /\ cached \in [Sqls -> Stmts \cup {None}]
  /\ {q \in Sqls : cached[q] # None} = {order[i] : i \in DOMAIN order}
  /\ \A i, j \in DOMAIN order : order[i] = order[j] => i = j
  /\ text \in [Stmts -> Sqls \cup {None}]
  /\ wrapper \in [Wrappers -> [sql : Sqls, native : Stmts] \cup {NoWrapper}]
  /\ stmtCache \in [Contexts -> [DirectSqls -> Stmts \cup {None}] \cup {NoContext}]
  /\ ended \subseteq {x \in Contexts : Exists(x)}
  /\ closed \in BOOLEAN
  /\ recent \in Seq(Sqls)
  /\ stray \subseteq {s \in Stmts : Live(s)}

\* The cache gives out only statements that are prepared from the text asked for
\* and not finalized, whoever finalized what before (statement-cache.ts get).
CachedAreLive ==
  \A q \in Sqls : cached[q] # None => text[cached[q]] = q

\* The cache, or the finally block of a transaction in progress, will finalize s.
Owned(s) ==
  \/ \E q \in Sqls : cached[q] = s
  \/ \E x \in Contexts : Open(x) /\ \E q \in DirectSqls : stmtCache[x][q] = s

\* The native statements that stay prepared with no code left to finalize them are
\* exactly the ones that were prepared past the cache and outside a transaction in
\* progress: by pragma(), maintenance and FTS5, or through a context kept after its
\* transaction.  Every other one is finalized, by eviction, remove(), the end of
\* its transaction or close(), however it failed or was finalized before, and no
\* owner ever finalizes a stray one.
OnlyStraysAreUnowned ==
  \A s \in Stmts : Live(s) => (s \in stray <=> ~Owned(s))

\* The texts among the last n got.
LastGot(n) == {recent'[i] : i \in {j \in DOMAIN recent' : j + n > Len(recent')}}

\* A get() that succeeds never finalizes the statement of an object whose text is
\* among the last MaxSize that were got.  Only a get() counts, by prepare(), query(),
\* run() or batch(): running an object does not, and a get() whose text cannot be
\* prepared evicts as well and is left out.
RecentStaysUsable ==
  [][recent' # recent =>
       \A w \in Wrappers :
         Live(wrapper[w].native) /\ wrapper[w].sql \in LastGot(MaxSize)
           => text'[wrapper[w].native] = wrapper[w].sql]_vars
=============================================================================
