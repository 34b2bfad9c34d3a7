-------------------------- MODULE SqliteConnection --------------------------
(***************************************************************************)
(* The one SQLite connection every write of a BunQL database goes through,   *)
(* as the code in src/src uses it: BEGIN, COMMIT, ROLLBACK, SAVEPOINT,       *)
(* RELEASE, ROLLBACK TO and a statement that writes a row.  SQLite itself is *)
(* not part of the repository, so this module is external.                   *)
(*                                                                         *)
(* A connection is a record: the rows that are committed, and a stack of     *)
(* frames that is empty in autocommit mode.  A frame holds the rows written  *)
(* since the BEGIN or the SAVEPOINT that pushed it.                          *)
(***************************************************************************)
EXTENDS Sequences, Integers

TxFrame == 0     \* names the frame pushed by BEGIN; savepoints are named 1, 2, ...

Autocommit == [durable |-> {}, stack |-> <<>>]

InTransaction(conn) == conn.stack # <<>>

Uncommitted(conn) == UNION {conn.stack[i].rows : i \in DOMAIN conn.stack}

Visible(conn) == conn.durable \cup Uncommitted(conn)

\* Fails when a transaction is open; the callers test that themselves.
Begin(conn) == [conn EXCEPT !.stack = <<[name |-> TxFrame, rows |-> {}]>>]

\* COMMIT also releases every savepoint that is still open.
Commit(conn) == [durable |-> Visible(conn), stack |-> <<>>]

Rollback(conn) == [conn EXCEPT !.stack = <<>>]

\* SAVEPOINT opens a transaction when there is none.
Savepoint(conn, name) ==
  [conn EXCEPT !.stack = Append(@, [name |-> name, rows |-> {}])]

HasSavepoint(conn, name) ==
  \E i \in DOMAIN conn.stack : conn.stack[i].name = name

\* The most recent frame with that name.
FrameOf(conn, name) ==
  CHOOSE i \in DOMAIN conn.stack :
    /\ conn.stack[i].name = name
    /\ \A j \in DOMAIN conn.stack : conn.stack[j].name = name => j <= i

\* RELEASE merges the frame and those above it into the one below; released at
\* the bottom of the stack, it commits.
Release(conn, name) ==
  LET n == FrameOf(conn, name)
      freed == UNION {conn.stack[i].rows : i \in n..Len(conn.stack)}
  IN IF n = 1
       THEN Commit(conn)
       ELSE [conn EXCEPT
              !.stack = [SubSeq(conn.stack, 1, n - 1) EXCEPT ![n - 1].rows = @ \cup freed]]

\* ROLLBACK TO undoes what the frame and those above it wrote and keeps the
\* savepoint itself.
RollbackTo(conn, name) ==
  LET n == FrameOf(conn, name)
  IN [conn EXCEPT !.stack = [SubSeq(@, 1, n) EXCEPT ![n].rows = {}]]

\* A statement joins whatever transaction is open on the connection.
WriteRow(conn, row) ==
  IF InTransaction(conn)
    THEN [conn EXCEPT !.stack[Len(conn.stack)].rows = @ \cup {row}]
    ELSE [conn EXCEPT !.durable = @ \cup {row}]
=============================================================================
