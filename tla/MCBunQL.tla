------------------------------ MODULE MCBunQL ------------------------------
(* Transactions that may compete or nest, a batch, an exec, a vacuum and a run, *)
(* each with its attempts, and close() at any moment.                           *)
EXTENDS BunQL

MCCalls == Attempts(Txs \cup Batches \cup Execs \cup Vacuums \cup RunOps)
=============================================================================
