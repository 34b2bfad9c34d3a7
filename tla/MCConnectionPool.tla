-------------------------- MODULE MCConnectionPool --------------------------
(* More callers than the pool may have connections, and as many connection    *)
(* objects as the callers can hold together with the ones nobody closed.      *)
EXTENDS ConnectionPool
=============================================================================
