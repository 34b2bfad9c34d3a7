---------------------------- MODULE MCWriteQueue ----------------------------
(* Three operations, each enqueued any number of times, and two callers of   *)
(* drain: enough for an item in execution, one waiting and one arriving,     *)
(* and for two waiters that share the drain promise.                         *)
EXTENDS WriteQueue
=============================================================================
