------------------------ MODULE MCTransactionManager ------------------------
(* Three calls: any of them may compete for the queue or be made inside a     *)
(* callback, so two nest side by side or one inside the other.               *)
EXTENDS TransactionManager
=============================================================================
