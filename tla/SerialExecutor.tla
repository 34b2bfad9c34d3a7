--------------------------- MODULE SerialExecutor ---------------------------
(***************************************************************************)
(* What the write queue of BunQL promises to its callers, with no trace of  *)
(* how it does it: a backlog of accepted operations served one at a time,   *)
(* oldest first, each accepted operation getting exactly one outcome.       *)
(*                                                                         *)
(* An outside party may cancel the operations that wait behind the one in   *)
(* service (and that one too, when its service has not begun), and may shut *)
(* the executor, after which submissions are refused.                       *)
(***************************************************************************)
EXTENDS Sequences, Naturals

CONSTANT Ops            \* the operations callers may submit, again and again

VARIABLES
  backlog,              \* accepted and not yet settled, in acceptance order
  outcome,              \* the last thing each operation's caller was told
  shut                  \* no submission is accepted any more

execVars == <<backlog, outcome, shut>>

Outcomes == {"new", "pending", "resolved", "rejected", "cleared", "refused"}

ExecTypeOK ==
  /\ backlog \in Seq(Ops)
  /\ outcome \in [Ops -> Outcomes]
  /\ shut \in BOOLEAN

ExecInit ==
  /\ backlog = <<>>
  /\ outcome = [o \in Ops |-> "new"]
  /\ shut = FALSE

Submit(o) ==
  /\ ~shut
  /\ outcome[o] # "pending"
  /\ backlog' = Append(backlog, o)
  /\ outcome' = [outcome EXCEPT ![o] = "pending"]
  /\ UNCHANGED shut

Refuse(o) ==
  /\ shut
  /\ outcome[o] # "pending"
  /\ outcome' = [outcome EXCEPT ![o] = "refused"]
  /\ UNCHANGED <<backlog, shut>>

Serve ==
  /\ backlog # <<>>
  /\ \E verdict \in {"resolved", "rejected"} :
       outcome' = [outcome EXCEPT ![Head(backlog)] = verdict]
  /\ backlog' = Tail(backlog)
  /\ UNCHANGED shut

CancelWaiting ==
  /\ \E n \in {0, 1} :
       /\ n <= Len(backlog)
       /\ backlog' = SubSeq(backlog, 1, n)
       /\ outcome' = [o \in Ops |->
                        IF \E i \in (n + 1)..Len(backlog) : backlog[i] = o
                          THEN "cleared" ELSE outcome[o]]
  /\ UNCHANGED shut

Shut ==
  /\ shut' = TRUE
  /\ UNCHANGED <<backlog, outcome>>

ExecNext ==
  \/ \E o \in Ops : Submit(o) \/ Refuse(o)
  \/ Serve
  \/ CancelWaiting
  \/ Shut

ExecSafety == ExecInit /\ [][ExecNext]_execVars

\* The executor never stops serving while it has a backlog.
ExecSpec == ExecSafety /\ WF_execVars(Serve)
=============================================================================
