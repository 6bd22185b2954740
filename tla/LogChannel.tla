----------------------------- MODULE LogChannel -----------------------------
(***************************************************************************)
(* What WorkerLogRouter (core/logging.py) promises a scheduler: the worker *)
(* records it has accepted are handled in the order of their acceptance,   *)
(* each once, and it is not closed before the last of them, unless the     *)
(* process that keeps the queue has died.                                  *)
(***************************************************************************)
EXTENDS Naturals, Sequences

CONSTANT Records  \* the records a worker may put

VARIABLES accepted,  \* the records workers have put
          handled,   \* the records that were handed to the destinations
          open,      \* the scheduler has not stopped
          broken     \* the manager process has died

channel == <<accepted, handled, open, broken>>

Init ==
  /\ accepted = <<>>
  /\ handled = <<>>
  /\ open = TRUE
  /\ broken = FALSE

Open ==
  /\ ~open
  /\ open' = TRUE
  /\ broken' = FALSE
  /\ accepted' = <<>>
  /\ handled' = <<>>

Accept ==
  /\ open
  /\ ~broken
  /\ \E r \in Records : accepted' = Append(accepted, r)
  /\ UNCHANGED <<handled, open, broken>>

Handle ==
  /\ open
  /\ Len(handled) < Len(accepted)
  /\ handled' = Append(handled, accepted[Len(handled) + 1])
  /\ UNCHANGED <<accepted, open, broken>>

Break ==
  /\ open
  /\ broken' = TRUE
  /\ UNCHANGED <<accepted, handled, open>>

Close ==
  /\ open
  /\ broken \/ handled = accepted
  /\ open' = FALSE
  /\ UNCHANGED <<accepted, handled, broken>>

Next == Open \/ Accept \/ Handle \/ Break \/ Close

Spec == Init /\ [][Next]_channel

=============================================================================
