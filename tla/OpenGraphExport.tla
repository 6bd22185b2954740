--------------------------- MODULE OpenGraphExport ---------------------------
(***************************************************************************)
(* What a load of graph files promises its reader, whatever is retried,    *)
(* interrupted or run again: each load job goes in one step from nothing   *)
(* to all its items in their order, and the load returns when all have.    *)
(***************************************************************************)
EXTENDS Naturals

CONSTANTS LoadJobs,
          ItemCount,   \* items of each load job
          NotYet

VARIABLES exported,    \* items exported for each job, or NotYet
          status       \* "loading", "returned", "discarded"

Items(j) == [i \in 1..ItemCount[j] |-> i]

Init == exported = [j \in LoadJobs |-> NotYet] /\ status = "loading"

Commit(j) == /\ status = "loading"
             /\ exported[j] = NotYet
             /\ exported' = [exported EXCEPT ![j] = Items(j)]
             /\ UNCHANGED status

Return == /\ status = "loading"
          /\ \A j \in LoadJobs : exported[j] = Items(j)
          /\ status' = "returned"
          /\ UNCHANGED exported

\* The load fails and its output is removed.
Discard == /\ status = "loading"
           /\ status' = "discarded"
           /\ exported' = [j \in LoadJobs |-> NotYet]

Next == (\E j \in LoadJobs : Commit(j)) \/ Return \/ Discard

Spec == Init /\ [][Next]_<<exported, status>>
=============================================================================
