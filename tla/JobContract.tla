---------------------------- MODULE JobContract ----------------------------
(***************************************************************************)
(* What the scheduler promises the queue about each claim, seen from the   *)
(* requests that arrive: one worker is submitted, its files are delivered  *)
(* in order with repetitions but without gaps, then one outcome is         *)
(* reported, any number of times, and after the queue has refused the      *)
(* claim nothing at all.  A new claim starts over.  ManagedScheduler       *)
(* implements this specification.                                          *)
(***************************************************************************)
EXTENDS Naturals

CONSTANTS Jobs, Outcomes, MaxFiles

VARIABLES submitted,   \* workers submitted under the present claim of a job
          delivered,   \* files delivered under it
          reported,    \* outcomes reported under it
          lost         \* jobs whose claim the queue has refused

contractVars == <<submitted, delivered, reported, lost>>

Init == /\ submitted = [j \in Jobs |-> 0]
        /\ delivered = [j \in Jobs |-> {}]
        /\ reported = [j \in Jobs |-> {}]
        /\ lost = {}

Grant(j) == /\ submitted' = [submitted EXCEPT ![j] = 0]
            /\ delivered' = [delivered EXCEPT ![j] = {}]
            /\ reported' = [reported EXCEPT ![j] = {}]
            /\ lost' = lost \ {j}

\* Nothing is final about the claim yet.
Open(j) == reported[j] = {} /\ j \notin lost

Submit(j) == /\ Open(j)
             /\ submitted[j] = 0
             /\ submitted' = [submitted EXCEPT ![j] = 1]
             /\ UNCHANGED <<delivered, reported, lost>>

Deliver(j) == /\ Open(j)
              /\ submitted[j] = 1
              /\ \E f \in 1..MaxFiles :
                   /\ 1..(f - 1) \subseteq delivered[j]
                   /\ delivered' = [delivered EXCEPT ![j] = @ \cup {f}]
              /\ UNCHANGED <<submitted, reported, lost>>

\* The first report decides; a job no worker was submitted for can only fail.
Report(j, o) == /\ j \notin lost
                /\ reported[j] \subseteq {o}
                /\ o = "succeeded" => submitted[j] = 1
                /\ reported' = [reported EXCEPT ![j] = {o}]
                /\ UNCHANGED <<submitted, delivered, lost>>

Lose(j) == /\ lost' = lost \cup {j}
           /\ UNCHANGED <<submitted, delivered, reported>>

Next == \E j \in Jobs : \/ Grant(j) \/ Submit(j) \/ Deliver(j) \/ Lose(j)
                        \/ \E o \in Outcomes : Report(j, o)

Spec == Init /\ [][Next]_contractVars
=============================================================================
