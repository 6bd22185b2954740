--------------------------- MODULE CollectorQueue ---------------------------
(***************************************************************************)
(* The managed collector queue of BloodHound Enterprise (BHE), the service *)
(* the scheduler talks to.  Its code is not part of this repository: what  *)
(* it does is taken from how scheduler/service.py and                      *)
(* core/clients/bloodhound_enterprise.py use it.  It is modelled as        *)
(* permissively as those uses allow.                                       *)
(*                                                                         *)
(* bhe[j] is where the queue has job j, seen from this collector:          *)
(*   "available"  listed by discovery                                      *)
(*   "claimed"    assigned to this collector, not started                  *)
(*   "running"    started by this collector                                *)
(*   "elsewhere"  assigned to another collector                            *)
(*   "succeeded", "failed"  ended by this collector with that outcome      *)
(*   "closed"     ended in any other way (another collector, an operator,  *)
(*                the queue itself)                                        *)
(* lease[j] is TRUE until the time given as claim_expires_at passes.       *)
(***************************************************************************)
EXTENDS Naturals

CONSTANTS Jobs,   \* managed jobs
          None    \* no job

ASSUME NoneAssumption == None \notin Jobs

VARIABLES bhe, lease

queueVars == <<bhe, lease>>

Outcomes == {"succeeded", "failed"}
JobStates ==
  {"available", "claimed", "running", "elsewhere", "closed"} \cup Outcomes

QueueTypeOK == /\ bhe \in [Jobs -> JobStates]
               /\ lease \in [Jobs -> BOOLEAN]

QueueInit == /\ bhe = [j \in Jobs |-> "available"]
             /\ lease = [j \in Jobs |-> FALSE]

Held(j) == bhe[j] \in {"claimed", "running"}

\* The queue accepts start and end for j from this collector.
Actionable(j) == bhe[j] = "running" \/ (bhe[j] = "claimed" /\ lease[j])

---------------------------------------------------------------------------
(* Effects of the requests this collector makes. *)

GrantClaim(j) == /\ bhe[j] = "available"
                 /\ bhe' = [bhe EXCEPT ![j] = "claimed"]
                 /\ lease' = [lease EXCEPT ![j] = TRUE]

\* A repeated claim is confirmed, and does not renew the lease.
ConfirmClaim(j) == bhe[j] = "claimed" /\ UNCHANGED queueVars

\* 404 or 409: not ours to claim, or we already hold another job.
RefuseClaim(j) == /\ bhe[j] # "claimed"
                  /\ bhe[j] = "available" => \E k \in Jobs \ {j} : Held(k)
                  /\ UNCHANGED queueVars

\* Starting a job that is already running changes nothing but the lease.
AcceptStart(j) == /\ Actionable(j)
                  /\ bhe' = [bhe EXCEPT ![j] = "running"]
                  /\ lease' = [lease EXCEPT ![j] = TRUE]

RenewLease(j) == /\ bhe[j] = "running"
                 /\ lease' = [lease EXCEPT ![j] = TRUE]
                 /\ UNCHANGED bhe

AcceptEnd(j, o) == /\ Actionable(j)
                   /\ bhe' = [bhe EXCEPT ![j] = o]
                   /\ UNCHANGED lease

---------------------------------------------------------------------------
(* What happens in the queue without this collector. *)

LeaseExpires(j) == /\ lease[j]
                   /\ lease' = [lease EXCEPT ![j] = FALSE]
                   /\ UNCHANGED bhe

\* The queue takes a job back: cancelled, or its lease has passed.
TakeBack(j) == /\ Held(j)
               /\ \E s \in {"available", "closed"} : bhe' = [bhe EXCEPT ![j] = s]
               /\ UNCHANGED lease

LapsedTakeBack(j) == ~lease[j] /\ TakeBack(j)

AnotherCollector(j) ==
  /\ \/ bhe[j] = "available" /\ bhe' = [bhe EXCEPT ![j] = "elsewhere"]
     \/ /\ bhe[j] = "elsewhere"
        /\ \E s \in {"available", "closed"} : bhe' = [bhe EXCEPT ![j] = s]
  /\ UNCHANGED lease

QueueNext == \E j \in Jobs : LeaseExpires(j) \/ TakeBack(j) \/ AnotherCollector(j)
=============================================================================
