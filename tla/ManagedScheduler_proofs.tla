----------------------- MODULE ManagedScheduler_proofs -----------------------
(***************************************************************************)
(* Proofs about ManagedScheduler, for any set of jobs, any bound on files   *)
(* and attempts, and heartbeats enabled or disabled.                        *)
(*                                                                          *)
(* The safety properties are not inductive by themselves: that one outcome  *)
(* is sent, say, depends on the future keeping its verdict across polls,    *)
(* and that depends on where the process is.  The proof goes through IInv,  *)
(* one lemma per conjunct, each over all groups of actions.                 *)
(***************************************************************************)
EXTENDS ManagedScheduler, TLAPS

USE DEF vars, pending, job, local, disk, history, queueVars, Goto

---------------------------------------------------------------------------
(* What the calls and the worker do. *)

\* What any of the calls to end_managed_job does in one attempt.
EndStep(j, o) == EndAnswered(j, o) \/ EndUnanswered(j, o)

\* An attempt to end j records the outcome as sent and changes the queue's
\* view of j, if at all, to that outcome.
LEMMA EndEffect ==
  ASSUME NEW j \in Jobs, NEW o \in Outcomes, TypeOK, EndStep(j, o)
  PROVE  /\ QueueTypeOK'
         /\ sent' \in [Jobs -> SUBSET Outcomes]
         /\ sent' = [sent EXCEPT ![j] = @ \cup {o}]
         /\ lease' = lease
         /\ bhe' = bhe \/ (Actionable(j) /\ bhe' = [bhe EXCEPT ![j] = o])
  BY DEF EndStep, EndAnswered, EndUnanswered, AcceptEnd, Sent, TypeOK, QueueTypeOK,
       JobStates

\* Once an end has been answered, with 200 or with 404, the queue would take
\* no further start or end for j: the scheduler may drop it.
LEMMA EndSettles ==
  ASSUME NEW j \in Jobs, NEW o \in Outcomes, TypeOK, EndAnswered(j, o)
  PROVE  bhe'[j] # "running" /\ ~(bhe'[j] = "claimed" /\ lease'[j])
<1>1. CASE AcceptEnd(j, o)
  BY <1>1 DEF AcceptEnd, TypeOK, QueueTypeOK, Outcomes
<1>2. CASE ~Actionable(j) /\ UNCHANGED queueVars
  BY <1>2 DEF Actionable
<1> QED BY <1>1, <1>2 DEF EndAnswered

\* Every step of reporting a credential failure is an attempt to end the
\* pending failure as failed.
LEMMA ReportEnds ==
  ASSUME TypeOK, ControlInv, Report
  PROVE  pendingFailure \in Jobs /\ EndStep(pendingFailure, "failed") /\ "failed" \in Outcomes
  BY DEF TypeOK, Report, ReportRetried, ReportAnswered, ReportRaised, EndRetried,
       ControlInv, EndStep, Outcomes

\* Every step after a failed submission is an attempt to end the job as failed.
LEMMA UndoEnds ==
  ASSUME TypeOK, ControlInv, Undo
  PROVE  jobRunning \in Jobs /\ EndStep(jobRunning, "failed") /\ "failed" \in Outcomes
  BY DEF TypeOK, Undo, UndoRetried, UndoAnswered, UndoRaised, EndRetried,
       ControlInv, EndStep, Outcomes

\* Every step that ends a completed job is an attempt to end it with the
\* verdict computed from its Result.
LEMMA CompleteEnds ==
  ASSUME TypeOK, ControlInv, Complete
  PROVE  jobRunning \in Jobs /\ EndStep(jobRunning, Verdict) /\ Verdict \in Outcomes
  BY DEF TypeOK, Complete, CompleteRetried, CompleteAnswered, CompleteRaised, EndRetried,
       ControlInv, EndStep, Done, Verdict, Outcomes

\* A claim keeps the types of what it changes.
LEMMA ClaimTyping ==
  ASSUME NEW j \in Jobs, TypeOK, ClaimEffect(j)
  PROVE  /\ QueueTypeOK'
         /\ produced' \in [Jobs -> 0..MaxFiles]
         /\ accepted' \in [Jobs -> SUBSET (1..MaxFiles)]
         /\ sent' \in [Jobs -> SUBSET Outcomes]
         /\ submits' \in [Jobs -> 0..2]
         /\ told' \in SUBSET Jobs
         /\ orphans' \in SUBSET Jobs
<1>1. CASE ConfirmClaim(j) /\ UNCHANGED history
  BY <1>1 DEF ConfirmClaim, TypeOK, QueueTypeOK
<1>2. CASE GrantClaim(j) /\ ~ConfirmClaim(j)
  <2>1. QueueTypeOK'
    BY <1>2 DEF GrantClaim, TypeOK, QueueTypeOK, JobStates
  <2>2. produced' \in [Jobs -> 0..MaxFiles] /\ submits' \in [Jobs -> 0..2]
    BY <1>2, BoundsAssumption DEF ClaimEffect, TypeOK
  <2>3. accepted' \in [Jobs -> SUBSET (1..MaxFiles)] /\ sent' \in [Jobs -> SUBSET Outcomes]
    BY <1>2 DEF ClaimEffect, TypeOK
  <2>4. told' \in SUBSET Jobs /\ orphans' \in SUBSET Jobs
    BY <1>2 DEF ClaimEffect, TypeOK
  <2> QED BY <2>1, <2>2, <2>3, <2>4
<1> QED BY <1>1, <1>2 DEF ClaimEffect, ConfirmClaim, GrantClaim

\* A worker step finishes the future of the running job and touches nothing
\* the poll loop keeps; only a success stages files.
LEMMA WorkerEffect ==
  ASSUME TypeOK, ControlInv, HandInv, Worker
  PROVE  /\ jobRunning \in Jobs /\ pending = <<None, None, None>> /\ future.st = "running"
         /\ UNCHANGED <<queueVars, pc, exit, stopping, attempt, pending, job>>
         /\ UNCHANGED <<accepted, sent, submits, told, orphans>>
         /\ future'.uploaded = future.uploaded /\ future'.failure = future.failure
         /\ \/ /\ future'.st = "ok" /\ future'.files \in 0..MaxFiles
               /\ produced' = [produced EXCEPT ![jobRunning] = future'.files]
            \/ /\ future'.st \in {"failed", "broken"} /\ future'.files = future.files
               /\ produced' = produced
<1>1. jobRunning \in Jobs /\ pending = <<None, None, None>> /\ future.st = "running"
  BY DEF Worker, WorkerSucceeds, WorkerFails, WorkerDies, TypeOK, ControlInv, HandInv
<1>2. CASE WorkerSucceeds
  <2>1. PICK n \in 0..MaxFiles :
          /\ future' = [future EXCEPT !.st = "ok", !.files = n]
          /\ produced' = [produced EXCEPT ![jobRunning] = n]
    BY <1>2 DEF WorkerSucceeds
  <2>2. /\ future'.st = "ok" /\ future'.files = n
        /\ future'.uploaded = future.uploaded /\ future'.failure = future.failure
    BY <2>1 DEF TypeOK, Futures
  <2> QED BY <1>1, <1>2, <2>1, <2>2 DEF WorkerSucceeds
<1>3. CASE WorkerFails
  BY <1>1, <1>3 DEF WorkerFails, TypeOK, Futures
<1>4. CASE WorkerDies
  BY <1>1, <1>4 DEF WorkerDies, TypeOK, Futures
<1> QED BY <1>2, <1>3, <1>4 DEF Worker

\* Only the job in hand has work, and dropping it or its output keeps the sets of
\* directories typed.
LEMMA DropIsTyped ==
  ASSUME TypeOK, ControlInv, NEW A \in BOOLEAN,
         A => DropWork \/ RemoveOutput(jobRunning) \/ LeaveDirectory({jobRunning}),
         ~A => UNCHANGED disk, jobRunning # None
  PROVE  outputs' \in SUBSET Jobs /\ abandoned' \in SUBSET Jobs
<1>1. jobRunning \in Jobs /\ outputs \in SUBSET Jobs /\ abandoned \in SUBSET Jobs
  BY DEF TypeOK
<1>2. CASE RemoveOutput(jobRunning)
  BY <1>1, <1>2 DEF RemoveOutput
<1>3. CASE LeaveDirectory({jobRunning})
  BY <1>1, <1>3 DEF LeaveDirectory
<1>4. CASE UNCHANGED disk
  BY <1>1, <1>4
<1> QED BY <1>2, <1>3, <1>4 DEF DropWork

\* An abort that raises ends the process, or start: then the job stays in hand, and
\* its worker, if it still ran, is found broken.
LEMMA RaisingEffect ==
  ASSUME TypeOK, ControlInv, HeartbeatRefusedRaising
  PROVE  /\ jobRunning \in Jobs /\ Watching /\ workspace /\ DropWork
         /\ UNCHANGED <<queueVars, produced, accepted, sent, submits, told>>
         /\ \/ stopping /\ Forget
            \/ /\ ~stopping /\ pc' = "drain" /\ attempt' = 1 /\ stopping' = TRUE
               /\ UNCHANGED <<exit, pending, job, orphans>>
               /\ future' \in Futures
               /\ future'.files = future.files /\ future'.uploaded = future.uploaded
               /\ future'.failure = future.failure
               /\ future'.st = IF future.st = "running" THEN "broken" ELSE future.st
<1>1. jobRunning \in Jobs
  BY DEF HeartbeatRefusedRaising, TypeOK, ControlInv
<1>2. CASE stopping
  BY <1>1, <1>2 DEF HeartbeatRefusedRaising, Forget
<1>3. CASE ~stopping
  <2>1. /\ future' = [future EXCEPT !.st = IF @ = "running" THEN "broken" ELSE @]
        /\ future \in Futures
    BY <1>3 DEF HeartbeatRefusedRaising, TypeOK
  <2>2. /\ future' \in Futures
        /\ future'.files = future.files /\ future'.uploaded = future.uploaded
        /\ future'.failure = future.failure
        /\ future'.st = IF future.st = "running" THEN "broken" ELSE future.st
    BY <2>1 DEF Futures, Done
  <2> QED BY <1>1, <1>3, <2>2 DEF HeartbeatRefusedRaising
<1> QED BY <1>2, <1>3

---------------------------------------------------------------------------
(* Every step preserves every conjunct of the inductive invariant. *)

\* Every step keeps the variables in their types.
LEMMA TypeStep ==
  ASSUME TypeOK, ControlInv, HandInv, [Next]_vars
  PROVE  TypeOK'
<1> USE BoundsAssumption DEF TypeOK, PCs, MayRetry
<1>1. ASSUME Poll PROVE TypeOK'
  <2>1. UNCHANGED <<queueVars, pendingStart, pendingFailure, jobRunning, future, disk, history>>
    BY <1>1 DEF Poll, StartPoll, BeginCompletion, AfterCompletion, StartShutdown, ResumePending,
         DiscoverNothing, Discover
  <2>2. /\ pc' \in PCs /\ exit' \in BOOLEAN /\ stopping' \in BOOLEAN /\ attempt' = 1
        /\ workspace' \in BOOLEAN
    BY <1>1 DEF Poll, StartPoll, BeginCompletion, AfterCompletion, StartShutdown, ResumePending,
         DiscoverNothing, Discover
  <2>3. pendingClaim' \in Jobs \cup {None}
    BY <1>1 DEF Poll, StartPoll, BeginCompletion, AfterCompletion, StartShutdown, ResumePending,
         DiscoverNothing, Discover
  <2> QED BY <2>1, <2>2, <2>3 DEF QueueTypeOK
<1>2. ASSUME Claim PROVE TypeOK'
  <2>1. pendingClaim \in Jobs
    BY <1>2 DEF Claim, ClaimConfirmed, ClaimRefused, ClaimUnanswered, ClaimFailed,
         ControlInv
  <2>2. CASE ClaimConfirmed
    BY <2>1, <2>2, ClaimTyping DEF ClaimConfirmed
  <2>3. CASE ClaimRefused
    BY <2>3 DEF ClaimRefused, RefuseClaim, QueueTypeOK
  <2>4. CASE ClaimUnanswered
    <3>1. CASE ClaimEffect(pendingClaim)
      BY <2>1, <2>4, <3>1, ClaimTyping DEF ClaimUnanswered
    <3>2. CASE UNCHANGED <<queueVars, history>>
      BY <2>4, <3>2 DEF ClaimUnanswered, QueueTypeOK
    <3> QED BY <2>4, <3>1, <3>2 DEF ClaimUnanswered
  <2>5. CASE ClaimFailed
    <3>1. CASE ClaimEffect(pendingClaim)
      BY <2>1, <2>5, <3>1, ClaimTyping DEF ClaimFailed
    <3>2. CASE UNCHANGED <<queueVars, history>>
      BY <2>5, <3>2 DEF ClaimFailed, QueueTypeOK
    <3> QED BY <2>5, <3>1, <3>2 DEF ClaimFailed
  <2> QED BY <1>2, <2>2, <2>3, <2>4, <2>5 DEF Claim
<1>3. ASSUME Prepare PROVE TypeOK'
  BY <1>3 DEF Prepare, CredentialsLoaded, CredentialsInvalid, QueueTypeOK
<1>4. ASSUME Report PROVE TypeOK'
  <2>1. pendingFailure \in Jobs /\ EndStep(pendingFailure, "failed") /\ "failed" \in Outcomes
    BY <1>4 DEF Report, ReportRetried, ReportAnswered, ReportRaised, EndRetried,
         ControlInv, EndStep, Outcomes
  <2> QED BY <1>4, <2>1, EndEffect DEF Report, ReportRetried, ReportAnswered,
               ReportRaised, EndRetried
<1>5. ASSUME Launch PROVE TypeOK'
  <2>1. CASE StartAccepted
    BY <2>1 DEF StartAccepted, AcceptStart, ControlInv, QueueTypeOK, JobStates
  <2>2. CASE StartRefused
    BY <2>2 DEF StartRefused, QueueTypeOK
  <2>3. CASE StartRaised
    <3>1. QueueTypeOK'
      BY <2>3 DEF StartRaised, AcceptStart, QueueTypeOK, JobStates
    <3> QED BY <2>3, <3>1 DEF StartRaised
  <2>4. CASE Submitted
    <3>1. future' = [st |-> "running", files |-> 0, uploaded |-> 0, failure |-> FALSE]
      BY <2>4 DEF Submitted, NoFuture
    <3>2. submits' \in [Jobs -> 0..2]
      <4>1. jobRunning \in Jobs /\ submits[jobRunning] \in 0..2
        BY <2>4 DEF Submitted, ControlInv
      <4> QED BY <2>4, <4>1 DEF Submitted, CountSubmit
    <3>3. future' \in Futures
      BY <3>1 DEF Futures
    <3> QED BY <2>4, <3>2, <3>3 DEF Submitted, QueueTypeOK
  <2>5. CASE SubmitFailed
    BY <2>5 DEF SubmitFailed, CountSubmit, ControlInv, QueueTypeOK
  <2> QED BY <1>5, <2>1, <2>2, <2>3, <2>4, <2>5 DEF Launch
<1>6. ASSUME Undo PROVE TypeOK'
  <2>1. jobRunning \in Jobs /\ EndStep(jobRunning, "failed") /\ "failed" \in Outcomes
    BY <1>6 DEF Undo, UndoRetried, UndoAnswered, UndoRaised, EndRetried,
         ControlInv, EndStep, Outcomes
  <2>2. NoFuture \in Futures
    BY DEF NoFuture, Futures
  <2>3. QueueTypeOK' /\ sent' \in [Jobs -> SUBSET Outcomes]
    BY <2>1, EndEffect
  <2>4. /\ jobRunning' \in Jobs \cup {None} /\ workspace' \in BOOLEAN /\ future' \in Futures
        /\ orphans' \in SUBSET Jobs
    BY <1>6, <2>1, <2>2 DEF Undo, UndoRetried, UndoAnswered, UndoRaised, EndRetried,
         ClearRunningJob, ClearRaises
  <2>5. /\ pc' \in PCs /\ attempt' \in 1..MaxAttempts
        /\ UNCHANGED <<exit, stopping, pending, disk, produced, accepted, submits, told>>
    BY <1>6 DEF Undo, UndoRetried, UndoAnswered, UndoRaised, EndRetried
  <2> QED BY <2>3, <2>4, <2>5
<1>7. ASSUME Upload PROVE TypeOK'
  <2>1. jobRunning \in Jobs /\ future.uploaded + 1 \in 1..MaxFiles
    BY <1>7 DEF Upload, UploadAccepted, UploadRaised, UploadRejected, UploadRefused,
         ControlInv, Done, Futures, Uploading
  <2>2. CASE UploadAccepted
    BY <2>1, <2>2 DEF UploadAccepted, NextFile, Futures, QueueTypeOK
  <2>3. CASE UploadRaised
    BY <2>1, <2>3 DEF UploadRaised, NextFile, AfterCompletion, QueueTypeOK
  <2>4. CASE UploadRejected
    BY <2>1, <2>4 DEF UploadRejected, Futures, QueueTypeOK
  <2>5. CASE UploadRefused
    <3>1. outputs' \in SUBSET Jobs /\ abandoned' \in SUBSET Jobs
      BY <2>1, <2>5, NoneAssumption, DropIsTyped DEF UploadRefused, Abort
    <3>2. NoFuture \in Futures
      BY DEF NoFuture, Futures
    <3>3. /\ jobRunning' = None /\ workspace' = FALSE /\ future' = NoFuture
          /\ told' = told \cup {jobRunning}
      BY <2>5 DEF UploadRefused, Abort, ClearRunningJob
    <3>4. /\ pc' \in PCs /\ attempt' \in 1..MaxAttempts
          /\ UNCHANGED <<queueVars, exit, stopping, pending, produced, accepted, sent,
                         submits, orphans>>
      BY <2>5 DEF UploadRefused, AfterCompletion
    <3> QED BY <2>1, <3>1, <3>2, <3>3, <3>4 DEF QueueTypeOK
  <2> QED BY <1>7, <2>2, <2>3, <2>4, <2>5 DEF Upload
<1>8. ASSUME Complete PROVE TypeOK'
  <2>1. jobRunning \in Jobs /\ EndStep(jobRunning, Verdict) /\ Verdict \in Outcomes
    BY <1>8 DEF Complete, CompleteRetried, CompleteAnswered, CompleteRaised, EndRetried,
         ControlInv, EndStep, Done, Verdict, Outcomes
  <2>2. NoFuture \in Futures
    BY DEF NoFuture, Futures
  <2>3. QueueTypeOK' /\ sent' \in [Jobs -> SUBSET Outcomes]
    BY <2>1, EndEffect
  <2>4. outputs' \in SUBSET Jobs /\ abandoned' \in SUBSET Jobs
    BY <1>8, <2>1, NoneAssumption, DropIsTyped
       DEF Complete, CompleteRetried, CompleteAnswered, CompleteRaised, EndRetried
  <2>5. jobRunning' \in Jobs \cup {None} /\ workspace' \in BOOLEAN /\ future' \in Futures
    BY <1>8, <2>1, <2>2 DEF Complete, CompleteRetried, CompleteAnswered, CompleteRaised,
         EndRetried, ClearRunningJob
  <2>6. /\ pc' \in PCs /\ attempt' \in 1..MaxAttempts
        /\ UNCHANGED <<exit, stopping, pending, produced, accepted, submits, told, orphans>>
    BY <1>8 DEF Complete, CompleteRetried, CompleteAnswered, CompleteRaised, EndRetried,
         AfterCompletion
  <2> QED BY <2>3, <2>4, <2>5, <2>6
<1>9. ASSUME Watch PROVE TypeOK'
  <2>1. Watching => jobRunning \in Jobs
    BY DEF Watching, ControlInv
  <2>2. AfterWatch => pc' \in PCs /\ attempt' = 1 /\ workspace' \in BOOLEAN
    BY DEF AfterWatch, BeginCompletion, AfterCompletion
  <2>3. NoFuture \in Futures
    BY DEF NoFuture, Futures
  <2>4. CASE WatchJob
    BY <2>2, <2>4 DEF WatchJob, QueueTypeOK
  <2>5. CASE Heartbeat
    <3>1. QueueTypeOK'
      BY <2>5 DEF Heartbeat, RenewLease, QueueTypeOK
    <3> QED BY <2>2, <2>5, <3>1 DEF Heartbeat
  <2>6. CASE HeartbeatRefused
    <3>1. outputs' \in SUBSET Jobs /\ abandoned' \in SUBSET Jobs
      BY <2>1, <2>6, NoneAssumption, DropIsTyped DEF HeartbeatRefused, Abort
    <3>2. /\ jobRunning' = None /\ workspace' = FALSE /\ future' = NoFuture
          /\ told' = told \cup {jobRunning}
      BY <2>6 DEF HeartbeatRefused, Abort, ClearRunningJob
    <3>3. /\ pc' \in PCs /\ attempt' \in 1..MaxAttempts
          /\ UNCHANGED <<queueVars, exit, stopping, pending, produced, accepted, sent,
                         submits, orphans>>
      BY <2>6 DEF HeartbeatRefused
    <3>4. jobRunning \in Jobs
      BY <2>1, <2>6 DEF HeartbeatRefused
    <3> QED BY <2>3, <3>1, <3>2, <3>3, <3>4 DEF QueueTypeOK
  <2>7. CASE HeartbeatRefusedRaising
    <3>1. outputs' \in SUBSET Jobs /\ abandoned' \in SUBSET Jobs
      BY <2>7, NoneAssumption, RaisingEffect, DropIsTyped
    <3>2. CASE Forget
      <4>1. orphans' \in SUBSET Jobs
        BY <3>2 DEF Forget
      <4>2. /\ pc' = "stopped" /\ exit' = FALSE /\ stopping' = FALSE /\ attempt' = 1
            /\ pendingClaim' = None /\ pendingStart' = None /\ pendingFailure' = None
            /\ jobRunning' = None /\ workspace' = FALSE /\ future' = NoFuture
            /\ UNCHANGED <<queueVars, produced, accepted, sent, submits, told>>
        BY <3>2 DEF Forget, ClearRunningJob
      <4>3. 1 \in 1..MaxAttempts
        OBVIOUS
      <4> QED BY <2>3, <3>1, <4>1, <4>2, <4>3 DEF QueueTypeOK
    <3>3. CASE ~Forget
      <4>1. /\ pc' = "drain" /\ attempt' = 1 /\ stopping' = TRUE /\ future' \in Futures
            /\ UNCHANGED <<exit, pending, job, orphans, queueVars, produced, accepted, sent,
                           submits, told>>
        BY ONLY <2>7, <3>3, RaisingEffect, TypeOK, ControlInv
      <4>2. 1 \in 1..MaxAttempts
        OBVIOUS
      <4> QED BY <3>1, <4>1, <4>2 DEF QueueTypeOK
    <3> QED BY <3>2, <3>3
  <2> QED BY <1>9, <2>4, <2>5, <2>6, <2>7 DEF Watch
<1>10. ASSUME Worker PROVE TypeOK'
  <2>1. jobRunning \in Jobs
    BY <1>10 DEF Worker, WorkerSucceeds, WorkerFails, WorkerDies, ControlInv
  <2>2. CASE WorkerSucceeds
    <3>1. PICK n \in 0..MaxFiles :
            /\ future' = [future EXCEPT !.st = "ok", !.files = n]
            /\ produced' = [produced EXCEPT ![jobRunning] = n]
      BY <2>2 DEF WorkerSucceeds
    <3>2. future' \in Futures
      BY <3>1 DEF Futures, Done
    <3>3. produced' \in [Jobs -> 0..MaxFiles]
      BY <3>1
    <3> QED BY <2>1, <2>2, <3>2, <3>3 DEF WorkerSucceeds, QueueTypeOK
  <2>3. CASE WorkerFails
    BY <2>1, <2>3 DEF WorkerFails, LeaveDirectory, Futures, Done, QueueTypeOK
  <2>4. CASE WorkerDies
    BY <2>1, <2>4 DEF WorkerDies, LeaveDirectory, Futures, Done, QueueTypeOK
  <2> QED BY <1>10, <2>2, <2>3, <2>4 DEF Worker
<1>11. ASSUME Stop \/ Crash PROVE TypeOK'
  <2>1. NoFuture \in Futures
    BY DEF NoFuture, Futures
  <2>2. future.st \in {"ok", "running"} => jobRunning \in Jobs
    BY DEF ControlInv
  <2>3. outputs' \in SUBSET Jobs /\ abandoned' \in SUBSET Jobs
    BY <1>11, <2>2 DEF Stop, Crash, LeaveDirectory
  <2>4. Forget
    BY <1>11 DEF Stop, Crash
  <2>5. orphans' \in SUBSET Jobs
    BY <2>4 DEF Forget
  <2>6. pc' \in PCs /\ 1 \in 1..MaxAttempts
    BY <2>4 DEF Forget
  <2> QED BY <2>1, <2>3, <2>4, <2>5, <2>6 DEF Forget, ClearRunningJob, QueueTypeOK
<1>12. ASSUME Signal \/ Restart \/ UNCHANGED vars PROVE TypeOK'
  <2>1. UNCHANGED <<queueVars, stopping, pending, job, future, disk, history>>
    BY <1>12 DEF Signal, Restart
  <2>2. pc' \in PCs
    BY <1>12 DEF Signal, Restart
  <2>3. exit' \in BOOLEAN
    BY <1>12 DEF Signal, Restart
  <2>4. attempt' \in 1..MaxAttempts
    BY <1>12 DEF Signal, Restart
  <2> QED BY <2>1, <2>2, <2>3, <2>4 DEF QueueTypeOK
<1>13. ASSUME Environment PROVE TypeOK'
  <2>1. QueueTypeOK'
    <3> SUFFICES ASSUME NEW j \in Jobs,
    LeaseExpires(j) \/ TakeBack(j) \/ AnotherCollector(j)
                 PROVE  QueueTypeOK'
      BY <1>13 DEF Environment, QueueNext
    <3>1. CASE LeaseExpires(j)
      BY <3>1 DEF LeaseExpires, QueueTypeOK
    <3>2. CASE TakeBack(j) \/ AnotherCollector(j)
      BY <3>2 DEF TakeBack, AnotherCollector, QueueTypeOK, JobStates
    <3> QED BY <3>1, <3>2
  <2> QED BY <1>13, <2>1 DEF Environment
<1> QED BY <1>1, <1>2, <1>3, <1>4, <1>5, <1>6, <1>7, <1>8, <1>9, <1>10, <1>11, <1>12,
             <1>13 DEF Next, Scheduler

\* Every step keeps the control point in agreement with the recovery fields,
\* and the recovery fields exclusive.
LEMMA ControlStep ==
  ASSUME TypeOK, ControlInv, HandInv, [Next]_vars
  PROVE  ControlInv' /\ HandInv'
<1> USE NoneAssumption DEF ControlInv, HandInv, Unoccupied, Stuck
<1>1. ASSUME Poll PROVE ControlInv' /\ HandInv'
  BY <1>1 DEF Poll, StartPoll, BeginCompletion, AfterCompletion, StartShutdown, ResumePending,
       DiscoverNothing, Discover, Done
<1>2. ASSUME Claim PROVE ControlInv' /\ HandInv'
  BY <1>2 DEF Claim, ClaimConfirmed, ClaimRefused, ClaimUnanswered, ClaimFailed
<1>3. ASSUME Prepare PROVE ControlInv' /\ HandInv'
  BY <1>3 DEF Prepare, CredentialsLoaded, CredentialsInvalid
<1>4. ASSUME Report PROVE ControlInv' /\ HandInv'
  BY <1>4 DEF Report, ReportRetried, ReportAnswered, ReportRaised, EndRetried
<1>5. ASSUME Launch PROVE ControlInv' /\ HandInv'
  BY <1>5 DEF Launch, StartAccepted, StartRefused, StartRaised, Submitted, SubmitFailed,
       NoFuture, TypeOK
<1>6. ASSUME Undo PROVE ControlInv' /\ HandInv'
  BY <1>6 DEF Undo, UndoRetried, UndoAnswered, UndoRaised, EndRetried, ClearRunningJob,
       ClearRaises, NoFuture
<1>7. ASSUME Upload PROVE ControlInv' /\ HandInv'
  BY <1>7 DEF Upload, UploadAccepted, UploadRaised, UploadRejected, UploadRefused, Abort,
       ClearRunningJob,
       AfterCompletion, NoFuture, Done, TypeOK, Futures
<1>8. ASSUME Complete PROVE ControlInv' /\ HandInv'
  BY <1>8 DEF Complete, CompleteRetried, CompleteAnswered, CompleteRaised, EndRetried,
       ClearRunningJob,
       AfterCompletion, NoFuture, Done
<1>9. ASSUME Watch PROVE ControlInv' /\ HandInv'
  <2>1. CASE WatchJob \/ Heartbeat
    BY <2>1 DEF WatchJob, Heartbeat, Watching, AfterWatch, BeginCompletion, AfterCompletion, Done
  <2>2. CASE HeartbeatRefused
    BY <2>2 DEF HeartbeatRefused, Watching, Abort, ClearRunningJob, NoFuture
  <2>3. CASE HeartbeatRefusedRaising
    <3>1. CASE Forget
      <4>1. /\ pc' = "stopped" /\ stopping' = FALSE /\ jobRunning' = None /\ workspace' = FALSE
            /\ pendingClaim' = None /\ pendingStart' = None /\ pendingFailure' = None
            /\ future' = NoFuture
        BY <3>1 DEF Forget, ClearRunningJob
      <4> QED BY <4>1 DEF NoFuture
    <3>2. CASE ~Forget
      <4>1. /\ pc' = "drain" /\ stopping' = TRUE /\ workspace /\ jobRunning \in Jobs
            /\ UNCHANGED <<queueVars, produced, accepted, sent, submits, told, pending, job>>
            /\ future'.files = future.files /\ future'.uploaded = future.uploaded
            /\ future'.failure = future.failure
            /\ future'.st = IF future.st = "running" THEN "broken" ELSE future.st
            /\ Watching
        BY ONLY <2>3, <3>2, RaisingEffect, TypeOK, ControlInv
      <4> QED BY <4>1 DEF Watching
    <3> QED BY <3>1, <3>2
  <2> QED BY <1>9, <2>1, <2>2, <2>3 DEF Watch
<1>10. ASSUME Worker PROVE ControlInv' /\ HandInv'
  <2>1. /\ UNCHANGED <<pc, stopping, pending, job>>
        /\ future.st = "running" /\ future'.st \in Done
    BY <1>10 DEF Worker, WorkerSucceeds, WorkerFails, WorkerDies, TypeOK, Futures, Done
  <2> QED BY <2>1 DEF Done
<1>11. ASSUME Stop \/ Crash PROVE ControlInv' /\ HandInv'
  BY <1>11 DEF Stop, Crash, Forget, ClearRunningJob, NoFuture
<1>12. ASSUME Signal \/ Restart \/ Environment \/ UNCHANGED vars PROVE ControlInv' /\ HandInv'
  BY <1>12 DEF Signal, Restart, Environment
<1> QED BY <1>1, <1>2, <1>3, <1>4, <1>5, <1>6, <1>7, <1>8, <1>9, <1>10, <1>11,
             <1>12 DEF Next, Scheduler

\* Every step keeps what the queue can say of the job in hand: a claim being
\* reconciled is not running, a running job is not merely claimed, and an
\* outcome at the queue was sent from here.
LEMMA QueueStep ==
  ASSUME TypeOK, ControlInv, HandInv, QueueInv, [Next]_vars
  PROVE  QueueInv'
<1> USE NoneAssumption DEF QueueInv, TypeOK, QueueTypeOK
<1>1. ASSUME Poll PROVE QueueInv'
  BY <1>1 DEF Poll, StartPoll, BeginCompletion, AfterCompletion, StartShutdown, ResumePending,
       DiscoverNothing, Discover, Unoccupied
<1>2. ASSUME Claim PROVE QueueInv'
  <2>1. pendingClaim \in Jobs /\ pendingStart = None /\ jobRunning = None
    BY <1>2 DEF Claim, ClaimConfirmed, ClaimRefused, ClaimUnanswered, ClaimFailed,
         ControlInv, HandInv
  <2>2. CASE ClaimEffect(pendingClaim) /\ UNCHANGED <<pending, jobRunning>>
    BY <2>1, <2>2 DEF ClaimEffect, GrantClaim, ConfirmClaim, Outcomes
  <2>3. CASE UNCHANGED <<queueVars, history, jobRunning>>
           /\ (UNCHANGED pending \/ (pendingClaim' = None /\ UNCHANGED pendingStart))
    BY <2>1, <2>3
  <2> QED BY <1>2, <2>2, <2>3 DEF Claim, ClaimConfirmed, ClaimRefused, RefuseClaim,
               ClaimUnanswered, ClaimFailed
<1>3. ASSUME Prepare PROVE QueueInv'
  BY <1>3 DEF Prepare, CredentialsLoaded, CredentialsInvalid
<1>4. ASSUME Report PROVE QueueInv'
  <2>1. /\ sent' = [sent EXCEPT ![pendingFailure] = @ \cup {"failed"}]
        /\ bhe' = bhe \/ bhe' = [bhe EXCEPT ![pendingFailure] = "failed"]
        /\ pendingFailure \in Jobs
    BY <1>4, ReportEnds, EndEffect
  <2>2. UNCHANGED <<pendingClaim, pendingStart, jobRunning>> /\ pendingClaim = None /\ jobRunning = None
    BY <1>4, <2>1 DEF Report, ReportRetried, ReportAnswered, ReportRaised, EndRetried,
         HandInv
  <2> QED BY <2>1, <2>2
<1>5. ASSUME Launch PROVE QueueInv'
  BY <1>5 DEF Launch, StartAccepted, StartRefused, StartRaised, AcceptStart, Submitted,
       SubmitFailed, ControlInv, HandInv, Outcomes
<1>6. ASSUME Undo PROVE QueueInv'
  <2>1. /\ sent' = [sent EXCEPT ![jobRunning] = @ \cup {"failed"}]
        /\ bhe' = bhe \/ bhe' = [bhe EXCEPT ![jobRunning] = "failed"]
        /\ jobRunning \in Jobs
    BY <1>6, UndoEnds, EndEffect
  <2>2. UNCHANGED <<pendingClaim, pendingStart>> /\ pendingClaim = None /\ jobRunning' \in {None, jobRunning}
    BY <1>6, <2>1 DEF Undo, UndoRetried, UndoAnswered, UndoRaised, EndRetried,
         ClearRunningJob, ClearRaises, HandInv
  <2> QED BY <2>1, <2>2
<1>7. ASSUME Upload PROVE QueueInv'
  BY <1>7 DEF Upload, UploadAccepted, UploadRaised, UploadRejected, UploadRefused, Abort,
       ClearRunningJob
<1>8. ASSUME Complete PROVE QueueInv'
  <2>1. /\ sent' = [sent EXCEPT ![jobRunning] = @ \cup {Verdict}]
        /\ bhe' = bhe \/ bhe' = [bhe EXCEPT ![jobRunning] = Verdict]
        /\ jobRunning \in Jobs /\ Verdict \in Outcomes
    BY <1>8, CompleteEnds, EndEffect
  <2>2. UNCHANGED <<pendingClaim, pendingStart>> /\ pendingClaim = None /\ jobRunning' \in {None, jobRunning}
    BY <1>8, <2>1 DEF Complete, CompleteRetried, CompleteAnswered, CompleteRaised,
         EndRetried, ClearRunningJob, HandInv
  <2> QED BY <2>1, <2>2 DEF Outcomes
<1>9. ASSUME Watch PROVE QueueInv'
  BY <1>9 DEF Watch, WatchJob, Heartbeat, RenewLease, HeartbeatRefused, HeartbeatRefusedRaising,
       Forget, Abort, ClearRunningJob
<1>10. ASSUME Worker PROVE QueueInv'
  BY <1>10 DEF Worker, WorkerSucceeds, WorkerFails, WorkerDies
<1>11. ASSUME Stop \/ Crash PROVE QueueInv'
  BY <1>11 DEF Stop, Crash, Forget, ClearRunningJob
<1>12. ASSUME Signal \/ Restart \/ UNCHANGED vars PROVE QueueInv'
  BY <1>12 DEF Signal, Restart
<1>13. ASSUME Environment PROVE QueueInv'
  BY <1>13 DEF Environment, QueueNext, LeaseExpires, TakeBack, AnotherCollector, Outcomes
<1> QED BY <1>1, <1>2, <1>3, <1>4, <1>5, <1>6, <1>7, <1>8, <1>9, <1>10, <1>11, <1>12,
             <1>13 DEF Next, Scheduler

\* No step loses sight of a job that the queue waits for.
LEMMA TrackStep ==
  ASSUME TypeOK, ControlInv, HandInv, QueueInv, HeldJobsAreTracked, [Next]_vars
  PROVE  HeldJobsAreTracked'
<1> USE NoneAssumption DEF HeldJobsAreTracked, TypeOK, QueueTypeOK, Actionable
<1>1. ASSUME Poll PROVE HeldJobsAreTracked'
  BY <1>1 DEF Poll, StartPoll, BeginCompletion, AfterCompletion, StartShutdown, ResumePending,
       DiscoverNothing, Discover, Unoccupied
<1>2. ASSUME Claim PROVE HeldJobsAreTracked'
  <2>1. pendingClaim \in Jobs /\ bhe[pendingClaim] # "running"
    BY <1>2 DEF Claim, ClaimConfirmed, ClaimRefused, ClaimUnanswered, ClaimFailed,
         ControlInv, QueueInv
  <2>2. CASE ClaimEffect(pendingClaim) /\ UNCHANGED <<pending, jobRunning>>
    BY <2>1, <2>2 DEF ClaimEffect, GrantClaim, ConfirmClaim
  <2>3. CASE ClaimRefused
    BY <2>1, <2>3 DEF ClaimRefused, RefuseClaim
  <2>4. CASE UNCHANGED <<queueVars, history, pending, jobRunning>>
    BY <2>4
  <2> QED BY <1>2, <2>2, <2>3, <2>4 DEF Claim, ClaimConfirmed, ClaimUnanswered, ClaimFailed
<1>3. ASSUME Prepare PROVE HeldJobsAreTracked'
  <2>1. UNCHANGED <<queueVars, jobRunning, orphans>>
    BY <1>3 DEF Prepare, CredentialsLoaded, CredentialsInvalid
  <2>2. CASE CredentialsLoaded
    BY <2>1, <2>2 DEF CredentialsLoaded
  <2>3. CASE CredentialsInvalid
    <3>1. pendingFailure = None
      BY <2>3 DEF CredentialsInvalid, ControlInv, HandInv
    <3>2. pendingFailure' = pendingClaim /\ None \notin Jobs
      BY <2>3, NoneAssumption DEF CredentialsInvalid
    <3> QED BY <2>1, <3>1, <3>2
  <2> QED BY <1>3, <2>2, <2>3 DEF Prepare
<1>4. ASSUME Report PROVE HeldJobsAreTracked'
  <2>1. ReportAnswered => bhe'[pendingFailure] # "running" /\ ~(bhe'[pendingFailure] = "claimed" /\ lease'[pendingFailure])
    BY <1>4, ReportEnds, EndSettles DEF ReportAnswered
  <2>2. /\ lease' = lease
        /\ bhe' = bhe \/ bhe' = [bhe EXCEPT ![pendingFailure] = "failed"]
        /\ pendingFailure \in Jobs
    BY <1>4, ReportEnds, EndEffect
  <2>3. UNCHANGED <<pendingClaim, jobRunning, orphans>> /\ (ReportAnswered \/ UNCHANGED pendingFailure)
    BY <1>4 DEF Report, ReportRetried, ReportAnswered, ReportRaised, EndRetried
  <2> QED BY <2>1, <2>2, <2>3
<1>5. ASSUME Launch PROVE HeldJobsAreTracked'
  BY <1>5 DEF Launch, StartAccepted, StartRefused, StartRaised, AcceptStart, Submitted,
       SubmitFailed, ControlInv, HandInv
<1>6. ASSUME Undo PROVE HeldJobsAreTracked'
  <2>1. UndoAnswered => bhe'[jobRunning] # "running" /\ ~(bhe'[jobRunning] = "claimed" /\ lease'[jobRunning])
    BY <1>6, UndoEnds, EndSettles DEF UndoAnswered
  <2>2. /\ lease' = lease
        /\ bhe' = bhe \/ bhe' = [bhe EXCEPT ![jobRunning] = "failed"]
        /\ jobRunning \in Jobs
    BY <1>6, UndoEnds, EndEffect
  <2>3. /\ UNCHANGED <<pendingClaim, pendingFailure>>
        /\ \/ UndoAnswered /\ UNCHANGED orphans
           \/ UNCHANGED <<jobRunning, orphans>>
           \/ orphans' = orphans \cup {jobRunning}
    BY <1>6 DEF Undo, UndoRetried, UndoAnswered, UndoRaised, EndRetried, ClearRaises
  <2> QED BY <2>1, <2>2, <2>3
<1>7. ASSUME Upload PROVE HeldJobsAreTracked'
  BY <1>7 DEF Upload, UploadAccepted, UploadRaised, UploadRejected, UploadRefused, Abort,
       ClearRunningJob, QueueInv
<1>8. ASSUME Complete PROVE HeldJobsAreTracked'
  <2>1. CompleteAnswered => bhe'[jobRunning] # "running" /\ ~(bhe'[jobRunning] = "claimed" /\ lease'[jobRunning])
    BY <1>8, CompleteEnds, EndSettles DEF CompleteAnswered
  <2>2. /\ lease' = lease
        /\ bhe' = bhe \/ bhe' = [bhe EXCEPT ![jobRunning] = Verdict]
        /\ jobRunning \in Jobs /\ Verdict \in Outcomes
    BY <1>8, CompleteEnds, EndEffect
  <2>3. /\ UNCHANGED <<pendingClaim, pendingFailure, orphans>>
        /\ CompleteAnswered \/ UNCHANGED jobRunning
    BY <1>8 DEF Complete, CompleteRetried, CompleteAnswered, CompleteRaised, EndRetried
  <2> QED BY <2>1, <2>2, <2>3 DEF Outcomes
<1>9. ASSUME Watch PROVE HeldJobsAreTracked'
  <2>1. CASE WatchJob \/ Heartbeat
    BY <2>1 DEF WatchJob, Heartbeat, RenewLease, Watching, AfterWatch, BeginCompletion,
         AfterCompletion
  <2>2. CASE HeartbeatRefused
    BY <2>2 DEF HeartbeatRefused, Watching, Abort, ClearRunningJob, NoFuture, QueueInv, Held
  <2>3. CASE HeartbeatRefusedRaising
    BY <2>3, RaisingEffect DEF Watching, Forget, ClearRunningJob, NoFuture, QueueInv, Held
  <2> QED BY <1>9, <2>1, <2>2, <2>3 DEF Watch
<1>10. ASSUME Worker PROVE HeldJobsAreTracked'
  BY <1>10 DEF Worker, WorkerSucceeds, WorkerFails, WorkerDies
<1>11. ASSUME Stop \/ Crash PROVE HeldJobsAreTracked'
  BY <1>11 DEF Stop, Crash, Forget, Held
<1>12. ASSUME Signal \/ Restart \/ UNCHANGED vars PROVE HeldJobsAreTracked'
  BY <1>12 DEF Signal, Restart
<1>13. ASSUME Environment PROVE HeldJobsAreTracked'
  BY <1>13 DEF Environment, QueueNext, LeaseExpires, TakeBack, AnotherCollector
<1> QED BY <1>1, <1>2, <1>3, <1>4, <1>5, <1>6, <1>7, <1>8, <1>9, <1>10, <1>11, <1>12,
             <1>13 DEF Next, Scheduler

\* Every step leaves a claim that is held, or being prepared, fresh: nothing
\* has been submitted, uploaded or ended under it.
LEMMA ClaimInvStep ==
  ASSUME TypeOK, ControlInv, HandInv, QueueInv, ClaimInv, [Next]_vars
  PROVE  ClaimInv'
<1> USE NoneAssumption, BoundsAssumption DEF ClaimInv, Fresh, TypeOK, QueueTypeOK, ControlInv, HandInv, Held
<1>1. ASSUME Poll PROVE ClaimInv'
  BY <1>1 DEF Poll, StartPoll, BeginCompletion, AfterCompletion, StartShutdown, ResumePending,
       DiscoverNothing, Discover, Unoccupied
<1>2. ASSUME Claim PROVE ClaimInv'
  BY <1>2 DEF Claim, ClaimConfirmed, ClaimRefused, ClaimUnanswered, ClaimFailed,
       ClaimEffect, GrantClaim, ConfirmClaim, RefuseClaim
<1>3. ASSUME Prepare PROVE ClaimInv'
  BY <1>3 DEF Prepare, CredentialsLoaded, CredentialsInvalid
<1>4. ASSUME Report PROVE ClaimInv'
  <2>1. pendingFailure \in Jobs /\ sent' = [sent EXCEPT ![pendingFailure] = @ \cup {"failed"}]
    BY <1>4, ReportEnds, EndEffect
  <2>2. lease' = lease /\ (bhe' = bhe \/ bhe' = [bhe EXCEPT ![pendingFailure] = "failed"]) /\ "failed" \in Outcomes
    BY <1>4, ReportEnds, EndEffect
  <2> QED BY <1>4, <2>1, <2>2 DEF Report, ReportRetried, ReportAnswered, ReportRaised,
               EndRetried
<1>5. ASSUME Launch PROVE ClaimInv'
  BY <1>5 DEF Launch, StartAccepted, StartRefused, StartRaised, AcceptStart, Submitted,
       SubmitFailed, CountSubmit, NoFuture
<1>6. ASSUME Undo PROVE ClaimInv'
  <2>1. jobRunning \in Jobs /\ sent' = [sent EXCEPT ![jobRunning] = @ \cup {"failed"}]
    BY <1>6, UndoEnds, EndEffect
  <2>2. lease' = lease /\ (bhe' = bhe \/ bhe' = [bhe EXCEPT ![jobRunning] = "failed"]) /\ "failed" \in Outcomes
    BY <1>6, UndoEnds, EndEffect
  <2> QED BY <1>6, <2>1, <2>2 DEF Undo, UndoRetried, UndoAnswered, UndoRaised,
               EndRetried, ClearRunningJob, ClearRaises, NoFuture
<1>7. ASSUME Upload PROVE ClaimInv'
  BY <1>7 DEF Upload, UploadAccepted, UploadRaised, UploadRejected, UploadRefused, Abort,
       ClearRunningJob, NoFuture, AfterCompletion, NextFile, Futures
<1>8. ASSUME Complete PROVE ClaimInv'
  <2>1. jobRunning \in Jobs /\ sent' = [sent EXCEPT ![jobRunning] = @ \cup {Verdict}]
    BY <1>8, CompleteEnds, EndEffect
  <2>2. lease' = lease /\ (bhe' = bhe \/ bhe' = [bhe EXCEPT ![jobRunning] = Verdict]) /\ Verdict \in Outcomes
    BY <1>8, CompleteEnds, EndEffect
  <2> QED BY <1>8, <2>1, <2>2 DEF Complete, CompleteRetried, CompleteAnswered,
               CompleteRaised, EndRetried, ClearRunningJob, NoFuture, AfterCompletion
<1>9. ASSUME Watch PROVE ClaimInv'
  BY <1>9 DEF Watch, WatchJob, Heartbeat, RenewLease, HeartbeatRefused, HeartbeatRefusedRaising,
       Forget, Watching, AfterWatch, BeginCompletion, AfterCompletion, Abort, ClearRunningJob,
       NoFuture
<1>10. ASSUME Worker PROVE ClaimInv'
  BY <1>10, WorkerEffect
<1>11. ASSUME Stop \/ Crash PROVE ClaimInv'
  BY <1>11 DEF Stop, Crash, Forget, ClearRunningJob, NoFuture
<1>12. ASSUME Signal \/ Restart \/ UNCHANGED vars PROVE ClaimInv'
  BY <1>12 DEF Signal, Restart
<1>13. ASSUME Environment PROVE ClaimInv'
  BY <1>13 DEF Environment, QueueNext, LeaseExpires, TakeBack, AnotherCollector
<1> QED BY <1>1, <1>2, <1>3, <1>4, <1>5, <1>6, <1>7, <1>8, <1>9, <1>10, <1>11, <1>12,
             <1>13 DEF Next, Scheduler

\* Every step leaves a pending failure with no other outcome sent.
LEMMA FailureInvStep ==
  ASSUME TypeOK, ControlInv, HandInv, QueueInv, ClaimInv, FailureInv, [Next]_vars
  PROVE  FailureInv'
<1> USE NoneAssumption, BoundsAssumption DEF FailureInv, ClaimInv, Fresh, TypeOK, QueueTypeOK, ControlInv, HandInv
<1>1. ASSUME Poll PROVE FailureInv'
  BY <1>1 DEF Poll, StartPoll, BeginCompletion, AfterCompletion, StartShutdown, ResumePending,
       DiscoverNothing, Discover, Unoccupied
<1>2. ASSUME Claim PROVE FailureInv'
  BY <1>2 DEF Claim, ClaimConfirmed, ClaimRefused, ClaimUnanswered, ClaimFailed,
       ClaimEffect, GrantClaim, ConfirmClaim, RefuseClaim
<1>3. ASSUME Prepare PROVE FailureInv'
  BY <1>3 DEF Prepare, CredentialsLoaded, CredentialsInvalid
<1>4. ASSUME Report PROVE FailureInv'
  <2>1. pendingFailure \in Jobs /\ sent' = [sent EXCEPT ![pendingFailure] = @ \cup {"failed"}]
    BY <1>4, ReportEnds, EndEffect
  <2>2. lease' = lease /\ (bhe' = bhe \/ bhe' = [bhe EXCEPT ![pendingFailure] = "failed"]) /\ "failed" \in Outcomes
    BY <1>4, ReportEnds, EndEffect
  <2> QED BY <1>4, <2>1, <2>2 DEF Report, ReportRetried, ReportAnswered, ReportRaised,
               EndRetried
<1>5. ASSUME Launch PROVE FailureInv'
  BY <1>5 DEF Launch, StartAccepted, StartRefused, StartRaised, AcceptStart, Submitted,
       SubmitFailed, CountSubmit, NoFuture
<1>6. ASSUME Undo PROVE FailureInv'
  <2>1. jobRunning \in Jobs /\ sent' = [sent EXCEPT ![jobRunning] = @ \cup {"failed"}]
    BY <1>6, UndoEnds, EndEffect
  <2>2. lease' = lease /\ (bhe' = bhe \/ bhe' = [bhe EXCEPT ![jobRunning] = "failed"]) /\ "failed" \in Outcomes
    BY <1>6, UndoEnds, EndEffect
  <2> QED BY <1>6, <2>1, <2>2 DEF Undo, UndoRetried, UndoAnswered, UndoRaised,
               EndRetried, ClearRunningJob, ClearRaises, NoFuture
<1>7. ASSUME Upload PROVE FailureInv'
  BY <1>7 DEF Upload, UploadAccepted, UploadRaised, UploadRejected, UploadRefused, Abort,
       ClearRunningJob, NoFuture, AfterCompletion, NextFile, Futures
<1>8. ASSUME Complete PROVE FailureInv'
  <2>1. jobRunning \in Jobs /\ sent' = [sent EXCEPT ![jobRunning] = @ \cup {Verdict}]
    BY <1>8, CompleteEnds, EndEffect
  <2>2. lease' = lease /\ (bhe' = bhe \/ bhe' = [bhe EXCEPT ![jobRunning] = Verdict]) /\ Verdict \in Outcomes
    BY <1>8, CompleteEnds, EndEffect
  <2> QED BY <1>8, <2>1, <2>2 DEF Complete, CompleteRetried, CompleteAnswered,
               CompleteRaised, EndRetried, ClearRunningJob, NoFuture, AfterCompletion
<1>9. ASSUME Watch PROVE FailureInv'
  BY <1>9 DEF Watch, WatchJob, Heartbeat, RenewLease, HeartbeatRefused, HeartbeatRefusedRaising,
       Forget, Watching, AfterWatch, BeginCompletion, AfterCompletion, Abort, ClearRunningJob,
       NoFuture
<1>10. ASSUME Worker PROVE FailureInv'
  BY <1>10 DEF Worker, WorkerSucceeds, WorkerFails, WorkerDies, Futures
<1>11. ASSUME Stop \/ Crash PROVE FailureInv'
  BY <1>11 DEF Stop, Crash, Forget, ClearRunningJob, NoFuture
<1>12. ASSUME Signal \/ Restart \/ UNCHANGED vars PROVE FailureInv'
  BY <1>12 DEF Signal, Restart
<1>13. ASSUME Environment PROVE FailureInv'
  BY <1>13 DEF Environment, QueueNext, LeaseExpires, TakeBack, AnotherCollector
<1> QED BY <1>1, <1>2, <1>3, <1>4, <1>5, <1>6, <1>7, <1>8, <1>9, <1>10, <1>11, <1>12,
             <1>13 DEF Next, Scheduler

\* Every step leaves the running job with no outcome sent but the verdict of
\* its Result, and none while an upload is left to do.
LEMMA RunningInvStep ==
  ASSUME TypeOK, ControlInv, HandInv, QueueInv, ClaimInv, RunningInv, ResultInv, [Next]_vars
  PROVE  RunningInv'
<1> USE NoneAssumption, BoundsAssumption DEF RunningInv, ClaimInv, ResultInv, Fresh, TypeOK, QueueTypeOK, ControlInv, HandInv, Done, Uploading, Verdict
<1>1. ASSUME Poll PROVE RunningInv'
  BY <1>1 DEF Poll, StartPoll, BeginCompletion, AfterCompletion, StartShutdown, ResumePending,
       DiscoverNothing, Discover, Unoccupied
<1>2. ASSUME Claim PROVE RunningInv'
  BY <1>2 DEF Claim, ClaimConfirmed, ClaimRefused, ClaimUnanswered, ClaimFailed,
       ClaimEffect, GrantClaim, ConfirmClaim, RefuseClaim
<1>3. ASSUME Prepare PROVE RunningInv'
  BY <1>3 DEF Prepare, CredentialsLoaded, CredentialsInvalid
<1>4. ASSUME Report PROVE RunningInv'
  <2>1. pendingFailure \in Jobs /\ sent' = [sent EXCEPT ![pendingFailure] = @ \cup {"failed"}]
    BY <1>4, ReportEnds, EndEffect
  <2>2. lease' = lease /\ (bhe' = bhe \/ bhe' = [bhe EXCEPT ![pendingFailure] = "failed"]) /\ "failed" \in Outcomes
    BY <1>4, ReportEnds, EndEffect
  <2> QED BY <1>4, <2>1, <2>2 DEF Report, ReportRetried, ReportAnswered, ReportRaised,
               EndRetried
<1>5. ASSUME Launch PROVE RunningInv'
  BY <1>5 DEF Launch, StartAccepted, StartRefused, StartRaised, AcceptStart, Submitted,
       SubmitFailed, CountSubmit, NoFuture
<1>6. ASSUME Undo PROVE RunningInv'
  <2>1. jobRunning \in Jobs /\ sent' = [sent EXCEPT ![jobRunning] = @ \cup {"failed"}]
    BY <1>6, UndoEnds, EndEffect
  <2>2. lease' = lease /\ (bhe' = bhe \/ bhe' = [bhe EXCEPT ![jobRunning] = "failed"]) /\ "failed" \in Outcomes
    BY <1>6, UndoEnds, EndEffect
  <2> QED BY <1>6, <2>1, <2>2 DEF Undo, UndoRetried, UndoAnswered, UndoRaised,
               EndRetried, ClearRunningJob, ClearRaises, NoFuture
<1>7. ASSUME Upload PROVE RunningInv'
  BY <1>7 DEF Upload, UploadAccepted, UploadRaised, UploadRejected, UploadRefused, Abort,
       ClearRunningJob, NoFuture, AfterCompletion, NextFile, Futures
<1>8. ASSUME Complete PROVE RunningInv'
  <2>1. jobRunning \in Jobs /\ sent' = [sent EXCEPT ![jobRunning] = @ \cup {Verdict}]
    BY <1>8, CompleteEnds, EndEffect
  <2>2. lease' = lease /\ (bhe' = bhe \/ bhe' = [bhe EXCEPT ![jobRunning] = Verdict]) /\ Verdict \in Outcomes
    BY <1>8, CompleteEnds, EndEffect
  <2> QED BY <1>8, <2>1, <2>2 DEF Complete, CompleteRetried, CompleteAnswered,
               CompleteRaised, EndRetried, ClearRunningJob, NoFuture, AfterCompletion
<1>9. ASSUME Watch PROVE RunningInv'
  <2>1. CASE WatchJob \/ Heartbeat
    BY <2>1 DEF WatchJob, Heartbeat, RenewLease, Watching, AfterWatch, BeginCompletion,
         AfterCompletion
  <2>2. CASE HeartbeatRefused
    BY <2>2 DEF HeartbeatRefused, Watching, Abort, ClearRunningJob, NoFuture
  <2>3. CASE HeartbeatRefusedRaising
    <3>1. CASE Forget
      <4>1. /\ pc' = "stopped" /\ stopping' = FALSE /\ jobRunning' = None /\ workspace' = FALSE
            /\ pendingClaim' = None /\ pendingStart' = None /\ pendingFailure' = None
            /\ future' = NoFuture
        BY <3>1 DEF Forget, ClearRunningJob
      <4> QED BY <4>1 DEF NoFuture
    <3>2. CASE ~Forget
      <4>1. /\ pc' = "drain" /\ stopping' = TRUE /\ workspace /\ jobRunning \in Jobs
            /\ UNCHANGED <<queueVars, produced, accepted, sent, submits, told, pending, job>>
            /\ future'.files = future.files /\ future'.uploaded = future.uploaded
            /\ future'.failure = future.failure
            /\ future'.st = IF future.st = "running" THEN "broken" ELSE future.st
            /\ Watching
        BY ONLY <2>3, <3>2, RaisingEffect, TypeOK, ControlInv
      <4> QED BY <4>1 DEF Watching
    <3> QED BY <3>1, <3>2
  <2> QED BY <1>9, <2>1, <2>2, <2>3 DEF Watch
<1>10. ASSUME Worker PROVE RunningInv'
  BY <1>10, WorkerEffect
<1>11. ASSUME Stop \/ Crash PROVE RunningInv'
  BY <1>11 DEF Stop, Crash, Forget, ClearRunningJob, NoFuture
<1>12. ASSUME Signal \/ Restart \/ UNCHANGED vars PROVE RunningInv'
  BY <1>12 DEF Signal, Restart
<1>13. ASSUME Environment PROVE RunningInv'
  BY <1>13 DEF Environment, QueueNext, LeaseExpires, TakeBack, AnotherCollector
<1> QED BY <1>1, <1>2, <1>3, <1>4, <1>5, <1>6, <1>7, <1>8, <1>9, <1>10, <1>11, <1>12,
             <1>13 DEF Next, Scheduler

\* No step sends a second, different outcome within one claim.
LEMMA StableStep ==
  ASSUME TypeOK, ControlInv, HandInv, FailureInv, RunningInv, OutcomeIsStable, [Next]_vars
  PROVE  OutcomeIsStable'
<1> USE NoneAssumption, BoundsAssumption DEF OutcomeIsStable, FailureInv, RunningInv, TypeOK, ControlInv, Done
<1>1. ASSUME Poll PROVE OutcomeIsStable'
  BY <1>1 DEF Poll, StartPoll, BeginCompletion, AfterCompletion, StartShutdown, ResumePending,
       DiscoverNothing, Discover, Unoccupied
<1>2. ASSUME Claim PROVE OutcomeIsStable'
  BY <1>2 DEF Claim, ClaimConfirmed, ClaimRefused, ClaimUnanswered, ClaimFailed,
       ClaimEffect, GrantClaim, ConfirmClaim, RefuseClaim
<1>3. ASSUME Prepare PROVE OutcomeIsStable'
  BY <1>3 DEF Prepare, CredentialsLoaded, CredentialsInvalid
<1>4. ASSUME Report PROVE OutcomeIsStable'
  <2>1. pendingFailure \in Jobs /\ sent' = [sent EXCEPT ![pendingFailure] = @ \cup {"failed"}]
    BY <1>4, ReportEnds, EndEffect
  <2>2. lease' = lease /\ (bhe' = bhe \/ bhe' = [bhe EXCEPT ![pendingFailure] = "failed"]) /\ "failed" \in Outcomes
    BY <1>4, ReportEnds, EndEffect
  <2> QED BY <1>4, <2>1, <2>2 DEF Report, ReportRetried, ReportAnswered, ReportRaised,
               EndRetried
<1>5. ASSUME Launch PROVE OutcomeIsStable'
  BY <1>5 DEF Launch, StartAccepted, StartRefused, StartRaised, AcceptStart, Submitted,
       SubmitFailed, CountSubmit, NoFuture
<1>6. ASSUME Undo PROVE OutcomeIsStable'
  <2>1. jobRunning \in Jobs /\ sent' = [sent EXCEPT ![jobRunning] = @ \cup {"failed"}]
    BY <1>6, UndoEnds, EndEffect
  <2>2. lease' = lease /\ (bhe' = bhe \/ bhe' = [bhe EXCEPT ![jobRunning] = "failed"]) /\ "failed" \in Outcomes
    BY <1>6, UndoEnds, EndEffect
  <2> QED BY <1>6, <2>1, <2>2 DEF Undo, UndoRetried, UndoAnswered, UndoRaised,
               EndRetried, ClearRunningJob, ClearRaises, NoFuture
<1>7. ASSUME Upload PROVE OutcomeIsStable'
  BY <1>7 DEF Upload, UploadAccepted, UploadRaised, UploadRejected, UploadRefused, Abort,
       ClearRunningJob, NoFuture, AfterCompletion, NextFile, Futures
<1>8. ASSUME Complete PROVE OutcomeIsStable'
  <2>1. jobRunning \in Jobs /\ sent' = [sent EXCEPT ![jobRunning] = @ \cup {Verdict}]
    BY <1>8, CompleteEnds, EndEffect
  <2>2. lease' = lease /\ (bhe' = bhe \/ bhe' = [bhe EXCEPT ![jobRunning] = Verdict]) /\ Verdict \in Outcomes
    BY <1>8, CompleteEnds, EndEffect
  <2> QED BY <1>8, <2>1, <2>2 DEF Complete, CompleteRetried, CompleteAnswered,
               CompleteRaised, EndRetried, ClearRunningJob, NoFuture, AfterCompletion
<1>9. ASSUME Watch PROVE OutcomeIsStable'
  BY <1>9 DEF Watch, WatchJob, Heartbeat, RenewLease, HeartbeatRefused, HeartbeatRefusedRaising,
       Forget, Watching, AfterWatch, BeginCompletion, AfterCompletion, Abort, ClearRunningJob,
       NoFuture
<1>10. ASSUME Worker PROVE OutcomeIsStable'
  BY <1>10 DEF Worker, WorkerSucceeds, WorkerFails, WorkerDies, Futures
<1>11. ASSUME Stop \/ Crash PROVE OutcomeIsStable'
  BY <1>11 DEF Stop, Crash, Forget, ClearRunningJob, NoFuture
<1>12. ASSUME Signal \/ Restart \/ UNCHANGED vars PROVE OutcomeIsStable'
  BY <1>12 DEF Signal, Restart
<1>13. ASSUME Environment PROVE OutcomeIsStable'
  BY <1>13 DEF Environment, QueueNext, LeaseExpires, TakeBack, AnotherCollector
<1> QED BY <1>1, <1>2, <1>3, <1>4, <1>5, <1>6, <1>7, <1>8, <1>9, <1>10, <1>11, <1>12,
             <1>13 DEF Next, Scheduler

\* No step submits a second worker for one claim.
LEMMA WorkerOnceStep ==
  ASSUME TypeOK, ControlInv, HandInv, RunningInv, OneWorkerPerClaim, [Next]_vars
  PROVE  OneWorkerPerClaim'
<1> USE NoneAssumption, BoundsAssumption DEF OneWorkerPerClaim, RunningInv, Fresh, TypeOK, ControlInv
<1>1. ASSUME Poll PROVE OneWorkerPerClaim'
  BY <1>1 DEF Poll, StartPoll, BeginCompletion, AfterCompletion, StartShutdown, ResumePending,
       DiscoverNothing, Discover, Unoccupied
<1>2. ASSUME Claim PROVE OneWorkerPerClaim'
  BY <1>2 DEF Claim, ClaimConfirmed, ClaimRefused, ClaimUnanswered, ClaimFailed,
       ClaimEffect, GrantClaim, ConfirmClaim, RefuseClaim
<1>3. ASSUME Prepare PROVE OneWorkerPerClaim'
  BY <1>3 DEF Prepare, CredentialsLoaded, CredentialsInvalid
<1>4. ASSUME Report PROVE OneWorkerPerClaim'
  <2>1. pendingFailure \in Jobs /\ sent' = [sent EXCEPT ![pendingFailure] = @ \cup {"failed"}]
    BY <1>4, ReportEnds, EndEffect
  <2>2. lease' = lease /\ (bhe' = bhe \/ bhe' = [bhe EXCEPT ![pendingFailure] = "failed"]) /\ "failed" \in Outcomes
    BY <1>4, ReportEnds, EndEffect
  <2> QED BY <1>4, <2>1, <2>2 DEF Report, ReportRetried, ReportAnswered, ReportRaised,
               EndRetried
<1>5. ASSUME Launch PROVE OneWorkerPerClaim'
  BY <1>5 DEF Launch, StartAccepted, StartRefused, StartRaised, AcceptStart, Submitted,
       SubmitFailed, CountSubmit, NoFuture
<1>6. ASSUME Undo PROVE OneWorkerPerClaim'
  <2>1. jobRunning \in Jobs /\ sent' = [sent EXCEPT ![jobRunning] = @ \cup {"failed"}]
    BY <1>6, UndoEnds, EndEffect
  <2>2. lease' = lease /\ (bhe' = bhe \/ bhe' = [bhe EXCEPT ![jobRunning] = "failed"]) /\ "failed" \in Outcomes
    BY <1>6, UndoEnds, EndEffect
  <2> QED BY <1>6, <2>1, <2>2 DEF Undo, UndoRetried, UndoAnswered, UndoRaised,
               EndRetried, ClearRunningJob, ClearRaises, NoFuture
<1>7. ASSUME Upload PROVE OneWorkerPerClaim'
  BY <1>7 DEF Upload, UploadAccepted, UploadRaised, UploadRejected, UploadRefused, Abort,
       ClearRunningJob, NoFuture, AfterCompletion, NextFile, Futures
<1>8. ASSUME Complete PROVE OneWorkerPerClaim'
  <2>1. jobRunning \in Jobs /\ sent' = [sent EXCEPT ![jobRunning] = @ \cup {Verdict}]
    BY <1>8, CompleteEnds, EndEffect
  <2>2. lease' = lease /\ (bhe' = bhe \/ bhe' = [bhe EXCEPT ![jobRunning] = Verdict]) /\ Verdict \in Outcomes
    BY <1>8, CompleteEnds, EndEffect
  <2> QED BY <1>8, <2>1, <2>2 DEF Complete, CompleteRetried, CompleteAnswered,
               CompleteRaised, EndRetried, ClearRunningJob, NoFuture, AfterCompletion
<1>9. ASSUME Watch PROVE OneWorkerPerClaim'
  BY <1>9 DEF Watch, WatchJob, Heartbeat, RenewLease, HeartbeatRefused, HeartbeatRefusedRaising,
       Forget, Watching, AfterWatch, BeginCompletion, AfterCompletion, Abort, ClearRunningJob,
       NoFuture
<1>10. ASSUME Worker PROVE OneWorkerPerClaim'
  BY <1>10 DEF Worker, WorkerSucceeds, WorkerFails, WorkerDies, Futures
<1>11. ASSUME Stop \/ Crash PROVE OneWorkerPerClaim'
  BY <1>11 DEF Stop, Crash, Forget, ClearRunningJob, NoFuture
<1>12. ASSUME Signal \/ Restart \/ UNCHANGED vars PROVE OneWorkerPerClaim'
  BY <1>12 DEF Signal, Restart
<1>13. ASSUME Environment PROVE OneWorkerPerClaim'
  BY <1>13 DEF Environment, QueueNext, LeaseExpires, TakeBack, AnotherCollector
<1> QED BY <1>1, <1>2, <1>3, <1>4, <1>5, <1>6, <1>7, <1>8, <1>9, <1>10, <1>11, <1>12,
             <1>13 DEF Next, Scheduler

\* Every step keeps the Result's upload count in agreement with the files
\* the queue has taken.
LEMMA ResultInvStep ==
  ASSUME TypeOK, ControlInv, HandInv, RunningInv, ResultInv, [Next]_vars
  PROVE  ResultInv'
<1> USE NoneAssumption, BoundsAssumption DEF ResultInv, RunningInv, Fresh, TypeOK, QueueTypeOK, ControlInv, HandInv, Done, Uploading
<1>1. ASSUME Poll PROVE ResultInv'
  BY <1>1 DEF Poll, StartPoll, BeginCompletion, AfterCompletion, StartShutdown, ResumePending,
       DiscoverNothing, Discover, Unoccupied
<1>2. ASSUME Claim PROVE ResultInv'
  BY <1>2 DEF Claim, ClaimConfirmed, ClaimRefused, ClaimUnanswered, ClaimFailed,
       ClaimEffect, GrantClaim, ConfirmClaim, RefuseClaim
<1>3. ASSUME Prepare PROVE ResultInv'
  BY <1>3 DEF Prepare, CredentialsLoaded, CredentialsInvalid
<1>4. ASSUME Report PROVE ResultInv'
  <2>1. pendingFailure \in Jobs /\ sent' = [sent EXCEPT ![pendingFailure] = @ \cup {"failed"}]
    BY <1>4, ReportEnds, EndEffect
  <2>2. lease' = lease /\ (bhe' = bhe \/ bhe' = [bhe EXCEPT ![pendingFailure] = "failed"]) /\ "failed" \in Outcomes
    BY <1>4, ReportEnds, EndEffect
  <2> QED BY <1>4, <2>1, <2>2 DEF Report, ReportRetried, ReportAnswered, ReportRaised,
               EndRetried
<1>5. ASSUME Launch PROVE ResultInv'
  BY <1>5 DEF Launch, StartAccepted, StartRefused, StartRaised, AcceptStart, Submitted,
       SubmitFailed, CountSubmit, NoFuture
<1>6. ASSUME Undo PROVE ResultInv'
  <2>1. jobRunning \in Jobs /\ sent' = [sent EXCEPT ![jobRunning] = @ \cup {"failed"}]
    BY <1>6, UndoEnds, EndEffect
  <2>2. lease' = lease /\ (bhe' = bhe \/ bhe' = [bhe EXCEPT ![jobRunning] = "failed"]) /\ "failed" \in Outcomes
    BY <1>6, UndoEnds, EndEffect
  <2> QED BY <1>6, <2>1, <2>2 DEF Undo, UndoRetried, UndoAnswered, UndoRaised,
               EndRetried, ClearRunningJob, ClearRaises, NoFuture
<1>7. ASSUME Upload PROVE ResultInv'
  BY <1>7 DEF Upload, UploadAccepted, UploadRaised, UploadRejected, UploadRefused, Abort,
       ClearRunningJob, NoFuture, AfterCompletion, NextFile, Futures
<1>8. ASSUME Complete PROVE ResultInv'
  <2>1. jobRunning \in Jobs /\ sent' = [sent EXCEPT ![jobRunning] = @ \cup {Verdict}]
    BY <1>8, CompleteEnds, EndEffect
  <2>2. lease' = lease /\ (bhe' = bhe \/ bhe' = [bhe EXCEPT ![jobRunning] = Verdict]) /\ Verdict \in Outcomes
    BY <1>8, CompleteEnds, EndEffect
  <2> QED BY <1>8, <2>1, <2>2 DEF Complete, CompleteRetried, CompleteAnswered,
               CompleteRaised, EndRetried, ClearRunningJob, NoFuture, AfterCompletion
<1>9. ASSUME Watch PROVE ResultInv'
  <2>1. CASE WatchJob \/ Heartbeat
    BY <2>1 DEF WatchJob, Heartbeat, RenewLease, Watching, AfterWatch, BeginCompletion,
         AfterCompletion
  <2>2. CASE HeartbeatRefused
    BY <2>2 DEF HeartbeatRefused, Watching, Abort, ClearRunningJob, NoFuture
  <2>3. CASE HeartbeatRefusedRaising
    <3>1. CASE Forget
      <4>1. /\ pc' = "stopped" /\ stopping' = FALSE /\ jobRunning' = None /\ workspace' = FALSE
            /\ pendingClaim' = None /\ pendingStart' = None /\ pendingFailure' = None
            /\ future' = NoFuture
        BY <3>1 DEF Forget, ClearRunningJob
      <4> QED BY <4>1 DEF NoFuture
    <3>2. CASE ~Forget
      <4>1. /\ pc' = "drain" /\ stopping' = TRUE /\ workspace /\ jobRunning \in Jobs
            /\ UNCHANGED <<queueVars, produced, accepted, sent, submits, told, pending, job>>
            /\ future'.files = future.files /\ future'.uploaded = future.uploaded
            /\ future'.failure = future.failure
            /\ future'.st = IF future.st = "running" THEN "broken" ELSE future.st
            /\ Watching
        BY ONLY <2>3, <3>2, RaisingEffect, TypeOK, ControlInv
      <4> QED BY <4>1 DEF Watching
    <3> QED BY <3>1, <3>2
  <2> QED BY <1>9, <2>1, <2>2, <2>3 DEF Watch
<1>10. ASSUME Worker PROVE ResultInv'
  BY <1>10, WorkerEffect
<1>11. ASSUME Stop \/ Crash PROVE ResultInv'
  BY <1>11 DEF Stop, Crash, Forget, ClearRunningJob, NoFuture
<1>12. ASSUME Signal \/ Restart \/ UNCHANGED vars PROVE ResultInv'
  BY <1>12 DEF Signal, Restart
<1>13. ASSUME Environment PROVE ResultInv'
  BY <1>13 DEF Environment, QueueNext, LeaseExpires, TakeBack, AnotherCollector
<1> QED BY <1>1, <1>2, <1>3, <1>4, <1>5, <1>6, <1>7, <1>8, <1>9, <1>10, <1>11, <1>12,
             <1>13 DEF Next, Scheduler

\* No step leaves a job succeeded at the queue with a staged file missing.
LEMMA DeliveredStep ==
  ASSUME TypeOK, ControlInv, HandInv, QueueInv, RunningInv, ResultInv, SuccessMeansDelivered, [Next]_vars
  PROVE  SuccessMeansDelivered'
<1> USE NoneAssumption, BoundsAssumption DEF SuccessMeansDelivered, RunningInv, QueueInv, ResultInv, TypeOK, QueueTypeOK, ControlInv, HandInv, Done, Uploading, Verdict
<1>1. ASSUME Poll PROVE SuccessMeansDelivered'
  BY <1>1 DEF Poll, StartPoll, BeginCompletion, AfterCompletion, StartShutdown, ResumePending,
       DiscoverNothing, Discover, Unoccupied
<1>2. ASSUME Claim PROVE SuccessMeansDelivered'
  BY <1>2 DEF Claim, ClaimConfirmed, ClaimRefused, ClaimUnanswered, ClaimFailed,
       ClaimEffect, GrantClaim, ConfirmClaim, RefuseClaim
<1>3. ASSUME Prepare PROVE SuccessMeansDelivered'
  BY <1>3 DEF Prepare, CredentialsLoaded, CredentialsInvalid
<1>4. ASSUME Report PROVE SuccessMeansDelivered'
  <2>1. pendingFailure \in Jobs /\ sent' = [sent EXCEPT ![pendingFailure] = @ \cup {"failed"}]
    BY <1>4, ReportEnds, EndEffect
  <2>2. lease' = lease /\ (bhe' = bhe \/ bhe' = [bhe EXCEPT ![pendingFailure] = "failed"]) /\ "failed" \in Outcomes
    BY <1>4, ReportEnds, EndEffect
  <2> QED BY <1>4, <2>1, <2>2 DEF Report, ReportRetried, ReportAnswered, ReportRaised,
               EndRetried
<1>5. ASSUME Launch PROVE SuccessMeansDelivered'
  BY <1>5 DEF Launch, StartAccepted, StartRefused, StartRaised, AcceptStart, Submitted,
       SubmitFailed, CountSubmit, NoFuture
<1>6. ASSUME Undo PROVE SuccessMeansDelivered'
  <2>1. jobRunning \in Jobs /\ sent' = [sent EXCEPT ![jobRunning] = @ \cup {"failed"}]
    BY <1>6, UndoEnds, EndEffect
  <2>2. lease' = lease /\ (bhe' = bhe \/ bhe' = [bhe EXCEPT ![jobRunning] = "failed"]) /\ "failed" \in Outcomes
    BY <1>6, UndoEnds, EndEffect
  <2> QED BY <1>6, <2>1, <2>2 DEF Undo, UndoRetried, UndoAnswered, UndoRaised,
               EndRetried, ClearRunningJob, ClearRaises, NoFuture
<1>7. ASSUME Upload PROVE SuccessMeansDelivered'
  BY <1>7 DEF Upload, UploadAccepted, UploadRaised, UploadRejected, UploadRefused, Abort,
       ClearRunningJob, NoFuture, AfterCompletion, NextFile, Futures
<1>8. ASSUME Complete PROVE SuccessMeansDelivered'
  <2>1. jobRunning \in Jobs /\ sent' = [sent EXCEPT ![jobRunning] = @ \cup {Verdict}]
    BY <1>8, CompleteEnds, EndEffect
  <2>2. lease' = lease /\ (bhe' = bhe \/ bhe' = [bhe EXCEPT ![jobRunning] = Verdict]) /\ Verdict \in Outcomes
    BY <1>8, CompleteEnds, EndEffect
  <2>3. UNCHANGED <<accepted, produced>>
    BY <1>8 DEF Complete, CompleteRetried, CompleteAnswered, CompleteRaised, EndRetried
  <2>4. ~Uploading /\ future.st \in Done
    BY <1>8 DEF Complete, CompleteRetried, CompleteAnswered, CompleteRaised
  <2>5. Verdict = "succeeded" => accepted[jobRunning] = 1..produced[jobRunning]
    <3> SUFFICES ASSUME Verdict = "succeeded" PROVE accepted[jobRunning] = 1..produced[jobRunning]
      OBVIOUS
    <3>1. future.st = "ok" /\ future.uploaded >= future.files
      BY <2>4 DEF Futures
    <3>2. future.uploaded = future.files /\ future.files = produced[jobRunning]
      BY <3>1 DEF Futures
    <3> QED BY <3>1, <3>2
  <2> QED BY <2>1, <2>2, <2>3, <2>5
<1>9. ASSUME Watch PROVE SuccessMeansDelivered'
  BY <1>9 DEF Watch, WatchJob, Heartbeat, RenewLease, HeartbeatRefused, HeartbeatRefusedRaising,
       Forget, Watching, AfterWatch, BeginCompletion, AfterCompletion, Abort, ClearRunningJob,
       NoFuture
<1>10. ASSUME Worker PROVE SuccessMeansDelivered'
  <2>1. bhe[jobRunning] # "succeeded" /\ jobRunning \in Jobs
    BY <1>10, WorkerEffect DEF Outcomes
  <2>2. UNCHANGED <<bhe, accepted>> /\ \A j \in Jobs \ {jobRunning} : produced'[j] = produced[j]
    BY <1>10, WorkerEffect
  <2> QED BY <2>1, <2>2
<1>11. ASSUME Stop \/ Crash PROVE SuccessMeansDelivered'
  BY <1>11 DEF Stop, Crash, Forget, ClearRunningJob, NoFuture
<1>12. ASSUME Signal \/ Restart \/ UNCHANGED vars PROVE SuccessMeansDelivered'
  BY <1>12 DEF Signal, Restart
<1>13. ASSUME Environment PROVE SuccessMeansDelivered'
  BY <1>13 DEF Environment, QueueNext, LeaseExpires, TakeBack, AnotherCollector
<1> QED BY <1>1, <1>2, <1>3, <1>4, <1>5, <1>6, <1>7, <1>8, <1>9, <1>10, <1>11, <1>12,
             <1>13 DEF Next, Scheduler

\* Every step leaves on disk only the output of the job whose worker
\* succeeded, and what killed workers and failed removals left.
LEMMA OutputStep ==
  ASSUME TypeOK, ControlInv, HandInv, OutputInv, [Next]_vars
  PROVE  OutputInv'
<1> USE NoneAssumption, BoundsAssumption DEF OutputInv, TypeOK, ControlInv, HandInv, Done
<1>1. ASSUME Poll PROVE OutputInv'
  BY <1>1 DEF Poll, StartPoll, BeginCompletion, AfterCompletion, StartShutdown, ResumePending,
       DiscoverNothing, Discover, Unoccupied, RemoveOutput, LeaveDirectory
<1>2. ASSUME Claim PROVE OutputInv'
  BY <1>2 DEF Claim, ClaimConfirmed, ClaimRefused, ClaimUnanswered, ClaimFailed,
       ClaimEffect, GrantClaim, ConfirmClaim, RefuseClaim, RemoveOutput, LeaveDirectory
<1>3. ASSUME Prepare PROVE OutputInv'
  BY <1>3 DEF Prepare, CredentialsLoaded, CredentialsInvalid, RemoveOutput, LeaveDirectory
<1>4. ASSUME Report PROVE OutputInv'
  <2>1. pendingFailure \in Jobs /\ sent' = [sent EXCEPT ![pendingFailure] = @ \cup {"failed"}]
    BY <1>4, ReportEnds, EndEffect
  <2>2. lease' = lease /\ (bhe' = bhe \/ bhe' = [bhe EXCEPT ![pendingFailure] = "failed"]) /\ "failed" \in Outcomes
    BY <1>4, ReportEnds, EndEffect
  <2> QED BY <1>4, <2>1, <2>2 DEF Report, ReportRetried, ReportAnswered, ReportRaised,
               EndRetried, RemoveOutput, LeaveDirectory
<1>5. ASSUME Launch PROVE OutputInv'
  BY <1>5 DEF Launch, StartAccepted, StartRefused, StartRaised, AcceptStart, Submitted,
       SubmitFailed, CountSubmit, NoFuture, RemoveOutput, LeaveDirectory
<1>6. ASSUME Undo PROVE OutputInv'
  <2>1. jobRunning \in Jobs /\ sent' = [sent EXCEPT ![jobRunning] = @ \cup {"failed"}]
    BY <1>6, UndoEnds, EndEffect
  <2>2. lease' = lease /\ (bhe' = bhe \/ bhe' = [bhe EXCEPT ![jobRunning] = "failed"]) /\ "failed" \in Outcomes
    BY <1>6, UndoEnds, EndEffect
  <2> QED BY <1>6, <2>1, <2>2 DEF Undo, UndoRetried, UndoAnswered, UndoRaised,
               EndRetried, ClearRunningJob, ClearRaises, NoFuture, RemoveOutput, LeaveDirectory
<1>7. ASSUME Upload PROVE OutputInv'
  <2>1. CASE UploadAccepted \/ UploadRaised \/ UploadRejected
    <3>1. future'.st = future.st /\ UNCHANGED <<disk, jobRunning>>
      BY <2>1 DEF UploadAccepted, UploadRaised, UploadRejected, Futures
    <3> QED BY <3>1
  <2>2. CASE UploadRefused
    <3>1. future.st = "ok" /\ RemoveOutput(jobRunning) /\ future' = NoFuture
      BY <2>2 DEF UploadRefused, Abort, ClearRunningJob, DropWork, Uploading
    <3> QED BY <3>1 DEF RemoveOutput, NoFuture
  <2> QED BY <1>7, <2>1, <2>2 DEF Upload
<1>8. ASSUME Complete PROVE OutputInv'
  <2>1. jobRunning \in Jobs /\ sent' = [sent EXCEPT ![jobRunning] = @ \cup {Verdict}]
    BY <1>8, CompleteEnds, EndEffect
  <2>2. lease' = lease /\ (bhe' = bhe \/ bhe' = [bhe EXCEPT ![jobRunning] = Verdict]) /\ Verdict \in Outcomes
    BY <1>8, CompleteEnds, EndEffect
  <2> QED BY <1>8, <2>1, <2>2 DEF Complete, CompleteRetried, CompleteAnswered,
               CompleteRaised, EndRetried, ClearRunningJob, NoFuture, AfterCompletion,
               RemoveOutput, LeaveDirectory
<1>9. ASSUME Watch PROVE OutputInv'
  <2>1. CASE WatchJob \/ Heartbeat
    BY <2>1 DEF WatchJob, Heartbeat, RenewLease, Watching, AfterWatch, BeginCompletion,
         AfterCompletion
  <2>2. CASE HeartbeatRefused
    BY <2>2 DEF HeartbeatRefused, Watching, Abort, ClearRunningJob, NoFuture, DropWork,
         RemoveOutput, LeaveDirectory
  <2>3. CASE HeartbeatRefusedRaising
    <3>1. jobRunning \in Jobs /\ DropWork
      BY ONLY <2>3, RaisingEffect, TypeOK, ControlInv
    <3>2. CASE Forget
      <4>1. future' = NoFuture
        BY <3>2 DEF Forget, ClearRunningJob
      <4> QED BY <3>1, <4>1 DEF NoFuture, DropWork, RemoveOutput, LeaveDirectory
    <3>3. CASE ~Forget
      <4>1. /\ jobRunning' = jobRunning
            /\ future'.st = IF future.st = "running" THEN "broken" ELSE future.st
        BY ONLY <2>3, <3>3, RaisingEffect, TypeOK, ControlInv
      <4> QED BY <3>1, <4>1 DEF DropWork, RemoveOutput, LeaveDirectory
    <3> QED BY <3>2, <3>3
  <2> QED BY <1>9, <2>1, <2>2, <2>3 DEF Watch
<1>10. ASSUME Worker PROVE OutputInv'
  BY <1>10 DEF Worker, WorkerSucceeds, WorkerFails, WorkerDies, Futures, RemoveOutput,
       LeaveDirectory
<1>11. ASSUME Stop \/ Crash PROVE OutputInv'
  BY <1>11 DEF Stop, Crash, Forget, ClearRunningJob, NoFuture, RemoveOutput, LeaveDirectory
<1>12. ASSUME Signal \/ Restart \/ UNCHANGED vars PROVE OutputInv'
  BY <1>12 DEF Signal, Restart, RemoveOutput, LeaveDirectory
<1>13. ASSUME Environment PROVE OutputInv'
  BY <1>13 DEF Environment, QueueNext, LeaseExpires, TakeBack, AnotherCollector,
       RemoveOutput, LeaveDirectory
<1> QED BY <1>1, <1>2, <1>3, <1>4, <1>5, <1>6, <1>7, <1>8, <1>9, <1>10, <1>11, <1>12,
             <1>13 DEF Next, Scheduler

---------------------------------------------------------------------------
(* The invariant, and what follows from it. *)

\* The scheduler starts with nothing in hand and nothing claimed.
LEMMA InitInv == Init => IInv
<1> SUFFICES ASSUME Init PROVE IInv
  OBVIOUS
<1> USE NoneAssumption, BoundsAssumption DEF Init, LocalInit, QueueInit
<1>1. TypeOK
  <2>1. QueueTypeOK
    BY DEF QueueTypeOK, JobStates
  <2>2. future \in Futures
    BY DEF NoFuture, Futures
  <2>3. /\ produced \in [Jobs -> 0..MaxFiles] /\ submits \in [Jobs -> 0..2]
        /\ accepted \in [Jobs -> SUBSET (1..MaxFiles)] /\ sent \in [Jobs -> SUBSET Outcomes]
    OBVIOUS
  <2>4. attempt \in 1..MaxAttempts /\ pc \in PCs
    BY DEF PCs
  <2>5. outputs \in SUBSET Jobs /\ abandoned \in SUBSET Jobs
    OBVIOUS
  <2>6. told \in SUBSET Jobs /\ orphans \in SUBSET Jobs
    OBVIOUS
  <2> QED BY <2>1, <2>2, <2>3, <2>4, <2>5, <2>6 DEF TypeOK
<1>2. ControlInv /\ HandInv
  BY DEF ControlInv, HandInv, NoFuture, Unoccupied, Stuck
<1>3. QueueInv /\ ClaimInv /\ FailureInv /\ RunningInv
  BY DEF QueueInv, ClaimInv, FailureInv, RunningInv, Outcomes
<1>4. ResultInv /\ OutputInv
  BY DEF ResultInv, OutputInv, NoFuture
<1>5. HeldJobsAreTracked /\ SuccessMeansDelivered
  BY DEF HeldJobsAreTracked, Actionable, SuccessMeansDelivered
<1>6. OutcomeIsStable /\ OneWorkerPerClaim
  BY DEF OutcomeIsStable, OneWorkerPerClaim
<1> QED BY <1>1, <1>2, <1>3, <1>4, <1>5, <1>6 DEF IInv

\* Every step preserves the inductive invariant.
LEMMA NextInv == IInv /\ [Next]_vars => IInv'
<1> SUFFICES ASSUME IInv, [Next]_vars PROVE IInv'
  OBVIOUS
<1>1. /\ TypeOK /\ ControlInv /\ HandInv /\ QueueInv /\ ClaimInv /\ FailureInv
      /\ RunningInv /\ ResultInv /\ OutputInv /\ HeldJobsAreTracked
      /\ OutcomeIsStable /\ SuccessMeansDelivered /\ OneWorkerPerClaim
  BY DEF IInv
<1>2. TypeOK' /\ ControlInv' /\ HandInv'
  BY <1>1, TypeStep, ControlStep
<1>3. QueueInv' /\ HeldJobsAreTracked'
  BY <1>1, QueueStep, TrackStep
<1>4. ClaimInv' /\ FailureInv' /\ RunningInv'
  BY <1>1, ClaimInvStep, FailureInvStep, RunningInvStep
<1>5. ResultInv' /\ OutputInv'
  BY <1>1, ResultInvStep, OutputStep
<1>6. OutcomeIsStable' /\ OneWorkerPerClaim' /\ SuccessMeansDelivered'
  BY <1>1, StableStep, WorkerOnceStep, DeliveredStep
<1> QED BY <1>2, <1>3, <1>4, <1>5, <1>6 DEF IInv

\* The inductive invariant holds in every reachable state.
THEOREM Invariance == Spec => []IInv
BY InitInv, NextInv, PTL DEF Spec

\* Every variable keeps its type, with submissions per claim and upload counts
\* within their bounds.
THEOREM TypeCorrect == Spec => []TypeOK
<1>1. IInv => TypeOK
  BY DEF IInv
<1> QED BY <1>1, Invariance, PTL

\* A job the queue waits for is in one of the recovery fields, whatever answers
\* to claim, start, end and upload were lost and however the lease ran out.
THEOREM Tracking == Spec => []HeldJobsAreTracked
<1>1. IInv => HeldJobsAreTracked
  BY DEF IInv
<1> QED BY <1>1, Invariance, PTL

\* The scheduler has one job in hand at a time.
THEOREM Exclusion == Spec => []OneJobInHand
<1>1. IInv => OneJobInHand
  BY DEF IInv, HandInv, OneJobInHand
<1> QED BY <1>1, Invariance, PTL

\* A claim is ended with one outcome, across attempts and across polls.
THEOREM Stability == Spec => []OutcomeIsStable
<1>1. IInv => OutcomeIsStable
  BY DEF IInv
<1> QED BY <1>1, Invariance, PTL

\* A job ended as succeeded has had every staged file taken.
THEOREM Delivery == Spec => []SuccessMeansDelivered
<1>1. IInv => SuccessMeansDelivered
  BY DEF IInv
<1> QED BY <1>1, Invariance, PTL

\* A claim leads to at most one worker.
THEOREM SingleWorker == Spec => []OneWorkerPerClaim
<1>1. IInv => OneWorkerPerClaim
  BY DEF IInv
<1> QED BY <1>1, Invariance, PTL

\* An output directory on disk belongs to the running job, or it is abandoned: its
\* worker or the scheduler was killed before removing it, or the rmtree raised and
\* _remove_job_output only logged it (the job is cleared all the same).
THEOREM Ownership == Spec => []OutputsAreOwned
<1>1. IInv => OutputsAreOwned
  BY DEF IInv, OutputInv, OutputsAreOwned
<1> QED BY <1>1, Invariance, PTL

---------------------------------------------------------------------------
(* Action properties. *)

\* After an end has been sent for a claim, no step submits or uploads for it.
LEMMA QuietStep ==
  ASSUME TypeOK, ControlInv, HandInv, ClaimInv, RunningInv, [Next]_vars
  PROVE  \A j \in Jobs : sent[j] # {} /\ sent'[j] # {} =>
           accepted'[j] = accepted[j] /\ submits'[j] = submits[j]
<1> SUFFICES ASSUME NEW j \in Jobs, sent[j] # {}, sent'[j] # {}
             PROVE  accepted'[j] = accepted[j] /\ submits'[j] = submits[j]
  OBVIOUS
<1> USE NoneAssumption DEF TypeOK
<1>1. CASE Poll
  BY <1>1 DEF Poll, StartPoll, BeginCompletion, AfterCompletion, StartShutdown, ResumePending,
       DiscoverNothing, Discover
<1>2. CASE Claim
  <2>1. pendingClaim \in Jobs
    BY <1>2 DEF Claim, ClaimConfirmed, ClaimRefused, ClaimUnanswered, ClaimFailed,
         ControlInv
  <2>2. CASE ClaimEffect(pendingClaim)
    BY <2>1, <2>2 DEF ClaimEffect
  <2>3. CASE UNCHANGED history
    BY <2>3
  <2> QED BY <1>2, <2>2, <2>3
          DEF Claim, ClaimConfirmed, ClaimRefused, ClaimUnanswered, ClaimFailed
<1>3. CASE Prepare
  BY <1>3 DEF Prepare, CredentialsLoaded, CredentialsInvalid
<1>4. CASE Report
  BY <1>4 DEF Report, ReportRetried, ReportAnswered, ReportRaised, EndRetried
<1>5. CASE Launch
  \* Only the two outcomes of a submission count one, and it is of a fresh job.
  <2>1. CASE Submitted \/ SubmitFailed
    BY <2>1 DEF Submitted, SubmitFailed, CountSubmit, ControlInv, RunningInv, Fresh
  <2>2. CASE StartAccepted \/ StartRefused \/ StartRaised
    BY <2>2 DEF StartAccepted, StartRefused, StartRaised
  <2> QED BY <1>5, <2>1, <2>2 DEF Launch
<1>6. CASE Undo
  BY <1>6 DEF Undo, UndoRetried, UndoAnswered, UndoRaised, EndRetried
<1>7. CASE Upload
  \* An upload is left to do, so no end has been sent.
  BY <1>7 DEF Upload, UploadAccepted, UploadRaised, UploadRejected, UploadRefused, Abort,
              Uploading, ControlInv, RunningInv, Done
<1>8. CASE Complete
  BY <1>8 DEF Complete, CompleteRetried, CompleteAnswered, CompleteRaised, EndRetried
<1>9. CASE Watch
  BY <1>9 DEF Watch, WatchJob, Heartbeat, HeartbeatRefused, HeartbeatRefusedRaising, Forget, Abort
<1>10. CASE Worker
  BY <1>10, WorkerEffect
<1>11. CASE Stop \/ Crash
  BY <1>11 DEF Stop, Crash, Forget
<1>12. CASE Signal \/ Restart \/ Environment \/ UNCHANGED vars
  BY <1>12 DEF Signal, Restart, Environment
<1> QED BY <1>1, <1>2, <1>3, <1>4, <1>5, <1>6, <1>7, <1>8, <1>9, <1>10, <1>11, <1>12
        DEF Next, Scheduler

\* No step sends an outcome for a claim the scheduler was told it has lost.
LEMMA SilentStep ==
  ASSUME TypeOK, ControlInv, HandInv, FailureInv, RunningInv, [Next]_vars
  PROVE  \A j \in Jobs : j \in told /\ j \in told' => sent'[j] = sent[j]
<1> SUFFICES ASSUME NEW j \in Jobs, j \in told, j \in told'
             PROVE  sent'[j] = sent[j]
  OBVIOUS
<1> USE NoneAssumption DEF TypeOK
<1>1. CASE Poll
  BY <1>1 DEF Poll, StartPoll, BeginCompletion, AfterCompletion, StartShutdown, ResumePending,
       DiscoverNothing, Discover
<1>2. CASE Claim
  <2>1. CASE ClaimEffect(pendingClaim)
    BY <2>1 DEF ClaimEffect
  <2>2. CASE UNCHANGED history
    BY <2>2
  <2> QED BY <1>2, <2>1, <2>2
          DEF Claim, ClaimConfirmed, ClaimRefused, ClaimUnanswered, ClaimFailed
<1>3. CASE Prepare
  BY <1>3 DEF Prepare, CredentialsLoaded, CredentialsInvalid
<1>4. CASE Report
  BY <1>4, ReportEnds, EndEffect DEF FailureInv
<1>5. CASE Launch
  BY <1>5 DEF Launch, StartAccepted, StartRefused, StartRaised, Submitted, SubmitFailed
<1>6. CASE Undo
  BY <1>6, UndoEnds, EndEffect DEF RunningInv
<1>7. CASE Upload
  BY <1>7 DEF Upload, UploadAccepted, UploadRaised, UploadRejected, UploadRefused
<1>8. CASE Complete
  BY <1>8, CompleteEnds, EndEffect DEF RunningInv
<1>9. CASE Watch
  BY <1>9 DEF Watch, WatchJob, Heartbeat, HeartbeatRefused, HeartbeatRefusedRaising, Forget
<1>10. CASE Worker
  BY <1>10, WorkerEffect
<1>11. CASE Stop \/ Crash
  BY <1>11 DEF Stop, Crash, Forget
<1>12. CASE Signal \/ Restart \/ Environment \/ UNCHANGED vars
  BY <1>12 DEF Signal, Restart, Environment
<1> QED BY <1>1, <1>2, <1>3, <1>4, <1>5, <1>6, <1>7, <1>8, <1>9, <1>10, <1>11, <1>12
        DEF Next, Scheduler

\* Once an end has been sent for a claim, nothing more is collected or uploaded
\* for it.
THEOREM Quiet == Spec => NoWorkAfterOutcome
<1>1. IInv /\ [Next]_vars =>
        [\A j \in Jobs : sent[j] # {} /\ sent'[j] # {} =>
           accepted'[j] = accepted[j] /\ submits'[j] = submits[j]]_vars
  BY QuietStep DEF IInv
<1> QED BY <1>1, Invariance, PTL DEF Spec, NoWorkAfterOutcome

\* A claim the scheduler was told it has lost gets no outcome from it.
THEOREM Silence == Spec => LostClaimIsSilent
<1>1. IInv /\ [Next]_vars =>
        [\A j \in Jobs : j \in told /\ j \in told' => sent'[j] = sent[j]]_vars
  BY SilentStep DEF IInv
<1> QED BY <1>1, Invariance, PTL DEF Spec, LostClaimIsSilent

---------------------------------------------------------------------------
(* The scheduler implements the contract. *)

\* A step that changes nothing the contract is about is a stuttering step of it;
\* each of the others is the contract's action of the same purpose.
LEMMA ContractStep ==
  ASSUME TypeOK, ControlInv, HandInv, ClaimInv, FailureInv, RunningInv, ResultInv,
         [Next]_vars
  PROVE  [Contract!Next]_(Contract!contractVars)
<1> DEFINE Quiescent == UNCHANGED <<submits, accepted, sent, told>>
<1> USE NoneAssumption DEF TypeOK
<1>0. Quiescent => [Contract!Next]_(Contract!contractVars)
  BY DEF Contract!contractVars
<1>1. ASSUME NEW j \in Jobs, NEW o \in Outcomes, EndStep(j, o), j \notin told,
             sent[j] \subseteq {o}, o = "succeeded" => submits[j] = 1,
             UNCHANGED <<submits, accepted, told>>
      PROVE  Contract!Next
  <2>1. sent' = [sent EXCEPT ![j] = @ \cup {o}]
    BY <1>1, EndEffect
  <2>2. sent[j] \cup {o} = {o}
    BY <1>1
  <2>3. Contract!Report(j, o)
    BY <1>1, <2>1, <2>2 DEF Contract!Report
  <2> QED BY <2>3 DEF Contract!Next
<1>2. CASE Poll
  <2>1. Quiescent
    BY <1>2 DEF Poll, StartPoll, BeginCompletion, AfterCompletion, StartShutdown, ResumePending,
         DiscoverNothing, Discover
  <2> QED BY <1>0, <2>1
<1>3. CASE Claim
  <2>1. pendingClaim \in Jobs
    BY <1>3 DEF Claim, ClaimConfirmed, ClaimRefused, ClaimUnanswered, ClaimFailed, ControlInv
  <2>2. CASE ClaimEffect(pendingClaim) /\ ~Quiescent
    <3>1. Contract!Grant(pendingClaim)
      BY <2>2 DEF ClaimEffect, Contract!Grant
    <3> QED BY <2>1, <3>1 DEF Contract!Next
  <2>3. CASE UNCHANGED history
    BY <1>0, <2>3
  <2> QED BY <1>0, <1>3, <2>2, <2>3
          DEF Claim, ClaimConfirmed, ClaimRefused, ClaimUnanswered, ClaimFailed
<1>4. CASE Prepare
  <2>1. Quiescent
    BY <1>4 DEF Prepare, CredentialsLoaded, CredentialsInvalid
  <2> QED BY <1>0, <2>1
<1>5. CASE Report
  <2>1. UNCHANGED <<submits, accepted, told>>
    BY <1>5 DEF Report, ReportRetried, ReportAnswered, ReportRaised, EndRetried
  <2>2. pendingFailure \notin told /\ sent[pendingFailure] \subseteq {"failed"}
    BY <1>5, ReportEnds DEF FailureInv
  <2> QED BY <1>1, <1>5, <2>1, <2>2, ReportEnds
<1>6. CASE Launch
  <2>1. CASE Submitted \/ SubmitFailed
    <3>1. jobRunning \in Jobs /\ Fresh(jobRunning)
      BY <2>1 DEF Submitted, SubmitFailed, ControlInv, RunningInv
    <3>2. UNCHANGED <<accepted, sent, told>> /\ CountSubmit
      BY <2>1 DEF Submitted, SubmitFailed
    <3>3. Contract!Submit(jobRunning)
      BY <3>1, <3>2 DEF CountSubmit, Fresh, Contract!Submit, Contract!Open
    <3> QED BY <3>1, <3>3 DEF Contract!Next
  <2>2. CASE StartAccepted \/ StartRefused \/ StartRaised
    BY <1>0, <2>2 DEF StartAccepted, StartRefused, StartRaised
  <2> QED BY <1>6, <2>1, <2>2 DEF Launch
<1>7. CASE Undo
  <2>1. UNCHANGED <<submits, accepted, told>>
    BY <1>7 DEF Undo, UndoRetried, UndoAnswered, UndoRaised, EndRetried
  <2>2. jobRunning \notin told /\ sent[jobRunning] \subseteq {"failed"}
    BY <1>7, UndoEnds DEF Undo, UndoRetried, UndoAnswered, UndoRaised, RunningInv
  <2> QED BY <1>1, <1>7, <2>1, <2>2, UndoEnds
<1>8. CASE Upload
  <2>1. /\ jobRunning \in Jobs /\ jobRunning \notin told
        /\ sent[jobRunning] = {} /\ submits[jobRunning] = 1
    BY <1>8 DEF Upload, UploadAccepted, UploadRaised, UploadRejected, UploadRefused,
                Uploading, ControlInv, RunningInv, Done
  <2>2. NextFile \in 1..MaxFiles /\ 1..(NextFile - 1) \subseteq accepted[jobRunning]
    BY <1>8, BoundsAssumption
       DEF Upload, UploadAccepted, UploadRaised, UploadRejected, UploadRefused,
           Uploading, NextFile, ResultInv, Futures
  <2>3. CASE /\ accepted' = [accepted EXCEPT ![jobRunning] = @ \cup {NextFile}]
             /\ UNCHANGED <<submits, sent, told>>
    <3>1. Contract!Deliver(jobRunning)
      BY <2>1, <2>2, <2>3 DEF Contract!Deliver, Contract!Open
    <3> QED BY <2>1, <3>1 DEF Contract!Next
  <2>4. CASE Quiescent
    BY <1>0, <2>4
  <2>5. CASE UploadRefused
    <3>1. Contract!Lose(jobRunning)
      BY <2>5 DEF UploadRefused, Abort, Contract!Lose
    <3> QED BY <2>1, <3>1 DEF Contract!Next
  <2> QED BY <1>8, <2>3, <2>4, <2>5 DEF Upload, UploadAccepted, UploadRaised, UploadRejected
<1>9. CASE Complete
  <2>1. UNCHANGED <<submits, accepted, told>>
    BY <1>9 DEF Complete, CompleteRetried, CompleteAnswered, CompleteRaised, EndRetried
  <2>2. /\ jobRunning \notin told /\ sent[jobRunning] \subseteq {Verdict}
        /\ submits[jobRunning] = 1
    BY <1>9, CompleteEnds
       DEF Complete, CompleteRetried, CompleteAnswered, CompleteRaised, RunningInv,
           ControlInv, Done
  <2> QED BY <1>1, <1>9, <2>1, <2>2, CompleteEnds
<1>10. CASE Watch
  <2>1. CASE WatchJob \/ Heartbeat
    BY <1>0, <2>1 DEF WatchJob, Heartbeat
  <2>2. CASE HeartbeatRefused
    <3>1. jobRunning \in Jobs
      BY <2>2 DEF HeartbeatRefused, Watching, ControlInv
    <3>2. Contract!Lose(jobRunning)
      BY <2>2 DEF HeartbeatRefused, Abort, Contract!Lose
    <3> QED BY <3>1, <3>2 DEF Contract!Next
  <2>3. CASE HeartbeatRefusedRaising
    BY <1>0, <2>3, RaisingEffect
  <2> QED BY <1>10, <2>1, <2>2, <2>3 DEF Watch
<1>11. CASE Worker
  BY <1>0, <1>11, WorkerEffect
<1>12. CASE Stop \/ Crash
  BY <1>0, <1>12 DEF Stop, Crash, Forget
<1>13. CASE Signal \/ Restart \/ Environment \/ UNCHANGED vars
  BY <1>0, <1>13 DEF Signal, Restart, Environment
<1> QED BY <1>2, <1>3, <1>4, <1>5, <1>6, <1>7, <1>8, <1>9, <1>10, <1>11, <1>12, <1>13
        DEF Next, Scheduler

\* Whatever is lost, repeated or interrupted, what the queue is told about a
\* claim is what the contract allows.
THEOREM Refinement == Spec => KeepsContract
<1>1. Init => Contract!Init
  BY DEF Init, Contract!Init
<1>2. IInv /\ [Next]_vars => [Contract!Next]_(Contract!contractVars)
  BY ContractStep DEF IInv
<1> QED BY <1>1, <1>2, Invariance, PTL DEF Spec, KeepsContract, Contract!Spec

---------------------------------------------------------------------------
(* How long a shutdown takes. *)

\* Staged files that are still to be uploaded.
FilesLeft == IF future.st = "ok" /\ ~future.failure THEN future.files - future.uploaded ELSE 0

\* Attempts left of the claim or end call in hand.
AttemptsLeft == MaxAttempts - attempt

\* Steps to the end of a worker, and of handling what it left.
WorkerWork == CASE future.st = "none"    -> 0
                [] future.st = "running" -> MaxFiles + MaxAttempts + 2
                [] future.st \in Done    -> FilesLeft + MaxAttempts + 1

\* Steps that a process and its worker may still take once a signal has come,
\* if every upload and every end in _shutdown is answered.
LaunchWork == MaxFiles + 2 * MaxAttempts
ShutdownWork ==
  CASE pc = "complete" /\ stopping  -> FilesLeft + AttemptsLeft + 1
    [] pc = "complete" /\ ~stopping -> LaunchWork + FilesLeft + AttemptsLeft
                                         + 2 * MaxAttempts + 9
    [] pc = "schedule"              -> LaunchWork + WorkerWork + MaxAttempts + 7
    [] pc = "claim"                 -> LaunchWork + AttemptsLeft + 7
    [] pc = "secret"                -> LaunchWork + 6
    [] pc = "start"                 -> LaunchWork + 5
    [] pc = "submit"                -> LaunchWork + 4
    [] pc \in {"report", "undo"}    -> AttemptsLeft + 2
    [] pc = "loop"                  -> WorkerWork + 1
    [] pc = "drain"                 -> WorkerWork
    [] pc = "stopped"               -> 0

\* The most steps there can be.
ShutdownSteps == LaunchWork + MaxFiles + 3 * MaxAttempts + 8

WorkInRange == /\ FilesLeft \in 0..MaxFiles
               /\ AttemptsLeft \in 0..(MaxAttempts - 1)
               /\ WorkerWork \in 0..(MaxFiles + MaxAttempts + 2)
               /\ WorkerWork = 0 <=> future.st = "none"
               /\ future.st \in Done => WorkerWork = FilesLeft + MaxAttempts + 1
               /\ future.st = "running" => WorkerWork = MaxFiles + MaxAttempts + 2

LEMMA WorkIsInRange == TypeOK /\ ResultInv => WorkInRange
<1> SUFFICES ASSUME TypeOK, ResultInv
             PROVE  WorkInRange
  OBVIOUS
<1>1. /\ MaxFiles \in Nat /\ MaxAttempts \in Nat \ {0}
      /\ future.files \in 0..MaxFiles /\ future.uploaded \in 0..MaxFiles
      /\ future.st \in {"none", "running", "ok", "failed", "broken"}
      /\ attempt \in 1..MaxAttempts
  BY BoundsAssumption DEF TypeOK, Futures, Done
<1>2. FilesLeft \in 0..MaxFiles
  BY <1>1 DEF FilesLeft, ResultInv
<1>3. AttemptsLeft \in 0..(MaxAttempts - 1)
  BY <1>1 DEF AttemptsLeft
<1>4. /\ future.st = "none" => WorkerWork = 0
      /\ future.st = "running" => WorkerWork = MaxFiles + MaxAttempts + 2
      /\ future.st \in Done => WorkerWork = FilesLeft + MaxAttempts + 1
  BY <1>1 DEF WorkerWork, Done
<1>5. CASE future.st = "none"
  BY <1>1, <1>2, <1>3, <1>4, <1>5 DEF WorkInRange, Done
<1>6. CASE future.st = "running"
  BY <1>1, <1>2, <1>3, <1>4, <1>6 DEF WorkInRange, Done
<1>7. CASE future.st \in Done
  BY <1>1, <1>2, <1>3, <1>4, <1>7 DEF WorkInRange, Done
<1> QED BY <1>1, <1>5, <1>6, <1>7 DEF Done

\* The work left at each control point.
WorkByControl ==
  /\ pc = "complete" /\ stopping  => ShutdownWork = FilesLeft + AttemptsLeft + 1
  /\ pc = "complete" /\ ~stopping => ShutdownWork = LaunchWork + FilesLeft + AttemptsLeft
                                                      + 2 * MaxAttempts + 9
  /\ pc = "schedule"  => ShutdownWork = LaunchWork + WorkerWork + MaxAttempts + 7
  /\ pc = "claim"     => ShutdownWork = LaunchWork + AttemptsLeft + 7
  /\ pc = "secret"    => ShutdownWork = LaunchWork + 6
  /\ pc = "start"     => ShutdownWork = LaunchWork + 5
  /\ pc = "submit"    => ShutdownWork = LaunchWork + 4
  /\ pc = "report"    => ShutdownWork = AttemptsLeft + 2
  /\ pc = "undo"      => ShutdownWork = AttemptsLeft + 2
  /\ pc = "loop"      => ShutdownWork = WorkerWork + 1
  /\ pc = "drain"     => ShutdownWork = WorkerWork
  /\ pc = "stopped"   => ShutdownWork = 0

LEMMA WorkAtControl == WorkByControl
<1>1. CASE pc = "complete"  BY <1>1 DEF WorkByControl, ShutdownWork
<1>2. CASE pc \in {"schedule", "claim", "secret"}  BY <1>2 DEF WorkByControl, ShutdownWork
<1>3. CASE pc \in {"start", "submit", "report", "undo"}
  BY <1>3 DEF WorkByControl, ShutdownWork
<1>4. CASE pc \in {"loop", "drain", "stopped"}  BY <1>4 DEF WorkByControl, ShutdownWork
<1> QED BY <1>1, <1>2, <1>3, <1>4 DEF WorkByControl

LEMMA ShutdownWorkIsInRange == TypeOK /\ ResultInv => ShutdownWork \in 0..ShutdownSteps
<1> SUFFICES ASSUME TypeOK, ResultInv
             PROVE  ShutdownWork \in 0..ShutdownSteps
  OBVIOUS
<1>1. /\ FilesLeft \in 0..MaxFiles /\ AttemptsLeft \in 0..(MaxAttempts - 1)
      /\ WorkerWork \in 0..(MaxFiles + MaxAttempts + 2)
  BY WorkIsInRange DEF WorkInRange
<1>2. MaxFiles \in Nat /\ MaxAttempts \in Nat \ {0} /\ pc \in PCs /\ stopping \in BOOLEAN
  BY BoundsAssumption DEF TypeOK
<1> HIDE DEF FilesLeft, AttemptsLeft, WorkerWork
<1>3. CASE pc = "complete"
  BY <1>1, <1>2, <1>3, WorkAtControl DEF WorkByControl, ShutdownSteps, LaunchWork
<1>4. CASE pc = "schedule"
  BY <1>1, <1>2, <1>4, WorkAtControl DEF WorkByControl, ShutdownSteps, LaunchWork
<1>5. CASE pc \in {"claim", "secret", "start", "submit"}
  BY <1>1, <1>2, <1>5, WorkAtControl DEF WorkByControl, ShutdownSteps, LaunchWork
<1>6. CASE pc \in {"report", "undo", "loop", "drain", "stopped"}
  BY <1>1, <1>2, <1>6, WorkAtControl DEF WorkByControl, ShutdownSteps, LaunchWork
<1> QED BY <1>2, <1>3, <1>4, <1>5, <1>6 DEF PCs

\* The loops of _shutdown run with stopping set and send no end themselves; a
\* process that is gone has no signal pending.
DrainInv == /\ pc = "drain" => stopping /\ attempt = 1
            /\ pc = "stopped" => ~exit

LEMMA DrainStep ==
  ASSUME DrainInv, TypeOK, [Next]_vars
  PROVE  DrainInv'
<1> USE DEF DrainInv
<1>1. CASE Poll
  BY <1>1 DEF Poll, StartPoll, BeginCompletion, AfterCompletion, StartShutdown, ResumePending,
       DiscoverNothing, Discover
<1>2. CASE Claim
  BY <1>2 DEF Claim, ClaimConfirmed, ClaimRefused, ClaimUnanswered, ClaimFailed
<1>3. CASE Prepare
  BY <1>3 DEF Prepare, CredentialsLoaded, CredentialsInvalid
<1>4. CASE Report
  BY <1>4 DEF Report, ReportRetried, ReportAnswered, ReportRaised, EndRetried
<1>5. CASE Launch
  BY <1>5 DEF Launch, StartAccepted, StartRefused, StartRaised, Submitted, SubmitFailed
<1>6. CASE Undo
  BY <1>6 DEF Undo, UndoRetried, UndoAnswered, UndoRaised, EndRetried
<1>7. CASE Upload
  BY <1>7 DEF Upload, UploadAccepted, UploadRaised, UploadRejected, UploadRefused,
     AfterCompletion
<1>8. CASE Complete
  BY <1>8 DEF Complete, CompleteRetried, CompleteAnswered, CompleteRaised, EndRetried,
     AfterCompletion
<1>9. CASE Watch
  BY <1>9 DEF Watch, WatchJob, Heartbeat, HeartbeatRefused, HeartbeatRefusedRaising, Forget,
       Watching, AfterWatch, BeginCompletion, AfterCompletion
<1>10. CASE Worker
  <2>1. UNCHANGED <<pc, exit, stopping, attempt>>
    BY <1>10 DEF Worker, WorkerSucceeds, WorkerFails, WorkerDies
  <2> QED BY <2>1
<1>11. CASE Stop \/ Signal \/ Crash \/ Restart \/ Environment \/ UNCHANGED vars
  BY <1>11 DEF Stop, Signal, Crash, Restart, Environment, Forget
<1> QED BY <1>1, <1>2, <1>3, <1>4, <1>5, <1>6, <1>7, <1>8, <1>9, <1>10, <1>11
        DEF Next, Scheduler

LEMMA DrainIsInvariant == Spec => []DrainInv
<1>1. Init => DrainInv
  BY DEF Init, LocalInit, DrainInv
<1>2. TypeOK /\ DrainInv /\ [Next]_vars => DrainInv'
  BY DrainStep
<1> QED BY <1>1, <1>2, TypeCorrect, PTL DEF Spec

\* Two comparisons of the next proof.
LEMMA SumsAreOrdered ==
  \A a, b, m, n \in Nat : /\ a <= b => a + 1 < m + b + n + 7
                          /\ a < b => m + a + 1 < m + b + 1
  OBVIOUS

\* After a signal every step that changes what the process knows is one of those
\* that were still to come, but for a request of _shutdown that raises.
LEMMA ShutdownGoesOn ==
  ASSUME IInv, IInv', DrainInv, Next, exit, exit'
  PROVE  \/ ShutdownWork' < ShutdownWork
         \/ stopping /\ (UploadRaised \/ CompleteRaised)
         \/ UNCHANGED local
<1>1. TypeOK /\ ResultInv /\ (TypeOK /\ ResultInv)'
  BY DEF IInv
<1>2. WorkInRange /\ WorkInRange'
  BY <1>1, WorkIsInRange, PTL
<1>3. /\ FilesLeft \in 0..MaxFiles /\ FilesLeft' \in 0..MaxFiles
      /\ AttemptsLeft \in 0..(MaxAttempts - 1) /\ AttemptsLeft' \in 0..(MaxAttempts - 1)
      /\ WorkerWork \in 0..(MaxFiles + MaxAttempts + 2)
      /\ WorkerWork' \in 0..(MaxFiles + MaxAttempts + 2)
  BY <1>2 DEF WorkInRange
<1>4. WorkByControl /\ WorkByControl'
  BY WorkAtControl, PTL
<1>5. /\ MaxFiles \in Nat /\ MaxAttempts \in Nat \ {0} /\ LaunchWork = MaxFiles + 2 * MaxAttempts
      /\ stopping \in BOOLEAN /\ exit \in BOOLEAN /\ exit' \in BOOLEAN
      /\ attempt \in 1..MaxAttempts
      /\ ControlInv /\ ControlInv' /\ HandInv /\ future \in Futures
  BY <1>1, BoundsAssumption DEF IInv, TypeOK, LaunchWork
<1>6. /\ UNCHANGED future => FilesLeft' = FilesLeft /\ WorkerWork' = WorkerWork
      /\ future' = NoFuture => WorkerWork' = 0
      /\ UNCHANGED attempt => AttemptsLeft' = AttemptsLeft
  <2>1. UNCHANGED future => FilesLeft' = FilesLeft
    BY DEF FilesLeft
  <2>2. UNCHANGED future => WorkerWork' = WorkerWork
    BY <2>1 DEF WorkerWork
  <2>3. future' = NoFuture => WorkerWork' = 0
    BY <1>2 DEF NoFuture, WorkInRange
  <2>4. UNCHANGED attempt => AttemptsLeft' = AttemptsLeft
    BY DEF AttemptsLeft
  <2> QED BY <2>1, <2>2, <2>3, <2>4
<1>7. attempt' = attempt + 1 => AttemptsLeft' = AttemptsLeft - 1
  BY <1>5 DEF AttemptsLeft
<1>8. jobRunning = None => WorkerWork = 0 \/ pc \in {"submit", "undo"}
  BY <1>5, <1>2 DEF ControlInv, WorkInRange
<1>9. pc \in {"submit", "undo"} => WorkerWork = 0
  BY <1>5, <1>2 DEF ControlInv, WorkInRange
<1>21. /\ MaxFiles \in Nat /\ MaxAttempts \in Nat /\ LaunchWork \in Nat
       /\ FilesLeft \in Nat /\ AttemptsLeft' \in Nat
       /\ WorkerWork \in Nat /\ WorkerWork' \in Nat
  BY <1>3, <1>5
<1> HIDE DEF FilesLeft, AttemptsLeft, WorkerWork, ShutdownWork, LaunchWork
<1>10. CASE Poll
  <2>1. CASE StartShutdown
    BY <2>1, <1>3, <1>4, <1>5, <1>6 DEF StartShutdown, WorkByControl
  <2>2. CASE StartPoll
    BY <2>2 DEF StartPoll
  <2>3. CASE ResumePending \/ DiscoverNothing \/ \E j \in Jobs : Discover(j)
    <3>1. /\ pc = "schedule" /\ pc' \in {"report", "start", "claim", "loop"}
          /\ UNCHANGED future
      BY <2>3 DEF ResumePending, DiscoverNothing, Discover
    <3> QED BY <3>1, <1>3, <1>4, <1>5, <1>6 DEF WorkByControl
  <2> QED BY <1>10, <2>1, <2>2, <2>3 DEF Poll
<1>11. CASE Claim
  <2>1. CASE pc' = "claim"
    <3>1. pc = "claim" /\ attempt' = attempt + 1
      BY <1>11, <2>1 DEF Claim, ClaimConfirmed, ClaimRefused, ClaimUnanswered, ClaimFailed
    <3> QED BY <2>1, <3>1, <1>3, <1>4, <1>5, <1>7 DEF WorkByControl
  <2>2. CASE pc' # "claim"
    <3>1. pc = "claim" /\ pc' \in {"secret", "loop"}
      BY <1>11, <2>2 DEF Claim, ClaimConfirmed, ClaimRefused, ClaimUnanswered, ClaimFailed
    <3> QED BY <3>1, <1>3, <1>4, <1>5 DEF WorkByControl
  <2> QED BY <2>1, <2>2
<1>12. CASE Prepare
  <2>1. pc = "secret" /\ pc' \in {"start", "loop", "report"}
    BY <1>12 DEF Prepare, CredentialsLoaded, CredentialsInvalid
  <2> QED BY <2>1, <1>3, <1>4, <1>5 DEF WorkByControl
<1>13. CASE Report
  <2>1. CASE ReportRetried
    <3>1. pc = "report" /\ pc' = "report" /\ attempt' = attempt + 1
      BY <2>1 DEF ReportRetried, EndRetried
    <3> QED BY <3>1, <1>3, <1>4, <1>5, <1>7 DEF WorkByControl
  <2>2. CASE ReportAnswered \/ ReportRaised
    <3>1. pc = "report" /\ pc' = "loop" /\ UNCHANGED future
      BY <2>2 DEF ReportAnswered, ReportRaised
    <3>2. jobRunning = None
      BY <3>1, <1>5 DEF ControlInv, HandInv
    <3> QED BY <3>1, <3>2, <1>3, <1>4, <1>5, <1>6, <1>8 DEF WorkByControl
  <2> QED BY <1>13, <2>1, <2>2 DEF Report
<1>14. CASE Launch
  <2>1. CASE StartAccepted \/ StartRefused \/ StartRaised
    <3>1. pc = "start" /\ pc' \in {"submit", "loop"} /\ UNCHANGED future
      BY <2>1 DEF StartAccepted, StartRefused, StartRaised
    <3> QED BY <3>1, <1>3, <1>4, <1>5 DEF WorkByControl
  <2>2. CASE Submitted \/ SubmitFailed
    <3>1. pc = "submit" /\ pc' \in {"loop", "undo"}
      BY <2>2 DEF Submitted, SubmitFailed
    <3> QED BY <3>1, <1>3, <1>4, <1>5 DEF WorkByControl
  <2> QED BY <1>14, <2>1, <2>2 DEF Launch
<1>15. CASE Undo
  <2>1. CASE UndoRetried
    <3>1. pc = "undo" /\ pc' = "undo" /\ attempt' = attempt + 1
      BY <2>1 DEF UndoRetried, EndRetried
    <3> QED BY <3>1, <1>3, <1>4, <1>5, <1>7 DEF WorkByControl
  <2>2. CASE UndoAnswered \/ UndoRaised
    <3>1. pc = "undo" /\ pc' = "loop" /\ (future' = NoFuture \/ UNCHANGED future)
      BY <2>2 DEF UndoAnswered, UndoRaised, ClearRunningJob, ClearRaises
    <3>2. WorkerWork' = 0
      BY <3>1, <1>6, <1>9
    <3> QED BY <3>1, <3>2, <1>3, <1>4, <1>5 DEF WorkByControl
  <2> QED BY <1>15, <2>1, <2>2 DEF Undo
<1>16. CASE Upload
  <2>1. CASE UploadAccepted
    <3>1. pc = "complete" /\ UNCHANGED <<pc, stopping, attempt>>
      BY <2>1 DEF UploadAccepted
    <3>2. FilesLeft' = FilesLeft - 1
      BY <2>1, <1>5 DEF UploadAccepted, Uploading, FilesLeft, Futures
    <3> QED BY <3>1, <3>2, <1>3, <1>4, <1>5, <1>6 DEF WorkByControl
  <2>2. CASE UploadRejected
    <3>1. pc = "complete" /\ UNCHANGED <<pc, stopping, attempt>>
      BY <2>2 DEF UploadRejected
    <3>2. FilesLeft' = 0 /\ FilesLeft > 0
      BY <2>2, <1>5, <1>1 DEF UploadRejected, Uploading, FilesLeft, Futures, ResultInv
    <3> QED BY <3>1, <3>2, <1>3, <1>4, <1>5, <1>6 DEF WorkByControl
  <2>3. CASE UploadRefused
    <3>1. /\ pc = "complete" /\ pc' = IF stopping THEN "drain" ELSE "schedule"
          /\ future' = NoFuture
      BY <2>3 DEF UploadRefused, Abort, AfterCompletion, ClearRunningJob
    <3> QED BY <3>1, <1>3, <1>4, <1>5, <1>6 DEF WorkByControl
  <2>4. CASE UploadRaised /\ ~stopping
    <3>1. pc = "complete" /\ pc' = "schedule" /\ UNCHANGED future
      BY <2>4 DEF UploadRaised, AfterCompletion
    <3>2. WorkerWork' = FilesLeft + MaxAttempts + 1
      BY <3>1, <1>2, <1>5, <1>6 DEF WorkInRange, ControlInv
    <3> QED BY <2>4, <3>1, <3>2, <1>3, <1>4, <1>5 DEF WorkByControl
  <2> QED BY <1>16, <2>1, <2>2, <2>3, <2>4 DEF Upload
<1>17. CASE Complete
  <2>1. CASE CompleteRetried
    <3>1. pc = "complete" /\ UNCHANGED <<pc, stopping, future>> /\ attempt' = attempt + 1
      BY <2>1 DEF CompleteRetried, EndRetried
    <3> QED BY <3>1, <1>3, <1>4, <1>5, <1>6, <1>7 DEF WorkByControl
  <2>2. CASE CompleteAnswered
    <3>1. /\ pc = "complete" /\ pc' = IF stopping THEN "drain" ELSE "schedule"
          /\ future' = NoFuture
      BY <2>2 DEF CompleteAnswered, AfterCompletion, ClearRunningJob
    <3> QED BY <3>1, <1>3, <1>4, <1>5, <1>6 DEF WorkByControl
  <2>3. CASE CompleteRaised /\ ~stopping
    <3>1. pc = "complete" /\ pc' = "schedule" /\ UNCHANGED future
      BY <2>3 DEF CompleteRaised, AfterCompletion
    <3>2. WorkerWork' = FilesLeft + MaxAttempts + 1
      BY <3>1, <1>2, <1>5, <1>6 DEF WorkInRange, ControlInv
    <3> QED BY <2>3, <3>1, <3>2, <1>3, <1>4, <1>5 DEF WorkByControl
  <2> QED BY <1>17, <2>1, <2>2, <2>3 DEF Complete
<1>18. CASE Watch
  <2>1. CASE HeartbeatRefusedRaising
    <3>1. pc = "schedule" /\ ~stopping /\ pc' = "drain"
      BY <2>1, <1>1, <1>5, RaisingEffect DEF Watching, Forget, DrainInv
    <3>2. WorkerWork' <= WorkerWork
      <4>1. future.st = "running" => WorkerWork' = FilesLeft' + MaxAttempts + 1
        BY <2>1, <3>1, <1>1, <1>2, <1>5, RaisingEffect DEF WorkInRange, Done, Forget
      <4>2. future.st # "running" => UNCHANGED future
        <5>1. /\ future' = [future EXCEPT !.st = IF @ = "running" THEN "broken" ELSE @]
              /\ future \in Futures
          BY <2>1, <3>1, <1>5 DEF HeartbeatRefusedRaising
        <5> QED BY ONLY <5>1 DEF Futures
      <4> QED BY <4>1, <4>2, <1>2, <1>3, <1>5, <1>6 DEF WorkInRange
    <3>3. WorkerWork' < LaunchWork + WorkerWork + MaxAttempts + 7
      BY <3>2, <1>21
    <3>4. /\ ShutdownWork = LaunchWork + WorkerWork + MaxAttempts + 7
          /\ ShutdownWork' = WorkerWork'
      BY <3>1, <1>4 DEF WorkByControl
    <3> QED BY <3>3, <3>4
  <2>2. CASE ~HeartbeatRefusedRaising /\ pc = "schedule"
    <3>1. pc' = "loop" /\ (UNCHANGED future \/ future' = NoFuture)
      BY <1>18, <2>2, <1>5 DEF Watch, WatchJob, Heartbeat, HeartbeatRefused, AfterWatch,
         ControlInv, Abort, ClearRunningJob
    <3>2. WorkerWork' <= WorkerWork
      BY <3>1, <1>3, <1>5, <1>6
    <3>3. WorkerWork' + 1 < LaunchWork + WorkerWork + MaxAttempts + 7
      BY <3>2, <1>21, SumsAreOrdered
    <3>4. /\ ShutdownWork = LaunchWork + WorkerWork + MaxAttempts + 7
          /\ ShutdownWork' = WorkerWork' + 1
      BY <2>2, <3>1, <1>4 DEF WorkByControl
    <3> QED BY <3>3, <3>4
  <2>3. CASE ~HeartbeatRefusedRaising /\ pc # "schedule"
    <3>1. pc = "drain" /\ stopping /\ attempt = 1 /\ future.st # "none"
      BY <1>18, <2>3 DEF Watch, WatchJob, Heartbeat, HeartbeatRefused, Watching, DrainInv
    <3>2. CASE HeartbeatRefused
      <4>1. pc' = "drain" /\ future' = NoFuture /\ WorkerWork # 0
        BY <3>1, <3>2, <1>2 DEF HeartbeatRefused, Abort, ClearRunningJob, WorkInRange
      <4>2. ShutdownWork' < ShutdownWork
        BY <3>1, <4>1, <1>3, <1>4, <1>5, <1>6 DEF WorkByControl
      <4> QED BY <4>2
    <3>3. CASE (WatchJob \/ Heartbeat) /\ pc' = "complete"
      <4>1. future.st \in Done /\ stopping' /\ UNCHANGED future /\ attempt' = 1
        BY <3>1, <3>3 DEF WatchJob, Heartbeat, AfterWatch, BeginCompletion, AfterCompletion
      <4>2. WorkerWork = FilesLeft + MaxAttempts + 1
        BY <4>1, <1>2 DEF WorkInRange
      <4>3. FilesLeft' = FilesLeft
        BY <4>1, <1>6
      <4>4. AttemptsLeft' < MaxAttempts
        BY <1>3, <1>21
      <4>5. FilesLeft + AttemptsLeft' + 1 < FilesLeft + MaxAttempts + 1
        BY <4>4, <1>21, SumsAreOrdered
      <4>6. /\ ShutdownWork = WorkerWork
            /\ ShutdownWork' = FilesLeft' + AttemptsLeft' + 1
        BY <3>1, <3>3, <4>1, <1>4 DEF WorkByControl
      <4> QED BY <4>2, <4>3, <4>5, <4>6
    <3>4. CASE (WatchJob \/ Heartbeat) /\ pc' # "complete"
      \* The worker runs, or the workspace of a completed job was not removed.
      <4>1. /\ pc' = "drain" /\ attempt' = 1
            /\ UNCHANGED <<exit, stopping, pending, job, future>>
        BY <3>1, <3>4 DEF WatchJob, Heartbeat, AfterWatch, BeginCompletion, AfterCompletion
      <4> QED BY <3>1, <4>1
    <3> QED BY <1>18, <2>3, <3>2, <3>3, <3>4 DEF Watch
  <2> QED BY <2>1, <2>2, <2>3
<1>19. CASE Worker
  <2>1. /\ future.st = "running" /\ future'.st \in Done
        /\ UNCHANGED <<pc, stopping, attempt>>
    <3>1. CASE WorkerSucceeds
      BY <3>1, <1>5 DEF WorkerSucceeds, Futures, Done
    <3>2. CASE WorkerFails
      BY <3>2, <1>5 DEF WorkerFails, Futures, Done
    <3>3. CASE WorkerDies
      BY <3>3, <1>5 DEF WorkerDies, Futures, Done
    <3> QED BY <1>19, <3>1, <3>2, <3>3 DEF Worker
  <2>2. /\ WorkerWork = MaxFiles + MaxAttempts + 2
        /\ WorkerWork' = FilesLeft' + MaxAttempts + 1
    BY <2>1, <1>2 DEF WorkInRange
  <2>3. pc \in {"schedule", "loop", "drain"}
    <3>1. pc \in PCs /\ future.st \notin Done
      BY <2>1, <1>1 DEF TypeOK, Done
    <3>2. jobRunning # None /\ pc \notin {"submit", "undo"}
      BY <2>1, <1>5 DEF ControlInv
    <3>3. pendingClaim = None /\ pendingStart = None /\ pendingFailure = None
      BY <3>2, <1>5 DEF HandInv
    <3> QED BY <3>1, <3>2, <3>3, <1>5 DEF ControlInv, PCs, Unoccupied
  <2> QED BY <2>1, <2>2, <2>3, <1>3, <1>4, <1>5 DEF WorkByControl
<1>20. CASE Stop \/ Signal \/ Crash \/ Restart \/ Environment
  BY <1>20, <1>5 DEF Stop, Signal, Crash, Restart, Environment, Forget, DrainInv
<1> QED BY <1>10, <1>11, <1>12, <1>13, <1>14, <1>15, <1>16, <1>17, <1>18, <1>19, <1>20
        DEF Next, Scheduler

\* Once _exit_handler has set exit, what start and _shutdown still have to do is
\* bounded: ShutdownWork, which no worker, lease or queue can make grow, and which
\* every step of the process that changes what it knows uses up.  There are three
\* exceptions, and _shutdown has no limit of its own for any: the wait while the
\* worker runs and the poll that cannot remove the workspace of a job that is done,
\* which leave what the process knows as it is, and an upload or an end that raises
\* in its loop, after which it starts again with the same Result.
THEOREM ShutdownIsBounded ==
  Spec => /\ [](ShutdownWork \in 0..ShutdownSteps)
          /\ [][exit /\ exit' => \/ ShutdownWork' < ShutdownWork
                                 \/ stopping /\ (UploadRaised \/ CompleteRaised)]_local
<1>1. IInv => ShutdownWork \in 0..ShutdownSteps
  BY ShutdownWorkIsInRange DEF IInv
<1>2. IInv /\ IInv' /\ DrainInv /\ [Next]_vars =>
        [exit /\ exit' => \/ ShutdownWork' < ShutdownWork
                          \/ stopping /\ (UploadRaised \/ CompleteRaised)]_local
  <2>1. UNCHANGED vars => UNCHANGED local
    BY DEF vars
  <2> QED BY ShutdownGoesOn, <2>1
<1> QED BY <1>1, <1>2, Invariance, DrainIsInvariant, PTL DEF Spec

=============================================================================
