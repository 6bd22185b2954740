-------------------------- MODULE ManagedScheduler --------------------------
(***************************************************************************)
(* The managed mode of Service (scheduler/service.py): one scheduler       *)
(* process that discovers, claims, prepares, starts, runs and ends one     *)
(* queue job at a time, and the queue it talks to (CollectorQueue).        *)
(*                                                                         *)
(* Every HTTP request is one step.  A request may be answered, may be      *)
(* lost before or after the queue has carried it out, or may be rejected;  *)
(* the retry loops of claim_managed_job and end_managed_job are the steps  *)
(* that count attempt.  Between any two steps the queue may move, a lease  *)
(* may expire, the worker may finish, a signal may arrive, or the process  *)
(* may crash.                                                              *)
(*                                                                         *)
(* pc is where the process is:                                             *)
(*   "loop"      at the top of the while loop of start, or in its sleep    *)
(*   "schedule"  in _poll, after the completed job has been handled        *)
(*   "claim"     sending claim for pendingClaim                            *)
(*   "secret"    retrieving credentials for pendingClaim                   *)
(*   "report"    ending pendingFailure as failed                           *)
(*   "start"     sending start for pendingStart                            *)
(*   "submit"    started, about to submit the worker                       *)
(*   "undo"      submission failed, ending jobRunning as failed            *)
(*   "complete"  in _handle_completed_job                                  *)
(*   "drain"     in the loops of _shutdown                                 *)
(*   "stopped"   the process is gone                                       *)
(*                                                                         *)
(* A definition marked "Mutant" is the next one with a plausible bug in it; *)
(* no action uses it.  Each shows that some property depends on the code.  *)
(***************************************************************************)
EXTENDS CollectorQueue, FiniteSets

CONSTANTS MaxFiles,           \* bound: files a collection stages
          MaxAttempts,        \* attempts of one claim or end call
          HeartbeatsDisabled  \* _MANAGED_HEARTBEATS_DISABLED

ASSUME BoundsAssumption == /\ MaxFiles \in Nat
                           /\ MaxAttempts \in Nat \ {0}
                           /\ HeartbeatsDisabled \in BOOLEAN

VARIABLES
  pc,
  exit,            \* self.exit
  stopping,        \* the process is inside _shutdown
  attempt,         \* attempt of the current claim or end call
  pendingClaim,    \* self._pending_managed_claim
  pendingStart,    \* self._pending_managed_start: the job of the prepared inputs
  pendingFailure,  \* self._pending_managed_failure
  jobRunning,      \* self.job_running, which managed_job_id always equals here
  workspace,       \* self._aws_profile_workspace is not None
  future,          \* self.future and the Result inside it
  outputs,         \* jobs with a staged output directory on disk
  abandoned,       \* jobs with one that nothing will remove any more: the process
                   \* that had to was killed, or its rmtree raised
  \* History, which no step reads.
  produced,        \* files the worker staged for the job since it was claimed
  accepted,        \* files the queue took for the job since it was claimed
  sent,            \* outcomes sent for the job since it was claimed
  submits,         \* worker submissions for the job since it was claimed
  told,            \* jobs let go of because the queue has refused them
  orphans          \* jobs held at BHE that the process has given up knowingly

pending == <<pendingClaim, pendingStart, pendingFailure>>
job == <<jobRunning, workspace>>
local == <<pc, exit, stopping, attempt, pending, job, future>>
disk == <<outputs, abandoned>>
history == <<produced, accepted, sent, submits, told, orphans>>
vars == <<queueVars, local, disk, history>>

PCs == {"loop", "schedule", "claim", "secret", "report", "start", "submit",
        "undo", "complete", "drain", "stopped"}

Done == {"ok", "failed", "broken"}
NoFuture == [st |-> "none", files |-> 0, uploaded |-> 0, failure |-> FALSE]
Futures == [st : {"none", "running"} \cup Done, files : 0..MaxFiles,
            uploaded : 0..MaxFiles, failure : BOOLEAN]

TypeOK ==
  /\ QueueTypeOK
  /\ pc \in PCs
  /\ exit \in BOOLEAN
  /\ stopping \in BOOLEAN
  /\ attempt \in 1..MaxAttempts
  /\ pendingClaim \in Jobs \cup {None}
  /\ pendingStart \in Jobs \cup {None}
  /\ pendingFailure \in Jobs \cup {None}
  /\ jobRunning \in Jobs \cup {None}
  /\ workspace \in BOOLEAN
  /\ future \in Futures
  /\ outputs \in SUBSET Jobs
  /\ abandoned \in SUBSET Jobs
  /\ produced \in [Jobs -> 0..MaxFiles]
  /\ accepted \in [Jobs -> SUBSET (1..MaxFiles)]
  /\ sent \in [Jobs -> SUBSET Outcomes]
  /\ submits \in [Jobs -> 0..2]
  /\ told \in SUBSET Jobs
  /\ orphans \in SUBSET Jobs

LocalInit ==
  /\ pc = "loop"
  /\ exit = FALSE
  /\ stopping = FALSE
  /\ attempt = 1
  /\ pendingClaim = None
  /\ pendingStart = None
  /\ pendingFailure = None
  /\ jobRunning = None
  /\ workspace = FALSE
  /\ future = NoFuture

Init ==
  /\ QueueInit
  /\ LocalInit
  /\ outputs = {}
  /\ abandoned = {}
  /\ produced = [j \in Jobs |-> 0]
  /\ accepted = [j \in Jobs |-> {}]
  /\ sent = [j \in Jobs |-> {}]
  /\ submits = [j \in Jobs |-> 0]
  /\ told = {}
  /\ orphans = {}

---------------------------------------------------------------------------
(* The poll loop. *)

Goto(l) == pc' = l /\ attempt' = 1

\* Mutant: the retry loops allow one attempt too many.
MayRetryOnceMore == attempt <= MaxAttempts

\* claim_managed_job and end_managed_job give up after their last attempt.
MayRetry == attempt < MaxAttempts

\* _poll goes on to its second half; _shutdown loops.
AfterCompletion == Goto(IF stopping THEN "drain" ELSE "schedule")

\* _handle_completed_job begins by removing the workspace of the job.  When that
\* raises, everything is retained for the next poll.
BeginCompletion ==
  \/ workspace' = FALSE /\ Goto("complete")
  \/ workspace /\ UNCHANGED workspace /\ AfterCompletion

\* start: one more _poll unless a signal has arrived.
StartPoll ==
  /\ pc = "loop"
  /\ ~exit
  /\ IF future.st \in Done THEN BeginCompletion ELSE Goto("schedule") /\ UNCHANGED workspace
  /\ UNCHANGED <<queueVars, exit, stopping, pending, jobRunning, future, disk, history>>

\* start: the finally clause enters _shutdown.
StartShutdown ==
  /\ pc = "loop"
  /\ exit
  /\ Goto("drain")
  /\ stopping' = TRUE
  /\ UNCHANGED <<queueVars, exit, pending, job, future, disk, history>>

\* _poll_managed_jobs resumes what an earlier poll left unresolved, in this
\* order: a failure to report, prepared inputs to start, a claim to reconcile.
ResumePending ==
  /\ pc = "schedule"
  /\ jobRunning = None
  /\ \/ pendingFailure # None /\ Goto("report")
     \/ pendingFailure = None /\ pendingStart # None /\ Goto("start")
     \/ /\ pendingFailure = None /\ pendingStart = None
        /\ pendingClaim # None /\ Goto("claim")
  /\ UNCHANGED <<queueVars, exit, stopping, pending, job, future, disk, history>>

\* Mutant: a failure that is still to be reported does not keep the scheduler
\* from discovering the next job.
UnoccupiedButFailing == jobRunning = None /\ pendingClaim = None /\ pendingStart = None

Unoccupied ==
  jobRunning = None /\ pendingClaim = None /\ pendingStart = None /\ pendingFailure = None

\* Discovery returns a job of this collector; claim retains its id first.
Discover(j) ==
  /\ pc = "schedule"
  /\ Unoccupied
  /\ bhe[j] = "available"
  /\ pendingClaim' = j
  /\ Goto("claim")
  /\ UNCHANGED <<queueVars, exit, stopping, pendingStart, pendingFailure, job,
                 future, disk, history>>

\* Discovery fails, or lists no job of this collector.
DiscoverNothing ==
  /\ pc = "schedule"
  /\ Unoccupied
  /\ Goto("loop")
  /\ UNCHANGED <<queueVars, exit, stopping, pending, job, future, disk, history>>

---------------------------------------------------------------------------
(* Claiming and preparing. *)

\* The queue carries out a claim: what is known of an earlier one is void.
ClaimEffect(j) ==
  \/ /\ GrantClaim(j)
     /\ produced' = [produced EXCEPT ![j] = 0]
     /\ accepted' = [accepted EXCEPT ![j] = {}]
     /\ sent' = [sent EXCEPT ![j] = {}]
     /\ submits' = [submits EXCEPT ![j] = 0]
     /\ told' = told \ {j}
     /\ orphans' = orphans \ {j}
  \/ ConfirmClaim(j) /\ UNCHANGED history

\* 200: _validate_managed_claim accepts only an unexpired lease, otherwise it
\* raises and the claim stays to be reconciled.
ClaimConfirmed ==
  /\ pc = "claim"
  /\ ClaimEffect(pendingClaim)
  /\ Goto(IF lease'[pendingClaim] THEN "secret" ELSE "loop")
  /\ UNCHANGED <<exit, stopping, pending, job, future, disk>>

\* 404, 409: the id is dropped.
ClaimRefused ==
  /\ pc = "claim"
  /\ RefuseClaim(pendingClaim)
  /\ pendingClaim' = None
  /\ Goto("loop")
  /\ UNCHANGED <<exit, stopping, pendingStart, pendingFailure, job, future,
                 disk, history>>

\* A timeout, a lost answer or a transient status: the call retries, and
\* raises after its last attempt with the id retained.
ClaimUnanswered ==
  /\ pc = "claim"
  /\ ClaimEffect(pendingClaim) \/ UNCHANGED <<queueVars, history>>
  /\ IF MayRetry
       THEN attempt' = attempt + 1 /\ pc' = "claim"
       ELSE Goto("loop")
  /\ UNCHANGED <<exit, stopping, pending, job, future, disk>>

\* Mutant: the id is dropped with the error.
ClaimFailedDropped ==
  /\ pc = "claim"
  /\ ClaimEffect(pendingClaim) \/ UNCHANGED <<queueVars, history>>
  /\ pendingClaim' = None
  /\ Goto("loop")
  /\ UNCHANGED <<exit, stopping, pendingStart, pendingFailure, job, future, disk>>

\* Any other status, or an answer that does not parse or does not confirm the
\* claim: raised at once.
ClaimFailed ==
  /\ pc = "claim"
  /\ ClaimEffect(pendingClaim) \/ UNCHANGED <<queueVars, history>>
  /\ Goto("loop")
  /\ UNCHANGED <<exit, stopping, pending, job, future, disk>>

\* Credentials are valid.  The second _validate_managed_claim reads the lease
\* again, after the retrieval; an expired one leaves only the id.
CredentialsLoaded ==
  /\ pc = "secret"
  /\ IF lease[pendingClaim]
       THEN pendingStart' = pendingClaim /\ Goto("start")
       ELSE UNCHANGED pendingStart /\ Goto("loop")
  /\ UNCHANGED <<queueVars, exit, stopping, pendingClaim, pendingFailure, job,
                 future, disk, history>>

\* Credentials cannot be retrieved or are invalid: the job will be failed.
CredentialsInvalid ==
  /\ pc = "secret"
  /\ pendingFailure' = pendingClaim
  /\ pendingClaim' = None
  /\ Goto("report")
  /\ UNCHANGED <<queueVars, exit, stopping, pendingStart, job, future, disk,
                 history>>

---------------------------------------------------------------------------
(* end_managed_job, used by three callers. *)

Sent(j, o) == sent' = [sent EXCEPT ![j] = @ \cup {o}]

\* Mutant: 404 is an error like any other.
EndAnsweredOnly200(j, o) == AcceptEnd(j, o) /\ Sent(j, o)

\* The queue answers: 200, or 404 which is taken for "no longer actionable".
EndAnswered(j, o) ==
  /\ AcceptEnd(j, o) \/ (~Actionable(j) /\ UNCHANGED queueVars)
  /\ Sent(j, o)

\* Any other failure: whether the queue ended the job is not known.  The call
\* raises when the failure is not one it retries, or its attempts are used up.
EndUnanswered(j, o) ==
  /\ AcceptEnd(j, o) \/ UNCHANGED queueVars
  /\ Sent(j, o)

\* A transient failure before the last attempt.
EndRetried(j, o) ==
  /\ MayRetry
  /\ attempt' = attempt + 1
  /\ EndUnanswered(j, o)
  /\ UNCHANGED <<pc, exit, stopping, pending, job, future, disk, produced,
                 accepted, submits, told, orphans>>

---------------------------------------------------------------------------
(* Reporting a credential failure. *)

ReportRetried == pc = "report" /\ EndRetried(pendingFailure, "failed")

ReportAnswered ==
  /\ pc = "report"
  /\ EndAnswered(pendingFailure, "failed")
  /\ pendingFailure' = None
  /\ Goto("loop")
  /\ UNCHANGED <<exit, stopping, pendingClaim, pendingStart, job, future, disk,
                 produced, accepted, submits, told, orphans>>

\* The id is retained for the next poll.
ReportRaised ==
  /\ pc = "report"
  /\ EndUnanswered(pendingFailure, "failed")
  /\ Goto("loop")
  /\ UNCHANGED <<exit, stopping, pending, job, future, disk, produced, accepted,
                 submits, told, orphans>>

---------------------------------------------------------------------------
(* Starting a prepared job. *)

\* Mutant: the prepared inputs outlive the start.
StartAcceptedKeepingInputs ==
  /\ pc = "start"
  /\ AcceptStart(pendingStart)
  /\ jobRunning' = pendingStart
  /\ Goto("submit")
  /\ UNCHANGED <<exit, stopping, pending, workspace, future, disk, history>>

\* 200: the preparation is dropped and the job becomes the running one.
StartAccepted ==
  /\ pc = "start"
  /\ AcceptStart(pendingStart)
  /\ jobRunning' = pendingStart
  /\ pendingClaim' = None
  /\ pendingStart' = None
  /\ Goto("submit")
  /\ UNCHANGED <<exit, stopping, pendingFailure, workspace, future, disk, history>>

\* Mutant: a refused start is retried like an unanswered one.
StartRefusedKeepingInputs ==
  /\ pc = "start"
  /\ ~Actionable(pendingStart)
  /\ Goto("loop")
  /\ UNCHANGED <<queueVars, exit, stopping, pending, job, future, disk, history>>

\* 404, 409: the preparation is dropped.
StartRefused ==
  /\ pc = "start"
  /\ ~Actionable(pendingStart)
  /\ pendingClaim' = None
  /\ pendingStart' = None
  /\ Goto("loop")
  /\ UNCHANGED <<queueVars, exit, stopping, pendingFailure, job, future, disk,
                 history>>

\* Anything else raises with the preparation retained; the queue may have
\* started the job.
StartRaised ==
  /\ pc = "start"
  /\ AcceptStart(pendingStart) \/ UNCHANGED queueVars
  /\ Goto("loop")
  /\ UNCHANGED <<exit, stopping, pending, job, future, disk, history>>

CountSubmit ==
  submits' = [submits EXCEPT ![jobRunning] = IF @ < 2 THEN @ + 1 ELSE @]

\* A job with an access key has a workspace, made before the worker is submitted.
Submitted ==
  /\ pc = "submit"
  /\ workspace' \in BOOLEAN
  /\ future' = [NoFuture EXCEPT !.st = "running"]
  /\ CountSubmit
  /\ Goto("loop")
  /\ UNCHANGED <<queueVars, exit, stopping, pending, jobRunning, disk, produced,
                 accepted, sent, told, orphans>>

\* submit raises, or the workspace cannot be made.
SubmitFailed ==
  /\ pc = "submit"
  /\ workspace' \in BOOLEAN
  /\ CountSubmit
  /\ Goto("undo")
  /\ UNCHANGED <<queueVars, exit, stopping, pending, jobRunning, future, disk,
                 produced, accepted, sent, told, orphans>>

UndoRetried == pc = "undo" /\ EndRetried(jobRunning, "failed")

\* _clear_running_job removes the workspace first.
ClearRunningJob == jobRunning' = None /\ workspace' = FALSE /\ future' = NoFuture

\* When the workspace cannot be removed it raises and resets nothing.
ClearRaises == workspace /\ UNCHANGED <<job, future>>

UndoAnswered ==
  /\ pc = "undo"
  /\ EndAnswered(jobRunning, "failed")
  /\ ClearRunningJob \/ ClearRaises
  /\ Goto("loop")
  /\ UNCHANGED <<exit, stopping, pending, disk, produced, accepted, submits, told,
                 orphans>>

\* The finally clause drops the job though its end may not have arrived.
UndoRaised ==
  /\ pc = "undo"
  /\ EndUnanswered(jobRunning, "failed")
  /\ \/ ClearRunningJob /\ orphans' = orphans \cup {jobRunning}
     \/ ClearRaises /\ UNCHANGED orphans
  /\ Goto("loop")
  /\ UNCHANGED <<exit, stopping, pending, disk, produced, accepted, submits, told>>

---------------------------------------------------------------------------
(* The worker process. *)

\* The directory of jobs js is left to nobody.
LeaveDirectory(js) ==
  \/ outputs' = outputs \cup js /\ abandoned' = abandoned \cup js
  \/ UNCHANGED disk

\* The pipeline returns; its files are listed in the Result.
WorkerSucceeds ==
  /\ future.st = "running"
  /\ \E n \in 0..MaxFiles :
       /\ future' = [future EXCEPT !.st = "ok", !.files = n]
       /\ produced' = [produced EXCEPT ![jobRunning] = n]
  /\ outputs' = outputs \cup {jobRunning}
  /\ UNCHANGED <<queueVars, pc, exit, stopping, attempt, pending, job, abandoned,
                 accepted, sent, submits, told, orphans>>

\* The pipeline raises; the worker removes its directory, which may raise too.
WorkerFails ==
  /\ future.st = "running"
  /\ future' = [future EXCEPT !.st = "failed"]
  /\ LeaveDirectory({jobRunning})
  /\ UNCHANGED <<queueVars, pc, exit, stopping, attempt, pending, job, history>>

\* The worker is terminated abruptly: BrokenProcessPool.
WorkerDies ==
  /\ future.st = "running"
  /\ future' = [future EXCEPT !.st = "broken"]
  /\ LeaveDirectory({jobRunning})
  /\ UNCHANGED <<queueVars, pc, exit, stopping, attempt, pending, job, history>>

\* _remove_job_output: rmtree of the current directory, whose OSError is only
\* logged.  One left by an earlier worker of the job stays.
RemoveOutput(j) ==
  \/ /\ outputs' = IF j \in abandoned THEN outputs ELSE outputs \ {j}
     /\ UNCHANGED abandoned
  \/ j \in outputs /\ abandoned' = abandoned \cup {j} /\ UNCHANGED outputs

---------------------------------------------------------------------------
(* Handling a completed job. *)

Uploading == /\ future.st = "ok"
             /\ ~future.failure
             /\ future.uploaded < future.files

NextFile == future.uploaded + 1

UploadAccepted ==
  /\ pc = "complete"
  /\ Uploading
  /\ bhe[jobRunning] = "running"
  /\ accepted' = [accepted EXCEPT ![jobRunning] = @ \cup {NextFile}]
  /\ future' = [future EXCEPT !.uploaded = @ + 1]
  /\ UNCHANGED <<queueVars, pc, exit, stopping, attempt, pending, job, disk,
                 produced, sent, submits, told, orphans>>

\* Mutant: the file is counted before its upload is known to have arrived.
UploadRaisedCounted ==
  /\ pc = "complete"
  /\ Uploading
  /\ \/ UNCHANGED accepted
     \/ /\ bhe[jobRunning] = "running"
        /\ accepted' = [accepted EXCEPT ![jobRunning] = @ \cup {NextFile}]
  /\ future' = [future EXCEPT !.uploaded = @ + 1]
  /\ AfterCompletion
  /\ UNCHANGED <<queueVars, exit, stopping, pending, job, disk,
                 produced, sent, submits, told, orphans>>

\* A transient failure or a lost answer raises: the Result keeps the count.
UploadRaised ==
  /\ pc = "complete"
  /\ Uploading
  /\ \/ UNCHANGED accepted
     \/ /\ bhe[jobRunning] = "running"
        /\ accepted' = [accepted EXCEPT ![jobRunning] = @ \cup {NextFile}]
  /\ AfterCompletion
  /\ UNCHANGED <<queueVars, exit, stopping, pending, job, future, disk,
                 produced, sent, submits, told, orphans>>

\* 400, 401, 403, 415, or a staged file that is missing: the Result keeps the
\* failure.
UploadRejected ==
  /\ pc = "complete"
  /\ Uploading
  /\ future' = [future EXCEPT !.failure = TRUE]
  /\ UNCHANGED <<queueVars, pc, exit, stopping, attempt, pending, job, disk,
                 history>>

\* Mutant: the staged output of a completed worker is left behind.
AbortKeepingOutput ==
  /\ told' = told \cup {jobRunning}
  /\ IF future.st = "running" THEN LeaveDirectory({jobRunning}) ELSE UNCHANGED disk
  /\ ClearRunningJob

\* Kill the worker, or drop the staged output of a completed one.
DropWork == CASE future.st = "ok" -> RemoveOutput(jobRunning)
              [] future.st = "running" -> LeaveDirectory({jobRunning})
              [] OTHER -> UNCHANGED disk

\* _abort_managed_job: the job is cleared with no outcome reported.
Abort == told' = told \cup {jobRunning} /\ DropWork /\ ClearRunningJob

\* Mutant: 404 and 409 are rejections of the data.
UploadRefusedAsRejected ==
  /\ pc = "complete"
  /\ Uploading
  /\ bhe[jobRunning] # "running"
  /\ told' = told \cup {jobRunning}
  /\ future' = [future EXCEPT !.failure = TRUE]
  /\ UNCHANGED <<queueVars, pc, exit, stopping, attempt, pending, job, disk,
                 produced, accepted, sent, submits, orphans>>

\* 404, 409: the claim is lost.
UploadRefused ==
  /\ pc = "complete"
  /\ Uploading
  /\ bhe[jobRunning] # "running"
  /\ Abort
  /\ AfterCompletion
  /\ UNCHANGED <<queueVars, exit, stopping, pending, produced, accepted, sent,
                 submits, orphans>>

Verdict == IF future.st = "ok" /\ ~future.failure THEN "succeeded" ELSE "failed"

CompleteRetried ==
  pc = "complete" /\ ~Uploading /\ EndRetried(jobRunning, Verdict)

CompleteAnswered ==
  /\ pc = "complete"
  /\ ~Uploading
  /\ EndAnswered(jobRunning, Verdict)
  /\ IF future.st = "ok" THEN RemoveOutput(jobRunning) ELSE UNCHANGED disk
  /\ ClearRunningJob
  /\ AfterCompletion
  /\ UNCHANGED <<exit, stopping, pending, produced, accepted, submits, told, orphans>>

\* Mutant: an upload failure is remembered only for the poll that met it.
CompleteRaisedForgettingFailure ==
  /\ pc = "complete"
  /\ ~Uploading
  /\ EndUnanswered(jobRunning, Verdict)
  /\ future' = [future EXCEPT !.failure = FALSE]
  /\ AfterCompletion
  /\ UNCHANGED <<exit, stopping, pending, job, disk, produced,
                 accepted, submits, told, orphans>>

\* The future and its Result are retained for the next poll.
CompleteRaised ==
  /\ pc = "complete"
  /\ ~Uploading
  /\ EndUnanswered(jobRunning, Verdict)
  /\ AfterCompletion
  /\ UNCHANGED <<exit, stopping, pending, job, future, disk, produced,
                 accepted, submits, told, orphans>>

---------------------------------------------------------------------------
(* Watching a running job: _poll_running_job, from _poll and _shutdown. *)

Watching == \/ pc = "schedule" /\ jobRunning # None
            \/ pc = "drain" /\ future.st # "none"

\* Mutant: _shutdown waits for the worker but never handles its result.
AfterWatchOnlyWaiting ==
  Goto(IF pc = "schedule" THEN "loop" ELSE "drain") /\ UNCHANGED workspace

\* _poll sleeps; _shutdown handles the job once the worker is done.
AfterWatch ==
  IF pc = "drain" /\ future.st \in Done THEN BeginCompletion
  ELSE Goto(IF pc = "schedule" THEN "loop" ELSE "drain") /\ UNCHANGED workspace

\* No heartbeat is sent: none is due, or they are disabled.
WatchJob ==
  /\ Watching
  /\ AfterWatch
  /\ UNCHANGED <<queueVars, exit, stopping, pending, jobRunning, future, disk, history>>

\* A heartbeat renews the lease, or fails in a way that is only logged.
Heartbeat ==
  /\ ~HeartbeatsDisabled
  /\ Watching
  /\ RenewLease(jobRunning) \/ UNCHANGED queueVars
  /\ AfterWatch
  /\ UNCHANGED <<exit, stopping, pending, jobRunning, future, disk, history>>

\* 404: the claim is lost.
HeartbeatRefused ==
  /\ ~HeartbeatsDisabled
  /\ Watching
  /\ bhe[jobRunning] # "running"
  /\ Abort
  /\ Goto(IF stopping THEN "drain" ELSE "loop")
  /\ UNCHANGED <<queueVars, exit, stopping, pending, produced, accepted, sent,
                 submits, orphans>>

---------------------------------------------------------------------------
(* Signals, the end of the process, and its next incarnation. *)

\* _exit_handler
Signal ==
  /\ pc # "stopped"
  /\ ~exit
  /\ exit' = TRUE
  /\ UNCHANGED <<queueVars, pc, stopping, attempt, pending, job, future, disk,
                 history>>

\* What the process knows is gone: memory is its only store.
Forget ==
  /\ pc' = "stopped"
  /\ exit' = FALSE
  /\ stopping' = FALSE
  /\ attempt' = 1
  /\ pendingClaim' = None
  /\ pendingStart' = None
  /\ pendingFailure' = None
  /\ ClearRunningJob
  /\ orphans' = orphans \cup {j \in Jobs : Held(j)}
  /\ UNCHANGED <<queueVars, produced, accepted, sent, submits, told>>

\* _shutdown returns.  Pending claims, starts and failures are not looked at.
Stop ==
  /\ pc = "drain"
  /\ future.st = "none"
  /\ Forget
  /\ UNCHANGED disk

\* As HeartbeatRefused, but the workspace cannot be removed.  Nothing catches the
\* exception: it ends start, whose finally clause enters _shutdown with the job
\* still in hand, and there it ends the process.
HeartbeatRefusedRaising ==
  /\ ~HeartbeatsDisabled
  /\ Watching
  /\ bhe[jobRunning] # "running"
  /\ workspace
  /\ DropWork
  /\ IF stopping THEN Forget
     ELSE /\ Goto("drain")
          /\ stopping' = TRUE
          /\ future' = [future EXCEPT !.st = IF @ = "running" THEN "broken" ELSE @]
          /\ UNCHANGED <<queueVars, exit, pending, job, history>>

\* The scheduler and its worker die.
Crash ==
  /\ pc # "stopped"
  /\ Forget
  /\ CASE future.st = "ok" -> /\ abandoned' = abandoned \cup (outputs \cap {jobRunning})
                              /\ UNCHANGED outputs
       [] future.st = "running" -> LeaveDirectory({jobRunning})
       [] OTHER -> UNCHANGED disk

Restart ==
  /\ pc = "stopped"
  /\ Goto("loop")
  /\ UNCHANGED <<queueVars, exit, stopping, pending, job, future, disk, history>>

---------------------------------------------------------------------------

Poll == \/ StartPoll \/ StartShutdown \/ ResumePending \/ DiscoverNothing
        \/ \E j \in Jobs : Discover(j)
Claim == ClaimConfirmed \/ ClaimRefused \/ ClaimUnanswered \/ ClaimFailed
Prepare == CredentialsLoaded \/ CredentialsInvalid
Report == ReportRetried \/ ReportAnswered \/ ReportRaised
Launch == StartAccepted \/ StartRefused \/ StartRaised \/ Submitted \/ SubmitFailed
Undo == UndoRetried \/ UndoAnswered \/ UndoRaised
Upload == UploadAccepted \/ UploadRaised \/ UploadRejected \/ UploadRefused
Complete == CompleteRetried \/ CompleteAnswered \/ CompleteRaised
Watch == WatchJob \/ Heartbeat \/ HeartbeatRefused \/ HeartbeatRefusedRaising
Worker == WorkerSucceeds \/ WorkerFails \/ WorkerDies

\* Every step the scheduler process takes by itself.
Scheduler == \/ Poll \/ Claim \/ Prepare \/ Report \/ Launch \/ Undo \/ Upload
             \/ Complete \/ Watch \/ Stop

Environment == QueueNext /\ UNCHANGED <<local, disk, history>>

Next == Scheduler \/ Worker \/ Signal \/ Crash \/ Restart \/ Environment

Spec == Init /\ [][Next]_vars

---------------------------------------------------------------------------
(* Safety. *)

\* No claim is lost sight of: a job that BHE counts as this collector's, and
\* will wait for, is in one of the fields the scheduler resumes from.  Only a
\* stop, a crash, or a failed end after a failed submission (_launch_job's
\* finally clauses) leaves one behind.  Lost answers to claim, start and end,
\* expired leases and bad credentials do not.
HeldJobsAreTracked ==
  \A j \in Jobs : Actionable(j) /\ j \notin orphans =>
                    j \in {pendingClaim, pendingFailure, jobRunning}

\* The scheduler never has two jobs in hand ("MVP runs one job at a time"),
\* whichever of its recovery fields they sit in.
OneJobInHand ==
  \A j, k \in {pendingClaim, pendingStart, pendingFailure, jobRunning} \ {None} : j = k

\* Within one claim a job is ended with one outcome, however often the end is
\* retried, across attempts and across polls.
OutcomeIsStable == \A j \in Jobs : \A o, p \in sent[j] : o = p

\* A job ended as succeeded has had every file its worker staged taken by BHE.
SuccessMeansDelivered ==
  \A j \in Jobs : bhe[j] = "succeeded" => accepted[j] = 1..produced[j]

\* A claim leads to at most one worker, though its start may be sent again.
OneWorkerPerClaim == \A j \in Jobs : submits[j] <= 1

\* A staged output directory belongs to the running job, unless the process that
\* had to remove it was killed, or its rmtree raised: then the job is cleared all
\* the same and nobody knows of the directory any more.
OutputsAreOwned == outputs \subseteq abandoned \cup {jobRunning}

\* Once an end has been sent for a claim, nothing more is collected or uploaded
\* for it: the end may have arrived though its answer was lost.
NoWorkAfterOutcome ==
  [][\A j \in Jobs : sent[j] # {} /\ sent'[j] # {} =>
                       accepted'[j] = accepted[j] /\ submits'[j] = submits[j]]_vars

\* No outcome is reported for a claim that _abort_managed_job has let go of,
\* until the job is claimed anew.  An abort that raises has not let go of it.
LostClaimIsSilent ==
  [][\A j \in Jobs : j \in told /\ j \in told' => sent'[j] = sent[j]]_vars

\* Seen from the queue, the scheduler keeps its contract about every claim.
Contract == INSTANCE JobContract
              WITH submitted <- submits, delivered <- accepted,
                   reported <- sent, lost <- told

\* Every step of the scheduler, its worker and the queue is, in what it submits,
\* uploads and ends, one step of the contract: no second worker, no gap in the
\* files, no outcome that differs from the first, nothing after a refusal.
KeepsContract == Contract!Spec

---------------------------------------------------------------------------
(* The inductive invariant. *)

\* The job is in hand, but its worker was never submitted and its workspace could
\* not be removed: _poll watches it, and handles it no more.
Stuck == jobRunning # None /\ future.st = "none" /\ pc \notin {"submit", "undo"}

\* What each control point says of the fields of the process.
ControlInv ==
  /\ pc \in {"claim", "secret"} => pendingClaim # None /\ pendingStart = None
  /\ pc = "start" => pendingStart # None
  /\ pc = "report" => pendingFailure # None
  /\ pc \in {"submit", "undo"} => jobRunning # None /\ future.st = "none"
  /\ future.st # "none" => jobRunning # None
  /\ workspace => jobRunning # None /\ pc \notin {"submit", "complete"}
  /\ Stuck => workspace
  /\ pc = "complete" => future.st \in Done
  /\ pc = "stopped" => Unoccupied
  /\ pc \notin {"complete", "drain"} => ~stopping

\* The recovery fields exclude each other.
HandInv ==
  /\ jobRunning # None => pending = <<None, None, None>>
  /\ pendingFailure # None => pendingClaim = None /\ pendingStart = None
  /\ pendingStart # None => pendingClaim = pendingStart

\* Where the queue can have the job in hand.
QueueInv ==
  /\ pendingClaim # None /\ pendingStart = None => bhe[pendingClaim] # "running"
  /\ jobRunning # None => bhe[jobRunning] # "claimed"
  /\ \A j \in Jobs : bhe[j] \in Outcomes => bhe[j] \in sent[j]

\* Nothing has been done under the current claim of j.
Fresh(j) == sent[j] = {} /\ submits[j] = 0 /\ accepted[j] = {} /\ j \notin told

ClaimInv ==
  pendingClaim # None /\ (Held(pendingClaim) \/ pc = "secret" \/ pendingStart # None)
    => Fresh(pendingClaim)

FailureInv ==
  pendingFailure # None =>
    sent[pendingFailure] \subseteq {"failed"} /\ pendingFailure \notin told

RunningInv ==
  jobRunning # None =>
    /\ jobRunning \notin told
    /\ pc = "submit" => Fresh(jobRunning)
    /\ pc = "undo" => sent[jobRunning] \subseteq {"failed"}
    /\ future.st # "none" => submits[jobRunning] = 1
    /\ future.st = "running" => sent[jobRunning] = {} /\ accepted[jobRunning] = {}
    /\ future.st \in Done => sent[jobRunning] \subseteq (IF Uploading THEN {} ELSE {Verdict})

\* The Result agrees with what BHE has taken.
ResultInv ==
  IF future.st = "ok"
    THEN /\ future.uploaded <= future.files
         /\ produced[jobRunning] = future.files
         /\ 1..future.uploaded \subseteq accepted[jobRunning]
         /\ accepted[jobRunning] \subseteq 1..future.files
    ELSE future.uploaded = 0 /\ future.files = 0 /\ ~future.failure

OutputInv == outputs \subseteq abandoned \cup (IF future.st = "ok" THEN {jobRunning} ELSE {})

IInv ==
  /\ TypeOK
  /\ ControlInv
  /\ HandInv
  /\ QueueInv
  /\ ClaimInv
  /\ FailureInv
  /\ RunningInv
  /\ ResultInv
  /\ OutputInv
  /\ HeldJobsAreTracked
  /\ OutcomeIsStable
  /\ SuccessMeansDelivered
  /\ OneWorkerPerClaim

---------------------------------------------------------------------------
(* Liveness. *)

\* The poll loop keeps running and the worker ends.  BHE is not unreachable
\* for ever: a request that is repeated for ever is answered in the end.  It
\* takes back a lapsed claim, and not every lease expires before the answer to
\* the claim arrives or while the secret is being retrieved.  Removing the workspace
\* of a finished job, which every poll tries anew, succeeds in the end; that of a
\* job whose submission failed is tried once, and nothing is assumed of it.
Fairness ==
  /\ WF_vars(Scheduler)
  /\ WF_vars(Worker)
  /\ SF_vars((ClaimConfirmed /\ pc' = "secret") \/ ClaimRefused)
  /\ SF_vars(CredentialsLoaded /\ pc' = "start")
  /\ SF_vars(StartAccepted \/ StartRefused)
  /\ SF_vars(ReportAnswered)
  /\ SF_vars(UploadAccepted \/ UploadRefused)
  /\ SF_vars(CompleteAnswered)
  /\ SF_vars((StartPoll \/ WatchJob \/ Heartbeat) /\ pc' = "complete")
  /\ \A j \in Jobs : WF_vars(LapsedTakeBack(j) /\ UNCHANGED <<local, disk, history>>)

FairSpec == Spec /\ Fairness

\* A claim, a prepared start, a failure report and a job that was started are
\* resolved in the end, each by itself, so that the next job can be claimed.  The
\* exception is a job that is stuck, which can stay for ever.
JobInHandIsResolved ==
  \A j \in Jobs : /\ jobRunning = j ~> jobRunning # j \/ Stuck
                  /\ j \in {pendingClaim, pendingFailure}
                       ~> j \notin {pendingClaim, pendingFailure}

\* A signal, or an exception out of start, stops the process, whatever it is doing.
ShutdownEnds == exit \/ stopping ~> pc = "stopped"
=============================================================================
