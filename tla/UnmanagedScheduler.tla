------------------------- MODULE UnmanagedScheduler -------------------------
(***************************************************************************)
(* The scheduler service of an unmanaged collector (scheduler/service.py): *)
(* it finds jobs with /api/v2/jobs/available, starts one, submits a worker *)
(* that delivers its own results, ends the job, and between jobs handles   *)
(* support bundles.  Nothing but the running job is remembered.            *)
(*                                                                         *)
(* pc is where the process is:                                             *)
(*   "loop"      before a poll                                             *)
(*   "end"       in _handle_completed_job, called by _poll                 *)
(*   "last"      in _handle_completed_job, called by _shutdown             *)
(*   "manage"    looking for management operations                         *)
(*   "bundle"    in _send_support_bundle                                   *)
(*   "jobs"      looking for jobs, starting one                            *)
(*   "submit", "undo"   submitting the worker, ending a job without one    *)
(*   "shutdown", "stopped"                                                 *)
(* jst[j] is the status of job j at BHE and current the job BHE takes this *)
(* client to be running: /api/v2/jobs/end names no job and ends that one.  *)
(***************************************************************************)
EXTENDS SupportBundle

CONSTANTS Jobs, NoJob,
          MaxCrashes   \* bound: deaths of the process

ASSUME NoJobAssumption == NoJob \notin Jobs
ASSUME CrashAssumption == MaxCrashes \in Nat

VARIABLES
  jst, current,
  pc, exit,
  jobRunning,
  future,      \* "none", "running", "ok", "failed"
  result,      \* history: how the last worker of each job ended
  submits,     \* history: workers submitted for each job
  lost,        \* history: jobs that may run at BHE without this process knowing
  crashes

bhe == <<jst, current>>
local == <<pc, exit, jobRunning, future>>
history == <<result, submits, lost, crashes>>
vars == <<bundleVars, bhe, local, history>>

PCs == {"loop", "end", "last", "manage", "bundle", "jobs", "submit", "undo", "shutdown",
        "stopped"}

TypeOK ==
  /\ BundleTypeOK
  /\ jst \in [Jobs -> {"available", "running", "complete", "failed"}]
  /\ current \in Jobs \cup {NoJob}
  /\ pc \in PCs /\ exit \in BOOLEAN
  /\ jobRunning \in Jobs \cup {NoJob}
  /\ future \in {"none", "running", "ok", "failed"}
  /\ result \in [Jobs -> {"none", "ok", "failed"}]
  /\ submits \in [Jobs -> 0..2]
  /\ lost \in SUBSET Jobs
  /\ crashes \in 0..MaxCrashes

Init == /\ BundleInit
        /\ jst = [j \in Jobs |-> "available"]
        /\ current = NoJob
        /\ pc = "loop" /\ exit = FALSE
        /\ jobRunning = NoJob /\ future = "none"
        /\ result = [j \in Jobs |-> "none"]
        /\ submits = [j \in Jobs |-> 0]
        /\ lost = {}
        /\ crashes = 0

---------------------------------------------------------------------------
(* What BHE does with start and end. *)

AcceptStart(j) == /\ jst[j] = "available"
                  /\ jst' = [jst EXCEPT ![j] = "running"]
                  /\ current' = j

AcceptEnd(status) == /\ jst' = IF current = NoJob THEN jst ELSE [jst EXCEPT ![current] = status]
                     /\ current' = NoJob

---------------------------------------------------------------------------
(* A poll. *)

Goto(l) == pc' = l

ClearRunningJob == future' = "none" /\ jobRunning' = NoJob

\* Mutant: the signal is not looked at between polls.
StartPollIgnoringSignal ==
  /\ pc = "loop"
  /\ Goto(IF future \in {"ok", "failed"} THEN "end" ELSE "manage")
  /\ UNCHANGED <<bundleVars, bhe, exit, jobRunning, future, history>>

StartPoll ==
  /\ pc = "loop" /\ ~exit
  /\ Goto(IF future \in {"ok", "failed"} THEN "end" ELSE "manage")
  /\ UNCHANGED <<bundleVars, bhe, exit, jobRunning, future, history>>

\* Mutant: every worker that has returned counts as a success.
VerdictBlind == "complete"

\* What is reported of a worker that is done.
Verdict == IF future = "ok" THEN "complete" ELSE "failed"

AfterEnd == IF pc = "last" THEN "shutdown" ELSE "manage"

\* Mutant: job_running is not reset.
EndAnsweredKeepingJob ==
  /\ pc \in {"end", "last"}
  /\ AcceptEnd(Verdict)
  /\ future' = "none"
  /\ Goto(AfterEnd)
  /\ UNCHANGED <<bundleVars, exit, jobRunning, history>>

EndAnswered ==
  /\ pc \in {"end", "last"}
  /\ AcceptEnd(Verdict)
  /\ ClearRunningJob
  /\ Goto(AfterEnd)
  /\ UNCHANGED <<bundleVars, exit, history>>

\* Mutant: the job is dropped when the report raises.
EndRaisedDropping ==
  /\ pc \in {"end", "last"}
  /\ AcceptEnd(Verdict) \/ UNCHANGED bhe
  /\ ClearRunningJob
  /\ Goto(AfterEnd)
  /\ UNCHANGED <<bundleVars, exit, history>>

\* The result is kept for the next poll.  _shutdown tries once and gives up.
EndRaised ==
  /\ pc \in {"end", "last"}
  /\ AcceptEnd(Verdict) \/ UNCHANGED bhe
  /\ IF pc = "last"
       THEN ClearRunningJob /\ lost' = lost \cup {jobRunning}
       ELSE UNCHANGED <<jobRunning, future, lost>>
  /\ Goto(AfterEnd)
  /\ UNCHANGED <<bundleVars, exit, result, submits, crashes>>

FindOperation ==
  /\ pc = "manage"
  /\ jobRunning = NoJob
  /\ \E o \in Ops : TakeOperation(o)
  /\ Goto("bundle")
  /\ UNCHANGED <<bhe, exit, jobRunning, future, history>>

\* Nothing is queued, or the request raised.
FindNoOperation ==
  /\ pc = "manage"
  /\ jobRunning = NoJob
  /\ Goto("jobs")
  /\ UNCHANGED <<bundleVars, bhe, exit, jobRunning, future, history>>

HandleOperation ==
  /\ pc = "bundle"
  /\ BundleStep
  /\ Goto(IF step' = "none" THEN "loop" ELSE "bundle")
  /\ UNCHANGED <<bhe, exit, jobRunning, future, history>>

\* The check-in of a running job has no effect here.
CheckIn ==
  /\ pc = "manage"
  /\ jobRunning # NoJob
  /\ Goto("loop")
  /\ UNCHANGED <<bundleVars, bhe, exit, jobRunning, future, history>>

\* Mutant: a job that runs at BHE is resumed (the code commented out in
\* check_jobs).
StartAnsweredResuming(j) ==
  /\ pc = "jobs"
  /\ AcceptStart(j) \/ (current = j /\ UNCHANGED bhe)
  /\ jobRunning' = j
  /\ Goto("submit")
  /\ UNCHANGED <<bundleVars, exit, future, history>>

StartAnswered(j) ==
  /\ pc = "jobs"
  /\ AcceptStart(j)
  /\ jobRunning' = j
  /\ Goto("submit")
  /\ UNCHANGED <<bundleVars, exit, future, history>>

\* Discovery or start raised, or there is no job.  A start that was carried out
\* leaves a job that nobody runs.
NotStarted ==
  /\ pc = "jobs"
  /\ \/ UNCHANGED <<bhe, lost>>
     \/ \E j \in Jobs : AcceptStart(j) /\ lost' = lost \cup {j}
  /\ Goto("loop")
  /\ UNCHANGED <<bundleVars, exit, jobRunning, future, result, submits, crashes>>

Submitted ==
  /\ pc = "submit"
  /\ future' = "running"
  /\ submits' = [submits EXCEPT ![jobRunning] = @ + 1]
  /\ Goto("loop")
  /\ UNCHANGED <<bundleVars, bhe, exit, jobRunning, result, lost, crashes>>

SubmitFailed ==
  /\ pc = "submit"
  /\ Goto("undo")
  /\ UNCHANGED <<bundleVars, bhe, exit, jobRunning, future, history>>

UndoAnswered ==
  /\ pc = "undo"
  /\ AcceptEnd("failed")
  /\ ClearRunningJob
  /\ Goto("loop")
  /\ UNCHANGED <<bundleVars, exit, history>>

UndoRaised ==
  /\ pc = "undo"
  /\ AcceptEnd("failed") \/ UNCHANGED bhe
  /\ lost' = lost \cup {jobRunning}
  /\ ClearRunningJob
  /\ Goto("loop")
  /\ UNCHANGED <<bundleVars, exit, result, submits, crashes>>

---------------------------------------------------------------------------
(* The worker, signals, deaths. *)

WorkerEnds ==
  /\ future = "running"
  /\ future' \in {"ok", "failed"}
  /\ result' = [result EXCEPT ![jobRunning] = future']
  /\ UNCHANGED <<bundleVars, bhe, pc, exit, jobRunning, submits, lost, crashes>>

Signal ==
  /\ pc # "stopped" /\ ~exit
  /\ exit' = TRUE
  /\ UNCHANGED <<bundleVars, bhe, pc, jobRunning, future, history>>

StartShutdown ==
  /\ pc = "loop" /\ exit
  /\ Goto("shutdown")
  /\ UNCHANGED <<bundleVars, bhe, exit, jobRunning, future, history>>

Shutdown ==
  /\ pc = "shutdown"
  /\ future # "running"
  /\ Goto(IF future = "none" THEN "stopped" ELSE "last")
  /\ UNCHANGED <<bundleVars, bhe, exit, jobRunning, future, history>>

Die ==
  /\ pc # "stopped"
  /\ crashes < MaxCrashes
  /\ crashes' = crashes + 1
  /\ DropOperation
  /\ lost' = IF jobRunning = NoJob THEN lost ELSE lost \cup {jobRunning}
  /\ Goto("loop") /\ exit' = FALSE
  /\ ClearRunningJob
  /\ UNCHANGED <<bhe, result, submits>>

Poll == StartPoll \/ EndAnswered \/ EndRaised \/ FindOperation \/ FindNoOperation
        \/ HandleOperation \/ CheckIn \/ (\E j \in Jobs : StartAnswered(j)) \/ NotStarted
        \/ Submitted \/ SubmitFailed \/ UndoAnswered \/ UndoRaised

Stopped == pc = "stopped" /\ UNCHANGED vars

Next == Poll \/ WorkerEnds \/ Signal \/ StartShutdown \/ Shutdown \/ Die \/ Stopped

Spec == Init /\ [][Next]_vars

\* The loop goes on, collectors return, and of reports made again and again one
\* is answered.
Fairness == /\ WF_vars(Poll \/ StartShutdown \/ Shutdown)
            /\ WF_vars(WorkerEnds)
            /\ SF_vars(EndAnswered)

FairSpec == Spec /\ Fairness

---------------------------------------------------------------------------
(* Properties. *)

\* The status BHE has of a job is how its worker ended, although end names no
\* job and is repeated when its answer is lost; a job without a worker fails.
HonestStatus ==
  \A j \in Jobs : /\ jst[j] = "complete" => result[j] = "ok"
                  /\ jst[j] = "failed" => result[j] # "ok"

\* A job runs at BHE only while this process has it, or after one of four events
\* that leave it to an operator: a start that was not answered, a failed undo, a
\* failed report at shutdown, a death.
RunningIsKnown == \A j \in Jobs : jst[j] = "running" => j = jobRunning \/ j \in lost

\* No job is collected twice, whatever was lost and whoever died.
CollectedOnce == \A j \in Jobs : submits[j] <= 1

\* The docstring of check_jobs: jobs that are started and not finished are found
\* too.  Only a new job is.
StartedJobIsFound == pc = "jobs" /\ current # NoJob => ENABLED StartAnswered(current)

\* Every job in hand is reported, unless its process dies first.
JobIsReported == jobRunning # NoJob ~> jobRunning = NoJob

\* A signal ends the process, with one report and no waiting for its answer.
SignalEnds == exit ~> pc = "stopped" \/ ~exit

---------------------------------------------------------------------------
(* The inductive invariant of the safety properties. *)

\* Where the process is says what it has in hand.
PlaceInv ==
  /\ pc = "bundle" <=> step # "none"
  /\ jobRunning = NoJob => future = "none"
  /\ jobRunning # NoJob => (future = "none" <=> pc \in {"submit", "undo"})
  /\ pc \in {"submit", "undo"} => jobRunning # NoJob
  /\ pc \in {"end", "last"} => future \in {"ok", "failed"}
  /\ pc \in {"bundle", "jobs"} => jobRunning = NoJob

\* BHE's current job is the one in hand, and runs until it is reported.
CurrentInv ==
  /\ current # NoJob => jst[current] = "running"
  /\ jobRunning # NoJob => current = IF jst[jobRunning] = "running" THEN jobRunning ELSE NoJob
  /\ jobRunning # NoJob /\ future \in {"none", "running"} => jst[jobRunning] = "running"

\* What has been done for each job.
WorkInv ==
  /\ \A j \in Jobs : jst[j] = "available" => submits[j] = 0 /\ result[j] = "none"
  /\ jobRunning # NoJob /\ future = "none" => submits[jobRunning] = 0
                                             /\ result[jobRunning] = "none"
  /\ future \in {"ok", "failed"} => result[jobRunning] = future

IInv == /\ TypeOK /\ BundleInv /\ SucceededIsWhole /\ StartedIsEnded
        /\ PlaceInv /\ CurrentInv /\ WorkInv
        /\ HonestStatus /\ RunningIsKnown /\ CollectedOnce
=============================================================================
