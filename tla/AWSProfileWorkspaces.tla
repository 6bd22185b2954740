------------------------ MODULE AWSProfileWorkspaces ------------------------
(***************************************************************************)
(* The private directories that carry AWS credentials from a scheduler to  *)
(* its worker (scheduler/aws_profile.py), and the three file locks that    *)
(* decide who may remove one: the registry lock of the root, and in each   *)
(* directory the lock of its scheduler and the lock of its worker.         *)
(*                                                                         *)
(* Several scheduler processes share one root.  A directory is made for    *)
(* one worker, which is named by the directory here.  Locks are the        *)
(* operating system's: a process that dies lets go of them.                *)
(*                                                                         *)
(* sp[s] is where scheduler s is:                                          *)
(*   "down"                not running                                     *)
(*   "boot", "bootReap"    in cleanup_orphaned_aws_profiles, before and    *)
(*                         after it has the registry lock                  *)
(*   "idle"                no workspace                                    *)
(*   "create", "reap"      in AWSProfileWorkspace.__init__, before and     *)
(*                         after it has the registry lock                  *)
(*   "own"                 directory made, its lock not yet taken          *)
(*   "ready"               workspace made, worker not yet submitted        *)
(*   "run"                 worker submitted                                *)
(*   "cleanup", "erase"    in cleanup, before and after it has the         *)
(*                         registry lock                                   *)
(*   "report"              uploading results, ending the job               *)
(*   "undo", "undoErase"   as "cleanup" and "erase", after the worker could*)
(*                         not be submitted                                *)
(*   "stuck"               that cleanup raised: job_running is set and     *)
(*                         there is no future, so no poll does anything    *)
(* wp[d] is where the worker of d is: "none", "submitted", "enter" with    *)
(* the registry lock, "inside", "using" the credential files, "leave".     *)
(***************************************************************************)
EXTENDS Naturals, FiniteSets

CONSTANTS Schedulers, Dirs, None,
          MaxCrashes   \* bound: processes that die during a behaviour
\* Directory names are used again once nothing refers to them.

ASSUME NamesAssumption == /\ Schedulers \cap Dirs = {}
                          /\ None \notin Schedulers \cup Dirs
ASSUME CrashAssumption == MaxCrashes \in Nat
\* A name for the workspace of every scheduler and for what each death may leave.
ASSUME NamesSuffice == /\ IsFiniteSet(Schedulers) /\ IsFiniteSet(Dirs)
                       /\ Cardinality(Dirs) >= Cardinality(Schedulers) + MaxCrashes

VARIABLES
  registry,    \* holder of registry.lock: a scheduler, a worker (its directory), None
  exists,      \* directories on disk
  parentLock,  \* holder of parent.lock of each directory
  workerLock,  \* directories whose worker.lock is held
  creds,       \* directories with credential files
  sp, wp,
  ws,          \* the directory of the scheduler's workspace
  left,        \* directories the reaper has still to look at
  doomed,      \* directory the reaper has found free and is about to remove
  orphans,     \* history: directories whose scheduler died
  crashes

disk == <<exists, creds>>
locks == <<registry, parentLock, workerLock>>
reaper == <<left, doomed>>
ghosts == <<orphans, crashes>>
vars == <<disk, locks, reaper, sp, wp, ws, ghosts>>

SchedulerStates == {"down", "boot", "bootReap", "idle", "create", "reap", "own",
                    "ready", "run", "cleanup", "erase", "report", "undo", "undoErase",
                    "stuck"}
WorkerStates == {"none", "submitted", "enter", "inside", "using", "leave"}

TypeOK ==
  /\ registry \in Schedulers \cup Dirs \cup {None}
  /\ exists \in SUBSET Dirs
  /\ parentLock \in [Dirs -> Schedulers \cup {None}]
  /\ workerLock \in SUBSET Dirs
  /\ creds \in SUBSET Dirs
  /\ sp \in [Schedulers -> SchedulerStates]
  /\ wp \in [Dirs -> WorkerStates]
  /\ ws \in [Schedulers -> Dirs \cup {None}]
  /\ left \in [Schedulers -> SUBSET Dirs]
  /\ doomed \in [Schedulers -> Dirs \cup {None}]
  /\ orphans \in SUBSET Dirs
  /\ crashes \in 0..MaxCrashes

Init ==
  /\ registry = None
  /\ exists = {}
  /\ parentLock = [d \in Dirs |-> None]
  /\ workerLock = {}
  /\ creds = {}
  /\ sp = [s \in Schedulers |-> "down"]
  /\ wp = [d \in Dirs |-> "none"]
  /\ ws = [s \in Schedulers |-> None]
  /\ left = [s \in Schedulers |-> {}]
  /\ doomed = [s \in Schedulers |-> None]
  /\ orphans = {}
  /\ crashes = 0

---------------------------------------------------------------------------
(* Reaping, with the registry lock held. *)

Goto(s, l) == sp' = [sp EXCEPT ![s] = l]

Free(d) == parentLock[d] = None /\ d \notin workerLock

\* Mutant: the reaper waits for the locks of a directory in use.
CanExamineWaiting(s, d) == d \in left[s] /\ doomed[s] = None /\ Free(d)

CanExamine(s, d) == d \in left[s] /\ doomed[s] = None

\* Mutant: only the scheduler's lock is looked at.
ExamineParentOnly(s, d) ==
  /\ CanExamine(s, d)
  /\ left' = [left EXCEPT ![s] = @ \ {d}]
  /\ doomed' = [doomed EXCEPT ![s] = IF parentLock[d] = None THEN d ELSE None]
  /\ UNCHANGED <<disk, locks, sp, wp, ws, ghosts>>

\* Both locks are tried and let go of; Timeout leaves the directory alone.
Examine(s, d) ==
  /\ CanExamine(s, d)
  /\ left' = [left EXCEPT ![s] = @ \ {d}]
  /\ doomed' = [doomed EXCEPT ![s] = IF Free(d) THEN d ELSE None]
  /\ UNCHANGED <<disk, locks, sp, wp, ws, ghosts>>

Remove(s) ==
  /\ doomed[s] # None
  /\ exists' = exists \ {doomed[s]}
  /\ creds' = creds \ {doomed[s]}
  /\ doomed' = [doomed EXCEPT ![s] = None]
  /\ UNCHANGED <<locks, left, sp, wp, ws, ghosts>>

\* rmtree raises, perhaps half way: Service.__init__ gives up, or _launch_job
\* fails the job.
RemoveFails(s) ==
  /\ doomed[s] # None
  /\ doomed' = [doomed EXCEPT ![s] = None]
  /\ left' = [left EXCEPT ![s] = {}]
  /\ registry' = None
  /\ Goto(s, IF sp[s] = "bootReap" THEN "down" ELSE "report")
  /\ creds' \in {creds, creds \ {doomed[s]}}
  /\ UNCHANGED <<exists, parentLock, workerLock, wp, ws, ghosts>>

Reaped(s) == left[s] = {} /\ doomed[s] = None

---------------------------------------------------------------------------
(* A scheduler. *)

Boot(s) == /\ sp[s] = "down"
           /\ Goto(s, "boot")
           /\ UNCHANGED <<disk, locks, reaper, wp, ws, ghosts>>

\* Mutant: nobody looks for orphans.
ReapNothing(s) ==
  /\ sp[s] \in {"boot", "create"}
  /\ registry = None
  /\ registry' = s
  /\ Goto(s, IF sp[s] = "boot" THEN "bootReap" ELSE "reap")
  /\ UNCHANGED <<disk, parentLock, workerLock, reaper, wp, ws, ghosts>>

StartReaping(s) ==
  /\ sp[s] \in {"boot", "create"}
  /\ registry = None
  /\ registry' = s
  /\ left' = [left EXCEPT ![s] = exists]
  /\ Goto(s, IF sp[s] = "boot" THEN "bootReap" ELSE "reap")
  /\ UNCHANGED <<disk, parentLock, workerLock, doomed, wp, ws, ghosts>>

FinishBoot(s) ==
  /\ sp[s] = "bootReap"
  /\ Reaped(s)
  /\ registry' = None
  /\ Goto(s, "idle")
  /\ UNCHANGED <<disk, parentLock, workerLock, reaper, wp, ws, ghosts>>

\* _launch_job of a job with an access key.
Launch(s) == /\ sp[s] = "idle"
             /\ Goto(s, "create")
             /\ UNCHANGED <<disk, locks, reaper, wp, ws, ghosts>>

\* mkdtemp gives a name nothing refers to.
CanMake(s, d) ==
  /\ sp[s] = "reap"
  /\ Reaped(s)
  /\ d \notin exists
  /\ wp[d] = "none"
  /\ \A t \in Schedulers : ws[t] # d

\* Mutant: the registry lock is let go of before the directory is locked.
MakeUnguarded(s, d) ==
  /\ CanMake(s, d)
  /\ exists' = exists \cup {d}
  /\ ws' = [ws EXCEPT ![s] = d]
  /\ orphans' = orphans \ {d}
  /\ registry' = None
  /\ Goto(s, "own")
  /\ UNCHANGED <<creds, parentLock, workerLock, reaper, wp, crashes>>

Make(s, d) ==
  /\ CanMake(s, d)
  /\ exists' = exists \cup {d}
  /\ ws' = [ws EXCEPT ![s] = d]
  /\ orphans' = orphans \ {d}
  /\ Goto(s, "own")
  /\ UNCHANGED <<creds, locks, reaper, wp, crashes>>

\* Mutant: the lock is entered under the name of the directory.
OwnMisfiled(s) ==
  /\ sp[s] = "own"
  /\ parentLock' = [parentLock EXCEPT ![ws[s]] = ws[s]]
  /\ registry' = None
  /\ Goto(s, "ready")
  /\ UNCHANGED <<disk, workerLock, reaper, wp, ws, ghosts>>

Own(s) ==
  /\ sp[s] = "own"
  /\ parentLock' = [parentLock EXCEPT ![ws[s]] = s]
  /\ registry' = None
  /\ Goto(s, "ready")
  /\ UNCHANGED <<disk, workerLock, reaper, wp, ws, ghosts>>

Submit(s) ==
  /\ sp[s] = "ready"
  /\ wp' = [wp EXCEPT ![ws[s]] = "submitted"]
  /\ Goto(s, "run")
  /\ UNCHANGED <<disk, locks, reaper, ws, ghosts>>

SubmitFails(s) ==
  /\ sp[s] = "ready"
  /\ Goto(s, "undo")
  /\ UNCHANGED <<disk, locks, reaper, wp, ws, ghosts>>

\* Mutant: results are uploaded before the workspace is cleaned up.
ReportFirst(s) ==
  /\ sp[s] = "run"
  /\ wp[ws[s]] = "none"
  /\ Goto(s, "report")
  /\ UNCHANGED <<disk, locks, reaper, wp, ws, ghosts>>

\* The future is done, or the worker has been killed and waited for.
WorkerIsDone(s) ==
  /\ sp[s] = "run"
  /\ wp[ws[s]] = "none"
  /\ Goto(s, "cleanup")
  /\ UNCHANGED <<disk, locks, reaper, wp, ws, ghosts>>

StartErasing(s) ==
  /\ sp[s] \in {"cleanup", "undo"}
  /\ registry = None
  /\ registry' = s
  /\ parentLock' = [parentLock EXCEPT ![ws[s]] = None]
  /\ Goto(s, IF sp[s] = "cleanup" THEN "erase" ELSE "undoErase")
  /\ UNCHANGED <<disk, workerLock, reaper, wp, ws, ghosts>>

Erase(s) ==
  /\ sp[s] \in {"erase", "undoErase"}
  /\ exists' = exists \ {ws[s]}
  /\ creds' = creds \ {ws[s]}
  /\ ws' = [ws EXCEPT ![s] = None]
  /\ registry' = None
  /\ Goto(s, IF sp[s] = "erase" THEN "report" ELSE "idle")
  /\ UNCHANGED <<parentLock, workerLock, reaper, wp, ghosts>>

\* rmtree raises, perhaps half way.  After a worker the workspace is kept and the
\* next poll cleans up again; after a failed submission there is no next time.
EraseFails(s) ==
  /\ sp[s] \in {"erase", "undoErase"}
  /\ registry' = None
  /\ Goto(s, IF sp[s] = "erase" THEN "cleanup" ELSE "stuck")
  /\ creds' \in {creds, creds \ {ws[s]}}
  /\ UNCHANGED <<exists, parentLock, workerLock, reaper, wp, ws, ghosts>>

EndJob(s) == /\ sp[s] = "report"
             /\ Goto(s, "idle")
             /\ UNCHANGED <<disk, locks, reaper, wp, ws, ghosts>>

ProcessEnds(s) ==
  /\ orphans' = IF ws[s] = None THEN orphans ELSE orphans \cup {ws[s]}
  /\ registry' = IF registry = s THEN None ELSE registry
  /\ parentLock' = [d \in Dirs |-> IF parentLock[d] = s THEN None ELSE parentLock[d]]
  /\ ws' = [ws EXCEPT ![s] = None]
  /\ left' = [left EXCEPT ![s] = {}]
  /\ doomed' = [doomed EXCEPT ![s] = None]
  /\ Goto(s, "down")
  /\ UNCHANGED <<disk, workerLock, wp>>

\* Somebody stops a scheduler that does nothing any more.
Stop(s) ==
  /\ sp[s] = "stuck"
  /\ ProcessEnds(s)
  /\ UNCHANGED crashes

\* The process dies; its worker may go on.
SchedulerDies(s) ==
  /\ sp[s] # "down"
  /\ crashes < MaxCrashes
  /\ crashes' = crashes + 1
  /\ ProcessEnds(s)

---------------------------------------------------------------------------
(* The worker of a directory. *)

WorkerGoto(d, l) == wp' = [wp EXCEPT ![d] = l]

StartEntering(d) ==
  /\ wp[d] = "submitted"
  /\ registry = None
  /\ registry' = d
  /\ WorkerGoto(d, "enter")
  /\ UNCHANGED <<disk, parentLock, workerLock, reaper, sp, ws, ghosts>>

\* A directory that is gone makes the worker raise.
Enter(d) ==
  /\ wp[d] = "enter"
  /\ registry' = None
  /\ IF d \in exists
       THEN workerLock' = workerLock \cup {d} /\ WorkerGoto(d, "inside")
       ELSE UNCHANGED workerLock /\ WorkerGoto(d, "none")
  /\ UNCHANGED <<disk, parentLock, reaper, sp, ws, ghosts>>

WriteCredentials(d) ==
  /\ wp[d] = "inside"
  /\ creds' = creds \cup {d}
  /\ WorkerGoto(d, "using")
  /\ UNCHANGED <<exists, locks, reaper, sp, ws, ghosts>>

\* The pipeline has returned or raised.
EraseCredentials(d) ==
  /\ wp[d] \in {"inside", "using"}
  /\ creds' = creds \ {d}
  /\ WorkerGoto(d, "leave")
  /\ UNCHANGED <<exists, locks, reaper, sp, ws, ghosts>>

Leave(d) ==
  /\ wp[d] = "leave"
  /\ workerLock' = workerLock \ {d}
  /\ WorkerGoto(d, "none")
  /\ UNCHANGED <<disk, registry, parentLock, reaper, sp, ws, ghosts>>

\* Killed by its scheduler (_abort_managed_job) or by the system.
WorkerDies(d) ==
  /\ wp[d] # "none"
  /\ crashes < MaxCrashes
  /\ crashes' = crashes + 1
  /\ registry' = IF registry = d THEN None ELSE registry
  /\ workerLock' = workerLock \ {d}
  /\ WorkerGoto(d, "none")
  /\ UNCHANGED <<disk, parentLock, reaper, sp, ws, orphans>>

---------------------------------------------------------------------------

Reap(s) == Remove(s) \/ RemoveFails(s) \/ \E d \in Dirs : Examine(s, d)

Scheduler(s) ==
  \/ Boot(s) \/ StartReaping(s) \/ Reap(s) \/ FinishBoot(s) \/ Launch(s)
  \/ (\E d \in Dirs : Make(s, d)) \/ Own(s) \/ Submit(s) \/ SubmitFails(s)
  \/ WorkerIsDone(s) \/ StartErasing(s) \/ Erase(s) \/ EraseFails(s) \/ EndJob(s)
  \/ Stop(s)

Worker(d) ==
  \/ StartEntering(d) \/ Enter(d) \/ WriteCredentials(d) \/ EraseCredentials(d)
  \/ Leave(d)

Next == \/ \E s \in Schedulers : Scheduler(s) \/ SchedulerDies(s)
        \/ \E d \in Dirs : Worker(d) \/ WorkerDies(d)

Spec == Init /\ [][Next]_vars

---------------------------------------------------------------------------
(* Safety. *)

\* No reaper and no scheduler removes a directory while a worker is in it, even
\* one whose scheduler has died: the worker's lock outlives the scheduler.
InUseIsKept == \A d \in Dirs : wp[d] \in {"inside", "using", "leave"} => d \in exists

\* The directory of a live scheduler stays until that scheduler cleans it up,
\* although nothing but a lock tells a reaper in another process that it is not
\* an orphan, and the worker has not entered it yet.
OwnedIsKept == \A s \in Schedulers : sp[s] \in {"own", "ready", "run"} => ws[s] \in exists

\* Credentials on disk are in use by a worker, or their scheduler has still to
\* erase them and has not gone on to upload results and end the job, or that
\* scheduler died.  A killed worker, or a directory that cannot be removed at
\* once, makes no difference.
CredentialsAreAccountedFor ==
  \A d \in creds : \/ wp[d] = "using"
                   \/ \E s \in Schedulers : ws[s] = d /\ sp[s] \in {"run", "cleanup", "erase"}
                   \/ d \in orphans

\* Whoever has the registry lock can take its next step whatever the others do:
\* a directory lock in use is passed over, not waited for, and a new name is
\* always found, so two processes never wait for each other.  The disjuncts are
\* the guards of what is done under the lock.
HolderNeverWaits ==
  /\ \A s \in Schedulers : registry = s =>
       \/ doomed[s] # None                                  \* Remove
       \/ sp[s] = "bootReap" /\ Reaped(s)                   \* FinishBoot
       \/ sp[s] \in {"own", "erase", "undoErase"}           \* Own, Erase
       \/ \E d \in Dirs : CanExamine(s, d) \/ CanMake(s, d)
  /\ \A d \in Dirs : registry = d => wp[d] = "enter"        \* Enter

---------------------------------------------------------------------------
(* The inductive invariant. *)

RegistryInv ==
  /\ \A s \in Schedulers : registry = s <=> sp[s] \in {"bootReap", "reap", "own", "erase", "undoErase"}
  /\ \A d \in Dirs : registry = d <=> wp[d] = "enter"

\* Only the holder of the registry lock reaps, and what it has found free stays
\* free, because both locks are taken under the registry lock.
ReaperInv ==
  \A s \in Schedulers :
    /\ sp[s] \notin {"bootReap", "reap"} => Reaped(s)
    /\ doomed[s] # None => Free(doomed[s])

WithWorker == {"run"}
WithoutWorker == {"own", "ready", "cleanup", "erase", "undo", "undoErase", "stuck"}

\* A workspace belongs to one scheduler, which holds its lock until cleanup and
\* cleans up only after the worker has gone.
OwnerInv ==
  /\ \A s \in Schedulers :
       /\ ws[s] # None <=> sp[s] \in WithWorker \cup WithoutWorker
       /\ sp[s] \in {"ready", "run"} => parentLock[ws[s]] = s
       /\ sp[s] \in WithoutWorker => wp[ws[s]] = "none"
  /\ \A s, t \in Schedulers : ws[s] # None /\ ws[s] = ws[t] => s = t

WorkerInv ==
  \A d \in Dirs :
    /\ d \in workerLock <=> wp[d] \in {"inside", "using", "leave"}
    /\ wp[d] # "none" => \/ \E s \in Schedulers : ws[s] = d /\ sp[s] = "run"
                         \/ d \in orphans

CredsInv == creds \subseteq exists /\ CredentialsAreAccountedFor

IInv == /\ TypeOK /\ RegistryInv /\ ReaperInv /\ OwnerInv /\ WorkerInv
        /\ InUseIsKept /\ OwnedIsKept /\ CredsInv

---------------------------------------------------------------------------
(* Liveness. *)

\* Processes run, and a file lock that is free again and again is obtained in
\* the end (FileLock polls).  Jobs keep arriving, collectors return, removing a
\* directory does not fail for ever, and a scheduler that is stuck is restarted.
Fairness ==
  /\ \A s \in Schedulers :
       /\ WF_vars(Scheduler(s))
       /\ SF_vars(StartReaping(s) \/ StartErasing(s))
       /\ SF_vars(Remove(s) \/ Erase(s))
  /\ \A d \in Dirs : SF_vars(Worker(d))

FairSpec == Spec /\ Fairness

\* Credentials do not stay on disk: the worker, its scheduler or, when both have
\* died, the next reaper removes them.
SecretsAreErased == \A d \in Dirs : d \in creds ~> d \notin creds
=============================================================================
