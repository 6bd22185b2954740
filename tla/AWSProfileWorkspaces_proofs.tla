--------------------- MODULE AWSProfileWorkspaces_proofs ---------------------
(***************************************************************************)
(* Proofs about AWSProfileWorkspaces, for any number of schedulers,         *)
(* directories and deaths.  That no reaper removes what somebody uses       *)
(* depends on the registry lock: the reaper tries two locks, lets go of     *)
(* them and only then removes.  IInv says who holds the registry lock,      *)
(* that what was found free stays free, and which locks owners and workers  *)
(* hold; each lemma below is one of its conjuncts, over all actions.        *)
(***************************************************************************)
EXTENDS AWSProfileWorkspaces, FiniteSetTheorems, TLAPS

\* Every step keeps the types; a step that counts a death starts below the
\* bound.
LEMMA TypeStep ==
  ASSUME TypeOK, [Next]_vars
  PROVE  TypeOK'
<1> USE DEF vars, disk, locks, reaper, ghosts, ProcessEnds, Goto, WorkerGoto, CanExamine,
            CanMake, TypeOK,
            SchedulerStates, WorkerStates
<1>1. ASSUME NEW s \in Schedulers, Scheduler(s) \/ SchedulerDies(s)
      PROVE  TypeOK'
  <2> USE <1>1
  <2>1. CASE RemoveFails(s)
    BY <2>1, NamesAssumption, CrashAssumption DEF RemoveFails
  <2>2. CASE Own(s)
    BY <2>2, NamesAssumption, CrashAssumption DEF Own
  <2>3. CASE EraseFails(s)
    BY <2>3, NamesAssumption, CrashAssumption DEF EraseFails
  <2>4. CASE Stop(s)
    BY <2>4, NamesAssumption, CrashAssumption DEF Stop
  <2>5. CASE SchedulerDies(s)
    BY <2>5, NamesAssumption, CrashAssumption DEF SchedulerDies
  <2>6. CASE \E d \in Dirs : Make(s, d)
    BY <2>6, NamesAssumption, CrashAssumption DEF Make
  <2>7. CASE Boot(s) \/ StartReaping(s) \/ Remove(s) \/ FinishBoot(s) \/ Launch(s) \/
              Submit(s) \/ SubmitFails(s) \/ WorkerIsDone(s) \/ StartErasing(s) \/
              Erase(s) \/ EndJob(s) \/ \E d \in Dirs : Examine(s, d)
    BY <2>7, NamesAssumption, CrashAssumption DEF Boot, StartReaping, Remove, FinishBoot, Launch, Submit, SubmitFails,
         WorkerIsDone, StartErasing, Erase, EndJob, Examine
  <2> QED BY <2>1, <2>2, <2>3, <2>4, <2>5, <2>6, <2>7 DEF Scheduler, Reap
<1>2. ASSUME NEW d \in Dirs, Worker(d) \/ WorkerDies(d)
      PROVE  TypeOK'
  <2> USE <1>2
  <2>1. CASE WorkerDies(d)
    BY <2>1, NamesAssumption, CrashAssumption DEF WorkerDies
  <2>2. CASE StartEntering(d) \/ Enter(d) \/ WriteCredentials(d) \/ EraseCredentials(d)
              \/ Leave(d)
    BY <2>2, NamesAssumption, CrashAssumption DEF StartEntering, Enter, WriteCredentials, EraseCredentials, Leave
  <2> QED BY <2>1, <2>2 DEF Worker
<1>3. CASE UNCHANGED vars
  BY <1>3
<1> QED BY <1>1, <1>2, <1>3 DEF Next

\* The registry lock is taken only when it is free, and every step that ends
\* a critical section, death included, lets go of it.
LEMMA RegistryStep ==
  ASSUME TypeOK, RegistryInv, ReaperInv, OwnerInv, [Next]_vars
  PROVE  RegistryInv'
<1> USE DEF vars, disk, locks, reaper, ghosts, ProcessEnds, Goto, WorkerGoto, CanExamine,
            CanMake, Reaped,
            Free, TypeOK, WithWorker, WithoutWorker, RegistryInv, ReaperInv, OwnerInv
<1>1. ASSUME NEW s \in Schedulers, Scheduler(s) \/ SchedulerDies(s)
      PROVE  RegistryInv'
  <2> USE <1>1
  <2>1. CASE StartReaping(s)
    BY <2>1, NamesAssumption DEF StartReaping
  <2>2. CASE RemoveFails(s)
    BY <2>2, NamesAssumption DEF RemoveFails
  <2>3. CASE FinishBoot(s)
    BY <2>3, NamesAssumption DEF FinishBoot
  <2>4. CASE Own(s)
    BY <2>4, NamesAssumption DEF Own
  <2>5. CASE Submit(s)
    BY <2>5, NamesAssumption DEF Submit
  <2>6. CASE StartErasing(s)
    BY <2>6, NamesAssumption DEF StartErasing
  <2>7. CASE Erase(s)
    BY <2>7, NamesAssumption DEF Erase
  <2>8. CASE EraseFails(s)
    BY <2>8, NamesAssumption DEF EraseFails
  <2>9. CASE Stop(s)
    BY <2>9, NamesAssumption DEF Stop
  <2>10. CASE SchedulerDies(s)
    BY <2>10, NamesAssumption DEF SchedulerDies
  <2>11. CASE \E d \in Dirs : Make(s, d)
    BY <2>11, NamesAssumption DEF Make
  <2>12. CASE Boot(s) \/ Remove(s) \/ Launch(s) \/ SubmitFails(s) \/ WorkerIsDone(s) \/
              EndJob(s) \/ \E d \in Dirs : Examine(s, d)
    BY <2>12, NamesAssumption DEF Boot, Remove, Launch, SubmitFails, WorkerIsDone, EndJob, Examine
  <2> QED BY <2>1, <2>2, <2>3, <2>4, <2>5, <2>6, <2>7, <2>8, <2>9, <2>10, <2>11, <2>12 DEF
         Scheduler, Reap
<1>2. ASSUME NEW d \in Dirs, Worker(d) \/ WorkerDies(d)
      PROVE  RegistryInv'
  <2> USE <1>2
  <2>1. CASE StartEntering(d)
    BY <2>1, NamesAssumption DEF StartEntering
  <2>2. CASE Enter(d)
    BY <2>2, NamesAssumption DEF Enter
  <2>3. CASE WorkerDies(d)
    BY <2>3, NamesAssumption DEF WorkerDies
  <2>4. CASE WriteCredentials(d) \/ EraseCredentials(d) \/ Leave(d)
    BY <2>4, NamesAssumption DEF WriteCredentials, EraseCredentials, Leave
  <2> QED BY <2>1, <2>2, <2>3, <2>4 DEF Worker
<1>3. CASE UNCHANGED vars
  BY <1>3
<1> QED BY <1>1, <1>2, <1>3 DEF Next

\* A directory that was found free stays free: whoever would lock it needs
\* the registry lock, which the reaper holds.
LEMMA ReaperStep ==
  ASSUME TypeOK, RegistryInv, ReaperInv, [Next]_vars
  PROVE  ReaperInv'
<1> USE DEF vars, disk, locks, reaper, ghosts, ProcessEnds, Goto, WorkerGoto, CanExamine,
            CanMake, Reaped,
            Free, TypeOK, WithWorker, WithoutWorker, RegistryInv, ReaperInv
<1>1. ASSUME NEW s \in Schedulers, Scheduler(s) \/ SchedulerDies(s)
      PROVE  ReaperInv'
  <2> USE <1>1
  <2>1. CASE StartReaping(s)
    BY <2>1, NamesAssumption DEF StartReaping
  <2>2. CASE Remove(s)
    BY <2>2, NamesAssumption DEF Remove
  <2>3. CASE RemoveFails(s)
    BY <2>3, NamesAssumption DEF RemoveFails
  <2>4. CASE Own(s)
    BY <2>4, NamesAssumption DEF Own
  <2>5. CASE Stop(s)
    BY <2>5, NamesAssumption DEF Stop
  <2>6. CASE SchedulerDies(s)
    BY <2>6, NamesAssumption DEF SchedulerDies
  <2>7. CASE \E d \in Dirs : Examine(s, d)
    BY <2>7, NamesAssumption DEF Examine
  <2>8. CASE Boot(s) \/ FinishBoot(s) \/ Launch(s) \/ Submit(s) \/ SubmitFails(s) \/
              WorkerIsDone(s) \/ StartErasing(s) \/ Erase(s) \/ EraseFails(s) \/
              EndJob(s) \/ \E d \in Dirs : Make(s, d)
    BY <2>8, NamesAssumption DEF Boot, FinishBoot, Launch, Submit, SubmitFails, WorkerIsDone, StartErasing,
         Erase, EraseFails, EndJob, Make
  <2> QED BY <2>1, <2>2, <2>3, <2>4, <2>5, <2>6, <2>7, <2>8 DEF Scheduler, Reap
<1>2. ASSUME NEW d \in Dirs, Worker(d) \/ WorkerDies(d)
      PROVE  ReaperInv'
  <2> USE <1>2
  <2>1. CASE Enter(d)
    BY <2>1, NamesAssumption DEF Enter
  <2>2. CASE Leave(d)
    BY <2>2, NamesAssumption DEF Leave
  <2>3. CASE WorkerDies(d)
    BY <2>3, NamesAssumption DEF WorkerDies
  <2>4. CASE StartEntering(d) \/ WriteCredentials(d) \/ EraseCredentials(d)
    BY <2>4, NamesAssumption DEF StartEntering, WriteCredentials, EraseCredentials
  <2> QED BY <2>1, <2>2, <2>3, <2>4 DEF Worker
<1>3. CASE UNCHANGED vars
  BY <1>3
<1> QED BY <1>1, <1>2, <1>3 DEF Next

\* A new workspace is a directory of no other scheduler, and only its owner
\* lets go of its lock.
LEMMA OwnerStep ==
  ASSUME TypeOK, ReaperInv, OwnerInv, [Next]_vars
  PROVE  OwnerInv'
<1> USE DEF vars, disk, locks, reaper, ghosts, ProcessEnds, Goto, WorkerGoto, CanExamine,
            CanMake, Reaped,
            Free, TypeOK, WithWorker, WithoutWorker, ReaperInv, OwnerInv
<1>1. ASSUME NEW s \in Schedulers, Scheduler(s) \/ SchedulerDies(s)
      PROVE  OwnerInv'
  <2> USE <1>1
  <2>1. CASE RemoveFails(s)
    BY <2>1, NamesAssumption DEF RemoveFails
  <2>2. CASE Own(s)
    BY <2>2, NamesAssumption DEF Own
  <2>3. CASE Submit(s)
    BY <2>3, NamesAssumption DEF Submit
  <2>4. CASE WorkerIsDone(s)
    BY <2>4, NamesAssumption DEF WorkerIsDone
  <2>5. CASE StartErasing(s)
    BY <2>5, NamesAssumption DEF StartErasing
  <2>6. CASE Erase(s)
    BY <2>6, NamesAssumption DEF Erase
  <2>7. CASE Stop(s)
    BY <2>7, NamesAssumption DEF Stop
  <2>8. CASE SchedulerDies(s)
    BY <2>8, NamesAssumption DEF SchedulerDies
  <2>9. CASE \E d \in Dirs : Make(s, d)
    BY <2>9, NamesAssumption DEF Make
  <2>10. CASE Boot(s) \/ StartReaping(s) \/ Remove(s) \/ FinishBoot(s) \/ Launch(s) \/
              SubmitFails(s) \/ EraseFails(s) \/ EndJob(s) \/ \E d \in Dirs : Examine(s,
              d)
    BY <2>10, NamesAssumption DEF Boot, StartReaping, Remove, FinishBoot, Launch, SubmitFails, EraseFails,
         EndJob, Examine
  <2> QED BY <2>1, <2>2, <2>3, <2>4, <2>5, <2>6, <2>7, <2>8, <2>9, <2>10 DEF Scheduler, Reap
<1>2. ASSUME NEW d \in Dirs, Worker(d) \/ WorkerDies(d)
      PROVE  OwnerInv'
  <2> USE <1>2
  <2>1. CASE StartEntering(d)
    BY <2>1, NamesAssumption DEF StartEntering
  <2>2. CASE Enter(d)
    BY <2>2, NamesAssumption DEF Enter
  <2>3. CASE WorkerDies(d)
    BY <2>3, NamesAssumption DEF WorkerDies
  <2>4. CASE WriteCredentials(d) \/ EraseCredentials(d) \/ Leave(d)
    BY <2>4, NamesAssumption DEF WriteCredentials, EraseCredentials, Leave
  <2> QED BY <2>1, <2>2, <2>3, <2>4 DEF Worker
<1>3. CASE UNCHANGED vars
  BY <1>3
<1> QED BY <1>1, <1>2, <1>3 DEF Next

\* A worker holds its lock as long as it is in the directory, and its
\* scheduler runs or has died.
LEMMA WorkerStep ==
  ASSUME TypeOK, ReaperInv, OwnerInv, WorkerInv, [Next]_vars
  PROVE  WorkerInv'
<1> USE DEF vars, disk, locks, reaper, ghosts, ProcessEnds, Goto, WorkerGoto, CanExamine,
            CanMake, Reaped,
            Free, TypeOK, WithWorker, WithoutWorker, ReaperInv, OwnerInv, WorkerInv
<1>1. ASSUME NEW s \in Schedulers, Scheduler(s) \/ SchedulerDies(s)
      PROVE  WorkerInv'
  <2> USE <1>1
  <2>1. CASE RemoveFails(s)
    BY <2>1, NamesAssumption DEF RemoveFails
  <2>2. CASE Submit(s)
    BY <2>2, NamesAssumption DEF Submit
  <2>3. CASE WorkerIsDone(s)
    BY <2>3, NamesAssumption DEF WorkerIsDone
  <2>4. CASE Erase(s)
    BY <2>4, NamesAssumption DEF Erase
  <2>5. CASE Stop(s)
    BY <2>5, NamesAssumption DEF Stop
  <2>6. CASE SchedulerDies(s)
    BY <2>6, NamesAssumption DEF SchedulerDies
  <2>7. CASE \E d \in Dirs : Make(s, d)
    BY <2>7, NamesAssumption DEF Make
  <2>8. CASE Boot(s) \/ StartReaping(s) \/ Remove(s) \/ FinishBoot(s) \/ Launch(s) \/
              Own(s) \/ SubmitFails(s) \/ StartErasing(s) \/ EraseFails(s) \/ EndJob(s)
              \/ \E d \in Dirs : Examine(s, d)
    BY <2>8, NamesAssumption DEF Boot, StartReaping, Remove, FinishBoot, Launch, Own, SubmitFails, StartErasing,
         EraseFails, EndJob, Examine
  <2> QED BY <2>1, <2>2, <2>3, <2>4, <2>5, <2>6, <2>7, <2>8 DEF Scheduler, Reap
<1>2. ASSUME NEW d \in Dirs, Worker(d) \/ WorkerDies(d)
      PROVE  WorkerInv'
  <2> USE <1>2
  <2>1. CASE Enter(d)
    BY <2>1, NamesAssumption DEF Enter
  <2>2. CASE Leave(d)
    BY <2>2, NamesAssumption DEF Leave
  <2>3. CASE WorkerDies(d)
    BY <2>3, NamesAssumption DEF WorkerDies
  <2>4. CASE StartEntering(d) \/ WriteCredentials(d) \/ EraseCredentials(d)
    BY <2>4, NamesAssumption DEF StartEntering, WriteCredentials, EraseCredentials
  <2> QED BY <2>1, <2>2, <2>3, <2>4 DEF Worker
<1>3. CASE UNCHANGED vars
  BY <1>3
<1> QED BY <1>1, <1>2, <1>3 DEF Next

\* What a reaper removes is not locked by a worker, and what its owner
\* removes has no worker.
LEMMA InUseStep ==
  ASSUME TypeOK, ReaperInv, OwnerInv, WorkerInv, InUseIsKept, [Next]_vars
  PROVE  InUseIsKept'
<1> USE DEF vars, disk, locks, reaper, ghosts, ProcessEnds, Goto, WorkerGoto, CanExamine,
            CanMake, Reaped,
            Free, TypeOK, WithWorker, WithoutWorker, ReaperInv, OwnerInv, WorkerInv,
            InUseIsKept
<1>1. ASSUME NEW s \in Schedulers, Scheduler(s) \/ SchedulerDies(s)
      PROVE  InUseIsKept'
  <2> USE <1>1
  <2>1. CASE Remove(s)
    BY <2>1, NamesAssumption DEF Remove
  <2>2. CASE Submit(s)
    BY <2>2, NamesAssumption DEF Submit
  <2>3. CASE Erase(s)
    BY <2>3, NamesAssumption DEF Erase
  <2>4. CASE \E d \in Dirs : Make(s, d)
    BY <2>4, NamesAssumption DEF Make
  <2>5. CASE Boot(s) \/ StartReaping(s) \/ RemoveFails(s) \/ FinishBoot(s) \/ Launch(s)
              \/ Own(s) \/ SubmitFails(s) \/ WorkerIsDone(s) \/ StartErasing(s) \/
              EraseFails(s) \/ EndJob(s) \/ Stop(s) \/ SchedulerDies(s) \/ \E d \in Dirs
              : Examine(s, d)
    BY <2>5, NamesAssumption DEF Boot, StartReaping, RemoveFails, FinishBoot, Launch, Own, SubmitFails,
         WorkerIsDone, StartErasing, EraseFails, EndJob, Stop, SchedulerDies, Examine
  <2> QED BY <2>1, <2>2, <2>3, <2>4, <2>5 DEF Scheduler, Reap
<1>2. ASSUME NEW d \in Dirs, Worker(d) \/ WorkerDies(d)
      PROVE  InUseIsKept'
  <2> USE <1>2
  <2>1. CASE Enter(d)
    BY <2>1, NamesAssumption DEF Enter
  <2>2. CASE Leave(d)
    BY <2>2, NamesAssumption DEF Leave
  <2>3. CASE WorkerDies(d)
    BY <2>3, NamesAssumption DEF WorkerDies
  <2>4. CASE StartEntering(d) \/ WriteCredentials(d) \/ EraseCredentials(d)
    BY <2>4, NamesAssumption DEF StartEntering, WriteCredentials, EraseCredentials
  <2> QED BY <2>1, <2>2, <2>3, <2>4 DEF Worker
<1>3. CASE UNCHANGED vars
  BY <1>3
<1> QED BY <1>1, <1>2, <1>3 DEF Next

\* What a reaper removes is not locked by a scheduler, and is not a directory
\* made but not yet locked, because then the registry is not the reaper's.
LEMMA OwnedStep ==
  ASSUME TypeOK, RegistryInv, ReaperInv, OwnerInv, OwnedIsKept, [Next]_vars
  PROVE  OwnedIsKept'
<1> USE DEF vars, disk, locks, reaper, ghosts, ProcessEnds, Goto, WorkerGoto, CanExamine,
            CanMake, Reaped,
            Free, TypeOK, WithWorker, WithoutWorker, RegistryInv, ReaperInv, OwnerInv,
            OwnedIsKept
<1>1. ASSUME NEW s \in Schedulers, Scheduler(s) \/ SchedulerDies(s)
      PROVE  OwnedIsKept'
  <2> USE <1>1
  <2>1. CASE Remove(s)
    BY <2>1, NamesAssumption DEF Remove
  <2>2. CASE RemoveFails(s)
    BY <2>2, NamesAssumption DEF RemoveFails
  <2>3. CASE Own(s)
    BY <2>3, NamesAssumption DEF Own
  <2>4. CASE Erase(s)
    BY <2>4, NamesAssumption DEF Erase
  <2>5. CASE Stop(s)
    BY <2>5, NamesAssumption DEF Stop
  <2>6. CASE SchedulerDies(s)
    BY <2>6, NamesAssumption DEF SchedulerDies
  <2>7. CASE \E d \in Dirs : Make(s, d)
    BY <2>7, NamesAssumption DEF Make
  <2>8. CASE Boot(s) \/ StartReaping(s) \/ FinishBoot(s) \/ Launch(s) \/ Submit(s) \/
              SubmitFails(s) \/ WorkerIsDone(s) \/ StartErasing(s) \/ EraseFails(s) \/
              EndJob(s) \/ \E d \in Dirs : Examine(s, d)
    BY <2>8, NamesAssumption DEF Boot, StartReaping, FinishBoot, Launch, Submit, SubmitFails, WorkerIsDone,
         StartErasing, EraseFails, EndJob, Examine
  <2> QED BY <2>1, <2>2, <2>3, <2>4, <2>5, <2>6, <2>7, <2>8 DEF Scheduler, Reap
<1>2. ASSUME NEW d \in Dirs, Worker(d) \/ WorkerDies(d)
      PROVE  OwnedIsKept'
  <2> USE <1>2
  <2>1. CASE StartEntering(d) \/ Enter(d) \/ WriteCredentials(d) \/ EraseCredentials(d)
              \/ Leave(d) \/ WorkerDies(d)
    BY <2>1, NamesAssumption DEF StartEntering, Enter, WriteCredentials, EraseCredentials, Leave, WorkerDies
  <2> QED BY <2>1 DEF Worker
<1>3. CASE UNCHANGED vars
  BY <1>3
<1> QED BY <1>1, <1>2, <1>3 DEF Next

\* Only a worker writes credentials, and whoever goes on to report has
\* removed the directory.
LEMMA CredsStep ==
  ASSUME TypeOK, ReaperInv, OwnerInv, WorkerInv, InUseIsKept, CredsInv, [Next]_vars
  PROVE  CredsInv'
<1> USE DEF vars, disk, locks, reaper, ghosts, ProcessEnds, Goto, WorkerGoto, CanExamine,
            CanMake, Reaped,
            Free, TypeOK, WithWorker, WithoutWorker, ReaperInv, OwnerInv, WorkerInv,
            InUseIsKept, CredsInv, CredentialsAreAccountedFor
<1>1. ASSUME NEW s \in Schedulers, Scheduler(s) \/ SchedulerDies(s)
      PROVE  CredsInv'
  <2> USE <1>1
  <2>1. CASE Remove(s)
    BY <2>1, NamesAssumption DEF Remove
  <2>2. CASE RemoveFails(s)
    BY <2>2, NamesAssumption DEF RemoveFails
  <2>3. CASE Submit(s)
    BY <2>3, NamesAssumption DEF Submit
  <2>4. CASE SubmitFails(s)
    BY <2>4, NamesAssumption DEF SubmitFails
  <2>5. CASE WorkerIsDone(s)
    BY <2>5, NamesAssumption DEF WorkerIsDone
  <2>6. CASE StartErasing(s)
    BY <2>6, NamesAssumption DEF StartErasing
  <2>7. CASE Erase(s)
    BY <2>7, NamesAssumption DEF Erase
  <2>8. CASE EraseFails(s)
    BY <2>8, NamesAssumption DEF EraseFails
  <2>9. CASE Stop(s)
    BY <2>9, NamesAssumption DEF Stop
  <2>10. CASE SchedulerDies(s)
    BY <2>10, NamesAssumption DEF SchedulerDies
  <2>11. CASE \E d \in Dirs : Make(s, d)
    BY <2>11, NamesAssumption DEF Make
  <2>12. CASE Boot(s) \/ StartReaping(s) \/ FinishBoot(s) \/ Launch(s) \/ Own(s) \/
              EndJob(s) \/ \E d \in Dirs : Examine(s, d)
    BY <2>12, NamesAssumption DEF Boot, StartReaping, FinishBoot, Launch, Own, EndJob, Examine
  <2> QED BY <2>1, <2>2, <2>3, <2>4, <2>5, <2>6, <2>7, <2>8, <2>9, <2>10, <2>11, <2>12 DEF
         Scheduler, Reap
<1>2. ASSUME NEW d \in Dirs, Worker(d) \/ WorkerDies(d)
      PROVE  CredsInv'
  <2> USE <1>2
  <2>1. CASE WriteCredentials(d)
    BY <2>1, NamesAssumption DEF WriteCredentials
  <2>2. CASE EraseCredentials(d)
    BY <2>2, NamesAssumption DEF EraseCredentials
  <2>3. CASE Leave(d)
    BY <2>3, NamesAssumption DEF Leave
  <2>4. CASE WorkerDies(d)
    BY <2>4, NamesAssumption DEF WorkerDies
  <2>5. CASE StartEntering(d) \/ Enter(d)
    BY <2>5, NamesAssumption DEF StartEntering, Enter
  <2> QED BY <2>1, <2>2, <2>3, <2>4, <2>5 DEF Worker
<1>3. CASE UNCHANGED vars
  BY <1>3
<1> QED BY <1>1, <1>2, <1>3 DEF Next
---------------------------------------------------------------------------
(* Names never run out.  A directory that no live scheduler has is lost to  *)
(* the scheduler that wants a new one while a worker refers to it, or when  *)
(* the reaper has passed over it; every lost directory is the workspace of  *)
(* a scheduler that died, a death of its own for each.                      *)

\* Directories on disk that the scheduler about to make one has left alone.
Passed == {d \in exists : \E s \in Schedulers : /\ sp[s] = "reap"
                                                /\ d \notin left[s] /\ doomed[s] # d}

Lost == {d \in Dirs : /\ \A t \in Schedulers : ws[t] # d
                      /\ wp[d] # "none" \/ d \in Passed}

LockedByOwner ==
  \A d \in Dirs, t \in Schedulers :
    parentLock[d] = t => ws[t] = d /\ sp[t] \in {"ready", "run", "cleanup", "undo"}

\* The workspace of a stuck scheduler is not locked: the reaper removes it, or
\* fails, and has not left it alone.
StuckIsReaped ==
  \A s, t \in Schedulers :
    sp[s] = "reap" /\ sp[t] = "stuck" /\ ws[t] \in exists
      => ws[t] \in left[s] \/ doomed[s] = ws[t]

LostInv == Cardinality(Lost) <= crashes

NamesInv == LockedByOwner /\ StuckIsReaped /\ LostInv

\* A scheduler takes its lock when it is the owner and lets go of it first.
LEMMA LockedByOwnerStep ==
  ASSUME TypeOK, ReaperInv, OwnerInv, LockedByOwner, [Next]_vars
  PROVE  LockedByOwner'
<1> USE DEF vars, disk, locks, reaper, ghosts, ProcessEnds, Goto, WorkerGoto, CanExamine,
            CanMake, TypeOK, WithWorker, WithoutWorker, OwnerInv, LockedByOwner
<1>1. ASSUME NEW s \in Schedulers, Scheduler(s) \/ SchedulerDies(s)
      PROVE  LockedByOwner'
  <2> USE <1>1
  <2>1. CASE Own(s)
    BY <2>1, NamesAssumption DEF Own
  <2>2. CASE StartErasing(s)
    BY <2>2, NamesAssumption DEF StartErasing
  <2>3. CASE Erase(s)
    BY <2>3, NamesAssumption DEF Erase
  <2>4. CASE Stop(s)
    BY <2>4, NamesAssumption DEF Stop
  <2>5. CASE SchedulerDies(s)
    BY <2>5, NamesAssumption DEF SchedulerDies
  <2>6. CASE \E d \in Dirs : Make(s, d)
    BY <2>6, NamesAssumption DEF Make
  <2>7. CASE RemoveFails(s) \/ EraseFails(s)
    BY <2>7, NamesAssumption DEF RemoveFails, EraseFails, ReaperInv, Reaped
  <2>8. CASE Boot(s) \/ StartReaping(s) \/ Remove(s) \/ FinishBoot(s) \/ Launch(s) \/
              Submit(s) \/ SubmitFails(s) \/ WorkerIsDone(s) \/ EndJob(s) \/
              \E d \in Dirs : Examine(s, d)
    BY <2>8, NamesAssumption DEF Boot, StartReaping, Remove, FinishBoot, Launch, Submit,
         SubmitFails, WorkerIsDone, EndJob, Examine
  <2> QED BY <2>1, <2>2, <2>3, <2>4, <2>5, <2>6, <2>7, <2>8 DEF Scheduler, Reap
<1>2. ASSUME NEW d \in Dirs, Worker(d) \/ WorkerDies(d)
      PROVE  LockedByOwner'
  BY <1>2, NamesAssumption DEF Worker, StartEntering, Enter, WriteCredentials,
     EraseCredentials, Leave, WorkerDies
<1>3. CASE UNCHANGED vars
  BY <1>3
<1> QED BY <1>1, <1>2, <1>3 DEF Next

\* Nobody gets stuck during a reap, which has the registry lock, and a
\* directory that nobody locks is not passed over.
LEMMA StuckIsReapedStep ==
  ASSUME TypeOK, RegistryInv, ReaperInv, OwnerInv, WorkerInv, LockedByOwner,
         StuckIsReaped, [Next]_vars
  PROVE  StuckIsReaped'
<1> USE DEF vars, disk, locks, reaper, ghosts, ProcessEnds, Goto, WorkerGoto, CanExamine,
            CanMake, TypeOK, StuckIsReaped
<1>1. ASSUME NEW s \in Schedulers, Scheduler(s) \/ SchedulerDies(s)
      PROVE  StuckIsReaped'
  <2> USE <1>1
  <2>1. CASE StartReaping(s)
    BY <2>1, NamesAssumption DEF StartReaping, RegistryInv, OwnerInv, WithWorker, WithoutWorker
  <2>2. CASE Remove(s)
    BY <2>2, NamesAssumption DEF Remove, RegistryInv, ReaperInv, Reaped
  <2>3. CASE RemoveFails(s)
    BY <2>3, NamesAssumption DEF RemoveFails, RegistryInv, ReaperInv, Reaped
  <2>4. CASE EraseFails(s)
    BY <2>4, NamesAssumption DEF EraseFails, RegistryInv
  <2>5. CASE Erase(s)
    BY <2>5, NamesAssumption DEF Erase
  <2>6. CASE Stop(s) \/ SchedulerDies(s)
    BY <2>6, NamesAssumption DEF Stop, SchedulerDies
  <2>7. CASE \E d \in Dirs : Make(s, d)
    BY <2>7, NamesAssumption DEF Make
  <2>8. ASSUME NEW d \in Dirs, Examine(s, d)
        PROVE  StuckIsReaped'
    <3>1. ASSUME NEW t \in Schedulers, sp[t] = "stuck", ws[t] = d
          PROVE  Free(d)
      BY <3>1, NamesAssumption DEF Free, OwnerInv, WorkerInv, LockedByOwner, WithoutWorker
    <3> QED BY <2>8, <3>1, NamesAssumption DEF Examine
  <2>9. CASE Boot(s) \/ FinishBoot(s) \/ Launch(s) \/ Own(s) \/ Submit(s) \/
              SubmitFails(s) \/ WorkerIsDone(s) \/ StartErasing(s) \/ EndJob(s)
    BY <2>9, NamesAssumption DEF Boot, FinishBoot, Launch, Own, Submit, SubmitFails,
         WorkerIsDone, StartErasing, EndJob
  <2> QED BY <2>1, <2>2, <2>3, <2>4, <2>5, <2>6, <2>7, <2>8, <2>9 DEF Scheduler, Reap
<1>2. ASSUME NEW d \in Dirs, Worker(d) \/ WorkerDies(d)
      PROVE  StuckIsReaped'
  BY <1>2 DEF Worker, StartEntering, Enter, WriteCredentials, EraseCredentials, Leave,
     WorkerDies
<1>3. CASE UNCHANGED vars
  BY <1>3
<1> QED BY <1>1, <1>2, <1>3 DEF Next

\* Lost directories are directories, so they are finitely many.
LEMMA LostIsFinite ==
  /\ IsFiniteSet(Lost)
  /\ Cardinality(Lost) \in Nat
<1>1. Lost \in SUBSET Dirs
  BY DEF Lost
<1> QED BY <1>1, NamesSuffice, FS_Subset, FS_CardinalityType

\* A step of a scheduler that lives loses no directory.
LEMMA NothingIsLost ==
  ASSUME TypeOK, RegistryInv, ReaperInv, OwnerInv, WorkerInv, LockedByOwner,
         StuckIsReaped, NEW s \in Schedulers, Scheduler(s)
  PROVE  Lost' \subseteq Lost
<1> USE DEF disk, locks, reaper, ghosts, ProcessEnds, Goto, WorkerGoto, CanExamine,
            CanMake, TypeOK, Lost, Passed
<1>1. CASE StartReaping(s)
  BY <1>1, NamesAssumption DEF StartReaping, RegistryInv
<1>2. CASE Remove(s)
  BY <1>2, NamesAssumption DEF Remove, RegistryInv, ReaperInv, Reaped
<1>3. CASE RemoveFails(s)
  BY <1>3, NamesAssumption DEF RemoveFails
<1>4. ASSUME NEW d \in Dirs, Examine(s, d)
      PROVE  Lost' \subseteq Lost
  <2>1. ~Free(d) => \/ wp[d] # "none"
                    \/ \E t \in Schedulers : ws[t] = d
    BY DEF Free, WorkerInv, LockedByOwner
  <2>2. ASSUME NEW e \in Lost'
        PROVE  e \in Lost
    <3>1. CASE e # d
      BY <2>2, <3>1, <1>4, NamesAssumption DEF Examine
    <3>2. CASE e = d
      BY <2>1, <2>2, <3>2, <1>4, NamesAssumption DEF Examine
    <3> QED BY <3>1, <3>2
  <2> QED BY <2>2
<1>5. ASSUME NEW d \in Dirs, Make(s, d)
      PROVE  Lost' \subseteq Lost
  BY <1>5, NamesAssumption DEF Make, OwnerInv, WithWorker, WithoutWorker
<1>6. CASE Submit(s)
  BY <1>6, NamesAssumption DEF Submit, OwnerInv, WithWorker, WithoutWorker
<1>7. CASE Erase(s)
  BY <1>7, NamesAssumption DEF Erase, RegistryInv, OwnerInv, WithoutWorker
<1>8. CASE EraseFails(s)
  BY <1>8, NamesAssumption DEF EraseFails
<1>9. CASE Stop(s)
  BY <1>9, NamesAssumption DEF Stop, OwnerInv, WithoutWorker, StuckIsReaped
<1>10. CASE Boot(s) \/ FinishBoot(s) \/ Launch(s) \/ Own(s) \/ SubmitFails(s) \/
            WorkerIsDone(s) \/ StartErasing(s) \/ EndJob(s)
  BY <1>10, NamesAssumption DEF Boot, FinishBoot, Launch, Own, SubmitFails, WorkerIsDone,
     StartErasing, EndJob
<1> QED BY <1>1, <1>2, <1>3, <1>4, <1>5, <1>6, <1>7, <1>8, <1>9, <1>10 DEF Scheduler, Reap

\* A scheduler that dies loses at most its workspace.
LEMMA DeathLosesOne ==
  ASSUME TypeOK, NEW s \in Schedulers, SchedulerDies(s)
  PROVE  Lost' \subseteq Lost \cup {ws[s]}
BY NamesAssumption DEF SchedulerDies, ProcessEnds, Goto, disk, TypeOK, Lost, Passed

\* A worker refers to no new directory.
LEMMA WorkerLosesNone ==
  ASSUME TypeOK, NEW d \in Dirs, Worker(d) \/ WorkerDies(d)
  PROVE  Lost' \subseteq Lost
BY DEF Worker, StartEntering, Enter, WriteCredentials, EraseCredentials, Leave, WorkerDies,
   disk, locks, reaper, ghosts, WorkerGoto, TypeOK, Lost, Passed

\* There are never more lost directories than deaths.
LEMMA LostStep ==
  ASSUME IInv, NamesInv, [Next]_vars
  PROVE  LostInv'
<1>0. /\ TypeOK /\ RegistryInv /\ ReaperInv /\ OwnerInv /\ WorkerInv
      /\ LockedByOwner /\ StuckIsReaped /\ LostInv
      /\ crashes \in Nat /\ IsFiniteSet(Lost) /\ Cardinality(Lost) \in Nat
  BY LostIsFinite, CrashAssumption DEF IInv, NamesInv, TypeOK
<1>1. ASSUME Lost' \subseteq Lost, crashes' \in {crashes, crashes + 1}
      PROVE  LostInv'
  <2>1. Cardinality(Lost') <= Cardinality(Lost) /\ Cardinality(Lost') \in Nat
    BY <1>0, <1>1, FS_Subset, FS_CardinalityType
  <2> QED BY <1>0, <1>1, <2>1 DEF LostInv
<1>2. ASSUME NEW s \in Schedulers, Scheduler(s)
      PROVE  Lost' \subseteq Lost /\ crashes' = crashes
  <2>1. Lost' \subseteq Lost
    BY <1>0, <1>2, NothingIsLost
  <2>2. crashes' = crashes
    BY <1>2 DEF Scheduler, Reap, Boot, StartReaping, Remove, RemoveFails, Examine,
       FinishBoot, Launch, Make, Own, Submit, SubmitFails, WorkerIsDone, StartErasing,
       Erase, EraseFails, EndJob, Stop, ghosts
  <2> QED BY <2>1, <2>2
<1>3. ASSUME NEW d \in Dirs, Worker(d) \/ WorkerDies(d)
      PROVE  Lost' \subseteq Lost /\ crashes' \in {crashes, crashes + 1}
  <2>1. Lost' \subseteq Lost
    BY <1>0, <1>3, WorkerLosesNone
  <2>2. crashes' \in {crashes, crashes + 1}
    BY <1>3 DEF Worker, StartEntering, Enter, WriteCredentials, EraseCredentials, Leave,
       WorkerDies, ghosts
  <2> QED BY <2>1, <2>2
<1>4. ASSUME NEW s \in Schedulers, SchedulerDies(s)
      PROVE  LostInv'
  <2>1. Lost' \in SUBSET (Lost \cup {ws[s]}) /\ crashes' = crashes + 1
    BY <1>0, <1>4, DeathLosesOne DEF SchedulerDies
  <2>2. /\ IsFiniteSet(Lost \cup {ws[s]})
        /\ Cardinality(Lost \cup {ws[s]}) \in {Cardinality(Lost), Cardinality(Lost) + 1}
    BY <1>0, FS_AddElement
  <2>3. Cardinality(Lost') <= Cardinality(Lost \cup {ws[s]}) /\ Cardinality(Lost') \in Nat
    BY <2>1, <2>2, FS_Subset, FS_CardinalityType
  <2> QED BY <1>0, <2>1, <2>2, <2>3 DEF LostInv
<1>5. CASE UNCHANGED vars
  BY <1>0, <1>1, <1>5 DEF vars, disk, locks, reaper, ghosts, Lost, Passed
<1> QED BY <1>1, <1>2, <1>3, <1>4, <1>5 DEF Next

\* A scheduler that has reaped finds a name: what is on disk, or referred to,
\* is the workspace of another scheduler or lost.
LEMMA NameIsFound ==
  ASSUME IInv, NamesInv, NEW s \in Schedulers, sp[s] = "reap", Reaped(s)
  PROVE  \E d \in Dirs : CanMake(s, d)
<1> DEFINE Others == Schedulers \ {s}
           Have == {ws[t] : t \in Others}
           f == [t \in Others |-> ws[t]]
<1>1. /\ Dirs \subseteq Have \cup Lost
           \/ \E d \in Dirs : CanMake(s, d)
  <2>1. ws[s] = None
    BY DEF IInv, OwnerInv, WithWorker, WithoutWorker
  <2>2. ASSUME NEW d \in Dirs, ~CanMake(s, d), d \notin Have
        PROVE  d \in Lost
    <3>1. \A t \in Schedulers : ws[t] # d
      BY <2>1, <2>2, NamesAssumption
    <3>2. d \in exists \/ wp[d] # "none"
      BY <2>2, <3>1 DEF CanMake
    <3>3. d \in exists => d \in Passed
      BY NamesAssumption DEF Passed, Reaped
    <3> QED BY <3>1, <3>2, <3>3 DEF Lost
  <2> QED BY <2>2
<1>2. /\ IsFiniteSet(Others) /\ Cardinality(Others) = Cardinality(Schedulers) - 1
      /\ Cardinality(Schedulers) \in Nat
  BY NamesSuffice, FS_RemoveElement, FS_CardinalityType
<1>3. f \in Surjection(Others, Have)
  BY DEF Surjection
<1>4. IsFiniteSet(Have) /\ Cardinality(Have) <= Cardinality(Others)
  <2> HIDE DEF f, Have, Others
  <2> QED BY ONLY <1>2, <1>3, FS_Surjection
<1>5. /\ IsFiniteSet(Lost) /\ Cardinality(Lost) \in Nat
      /\ Cardinality(Lost) <= MaxCrashes
  BY LostIsFinite, CrashAssumption DEF IInv, TypeOK, NamesInv, LostInv
<1> HIDE DEF Others, Have, f
<1>6. /\ IsFiniteSet(Have \cup Lost)
      /\ Cardinality(Have \cup Lost) <= Cardinality(Have) + Cardinality(Lost)
      /\ Cardinality(Have) \in Nat /\ Cardinality(Have \cup Lost) \in Nat
  <2>1. IsFiniteSet(Have \cup Lost) /\ IsFiniteSet(Have \cap Lost)
    BY <1>4, <1>5, FS_Union, FS_Intersection
  <2>2. /\ Cardinality(Have) \in Nat /\ Cardinality(Have \cup Lost) \in Nat
        /\ Cardinality(Have \cap Lost) \in Nat
    BY <1>4, <2>1, FS_CardinalityType
  <2>3. Cardinality(Have \cup Lost) =
          Cardinality(Have) + Cardinality(Lost) - Cardinality(Have \cap Lost)
    BY <1>4, <1>5, FS_Union
  <2> QED BY <1>5, <2>1, <2>2, <2>3
<1>7. ~(Dirs \subseteq Have \cup Lost)
  <2>1. SUFFICES ASSUME Dirs \in SUBSET (Have \cup Lost)
                 PROVE  FALSE
    OBVIOUS
  <2>2. Cardinality(Dirs) <= Cardinality(Have \cup Lost) /\ Cardinality(Dirs) \in Nat
    BY <1>6, <2>1, FS_Subset, FS_CardinalityType
  <2> QED BY <1>2, <1>4, <1>5, <1>6, <2>2, NamesSuffice, CrashAssumption
<1> QED BY <1>1, <1>7

---------------------------------------------------------------------------
(* The theorems. *)

\* The inductive invariant holds in every reachable state.
THEOREM Invariance == Spec => []IInv
<1>1. Init => IInv
  BY NamesAssumption, CrashAssumption
     DEF Init, IInv, TypeOK, SchedulerStates, WorkerStates, RegistryInv, ReaperInv, Reaped,
         OwnerInv, WithWorker, WithoutWorker, WorkerInv, InUseIsKept, OwnedIsKept, CredsInv,
         CredentialsAreAccountedFor
<1>2. IInv /\ [Next]_vars => IInv'
  BY TypeStep, RegistryStep, ReaperStep, OwnerStep, WorkerStep, InUseStep, OwnedStep,
     CredsStep DEF IInv
<1> QED BY <1>1, <1>2, PTL DEF Spec

\* Every variable keeps its type, and locks are held by those who can hold them.
THEOREM TypeCorrect == Spec => []TypeOK
<1>1. IInv => TypeOK
  BY DEF IInv
<1> QED BY <1>1, Invariance, PTL

\* _reap_orphans never removes a directory whose worker is in it, whichever
\* processes have died (scheduler/aws_profile.py).
THEOREM InUse == Spec => []InUseIsKept
<1>1. IInv => InUseIsKept
  BY DEF IInv
<1> QED BY <1>1, Invariance, PTL

\* _reap_orphans never removes the workspace of a live scheduler.
THEOREM Owned == Spec => []OwnedIsKept
<1>1. IInv => OwnedIsKept
  BY DEF IInv
<1> QED BY <1>1, Invariance, PTL

\* Credentials are erased before _handle_completed_job uploads or reports.
THEOREM Accounted == Spec => []CredentialsAreAccountedFor
<1>1. IInv => CredentialsAreAccountedFor
  BY DEF IInv, CredsInv
<1> QED BY <1>1, Invariance, PTL

\* The holder of registry.lock is never held up: neither by the lock of a
\* directory in use, nor for want of a name (scheduler/aws_profile.py).
THEOREM HolderGoesOn == Spec => []HolderNeverWaits
<1>1. Init => NamesInv
  <2>1. ASSUME Init
        PROVE  Lost = {} /\ crashes = 0
    BY <2>1 DEF Init, Lost, Passed
  <2> QED BY <2>1, FS_EmptySet, NamesAssumption
          DEF Init, NamesInv, LockedByOwner, StuckIsReaped, LostInv
<1>2. IInv /\ NamesInv /\ [Next]_vars => NamesInv'
  BY LockedByOwnerStep, StuckIsReapedStep, LostStep DEF IInv, NamesInv
<1>3. ASSUME IInv, NamesInv
      PROVE  HolderNeverWaits
  <2>1. ASSUME NEW s \in Schedulers, registry = s
        PROVE  \/ doomed[s] # None
               \/ sp[s] = "bootReap" /\ Reaped(s)
               \/ sp[s] \in {"own", "erase", "undoErase"}
               \/ \E d \in Dirs : CanExamine(s, d) \/ CanMake(s, d)
    <3>1. sp[s] \in {"bootReap", "reap", "own", "erase", "undoErase"}
      BY <1>3, <2>1 DEF IInv, RegistryInv
    <3>2. CASE left[s] # {}
      BY <1>3, <3>2 DEF IInv, TypeOK, CanExamine
    <3>3. CASE left[s] = {}
      BY <1>3, <3>1, <3>3, NameIsFound DEF Reaped
    <3> QED BY <3>2, <3>3
  <2>2. \A d \in Dirs : registry = d => wp[d] = "enter"
    BY <1>3 DEF IInv, RegistryInv
  <2> QED BY <2>1, <2>2 DEF HolderNeverWaits
<1> QED BY <1>1, <1>2, <1>3, Invariance, PTL DEF Spec
=============================================================================
