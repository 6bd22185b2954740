---------------------- MODULE UnmanagedScheduler_proofs ----------------------
(***************************************************************************)
(* Proofs about UnmanagedScheduler and the SupportBundle it runs, for any  *)
(* number of jobs, operations, parts, attempts and deaths.  The scheduler  *)
(* touches a bundle only by the steps named in BundleMoves, so what a      *)
(* bundle keeps is proved from those four; each further lemma is one       *)
(* conjunct of IInv over all actions of the scheduler.                     *)
(***************************************************************************)
EXTENDS UnmanagedScheduler, Integers, TLAPS

BundleMove == \/ BundleStep
              \/ step = "none" /\ \E o \in Ops : TakeOperation(o)
              \/ DropOperation
              \/ UNCHANGED bundleVars

\* The scheduler takes an operation only when it has none.
LEMMA BundleMoves ==
  ASSUME TypeOK, PlaceInv, [Next]_vars
  PROVE  BundleMove
<1> USE DEF BundleMove, vars
<1>1. CASE HandleOperation
  BY <1>1 DEF HandleOperation
<1>2. CASE FindOperation
  BY <1>2 DEF FindOperation, PlaceInv
<1>3. CASE Die
  BY <1>3 DEF Die
<1>4. CASE StartPoll \/ EndAnswered \/ EndRaised \/ FindNoOperation \/ CheckIn \/ NotStarted \/
          Submitted \/ SubmitFailed \/ UndoAnswered \/ UndoRaised \/ WorkerEnds \/ Signal \/
          StartShutdown \/ Shutdown \/ Stopped \/ (\E j \in Jobs : StartAnswered(j)) \/
          UNCHANGED vars
  BY <1>4 DEF StartPoll, EndAnswered, EndRaised, FindNoOperation, CheckIn, NotStarted,
     Submitted, SubmitFailed, UndoAnswered, UndoRaised, WorkerEnds, Signal, StartShutdown,
     Shutdown, Stopped, StartAnswered
<1> QED BY <1>1, <1>2, <1>3, <1>4 DEF Next, Poll

\* A part that arrives completes the parts up to it.
LEMMA PartArrives ==
  ASSUME BundleTypeOK, BundleInv, step = "part",
         received' = [received EXCEPT ![now] = @ \cup {part}]
  PROVE  /\ received'[now] = received[now] \cup {part}
         /\ 1..part \subseteq received'[now]
         /\ part = PartCount \/ received[now] = 1..PartCount => received'[now] = 1..PartCount
         /\ \A o \in Ops : o # now => received'[o] = received[o]
<1> USE NoOpAssumption, AttemptAssumption DEF BundleTypeOK, BundleInv, Steps
<1>1. now \in Ops /\ part \in 1..PartCount /\ received[now] \subseteq 1..PartCount
  OBVIOUS
<1>2. received'[now] = received[now] \cup {part}
  BY <1>1
<1>3. 1..part \subseteq received'[now]
  <2>1. ASSUME NEW k \in 1..part
        PROVE  k \in received'[now]
    <3>1. k \in 1..(part - 1) \/ k = part
      BY <1>1
    <3> QED BY <3>1, <1>1, <1>2
  <2> QED BY <2>1
<1>4. received'[now] \subseteq 1..PartCount
  BY <1>1, <1>2
<1>5. \A o \in Ops : o # now => received'[o] = received[o]
  OBVIOUS
<1> QED BY <1>2, <1>3, <1>4, <1>5

\* The variables of a bundle keep their types: attempts and parts stay in
\* range.
LEMMA BundleTypeStep ==
  ASSUME BundleTypeOK, BundleInv, BundleMove
  PROVE  BundleTypeOK'
<1> USE NoOpAssumption, AttemptAssumption DEF remote, upload, BundleTypeOK, Steps, Requests, BundleInv
<1>1. CASE Answered
  <2> USE <1>1
  <2>1. CASE step = "start"
    BY <2>1 DEF Answered, CarryOut, EndAs, AfterAnswer
  <2>2. CASE step = "session"
    BY <2>2 DEF Answered, CarryOut, EndAs, AfterAnswer
  <2>3. CASE step = "part"
    BY <2>3 DEF Answered, CarryOut, EndAs, AfterAnswer
  <2>4. CASE step = "complete"
    BY <2>4 DEF Answered, CarryOut, EndAs, AfterAnswer
  <2>5. CASE step = "succeed"
    BY <2>5 DEF Answered, CarryOut, EndAs, AfterAnswer
  <2>6. CASE step = "fail"
    BY <2>6 DEF Answered, CarryOut, EndAs, AfterAnswer
  <2> QED BY <2>1, <2>2, <2>3, <2>4, <2>5, <2>6 DEF Answered, Requests, Steps
<1>2. CASE Unanswered
  <2> USE <1>2
  <2>1. CASE step = "start"
    BY <2>1 DEF Unanswered, CarryOut, EndAs, AfterRaise
  <2>2. CASE step = "session"
    BY <2>2 DEF Unanswered, CarryOut, EndAs, AfterRaise
  <2>3. CASE step = "part"
    BY <2>3 DEF Unanswered, CarryOut, EndAs, AfterRaise
  <2>4. CASE step = "complete"
    BY <2>4 DEF Unanswered, CarryOut, EndAs, AfterRaise
  <2>5. CASE step = "succeed"
    BY <2>5 DEF Unanswered, CarryOut, EndAs, AfterRaise
  <2>6. CASE step = "fail"
    BY <2>6 DEF Unanswered, CarryOut, EndAs, AfterRaise
  <2> QED BY <2>1, <2>2, <2>3, <2>4, <2>5, <2>6 DEF Unanswered, Requests, Steps
<1>3. CASE Rejected
  <2> USE <1>3
  <2>1. CASE step = "start"
    BY <2>1 DEF Rejected, CarryOut, EndAs, AfterRaise
  <2>2. CASE step = "session"
    BY <2>2 DEF Rejected, CarryOut, EndAs, AfterRaise
  <2>3. CASE step = "part"
    BY <2>3 DEF Rejected, CarryOut, EndAs, AfterRaise
  <2>4. CASE step = "complete"
    BY <2>4 DEF Rejected, CarryOut, EndAs, AfterRaise
  <2>5. CASE step = "succeed"
    BY <2>5 DEF Rejected, CarryOut, EndAs, AfterRaise
  <2>6. CASE step = "fail"
    BY <2>6 DEF Rejected, CarryOut, EndAs, AfterRaise
  <2> QED BY <2>1, <2>2, <2>3, <2>4, <2>5, <2>6 DEF Rejected, Requests, Steps
<1>4. CASE Archive
  <2>1. step' \in Steps /\ part' \in 1..(PartCount + 1)
    BY <1>4 DEF Archive
  <2>2. zip' \in BOOLEAN
    BY <1>4, Zenon DEF Archive
  <2> QED BY <1>4, <2>1, <2>2 DEF Archive
<1>5. CASE Remove
  BY <1>5 DEF Remove
<1>6. CASE step = "none" /\ \E o \in Ops : TakeOperation(o)
  BY <1>6 DEF TakeOperation
<1>7. CASE DropOperation
  <2> USE <1>7 DEF DropOperation
  <2>1. unended' \in SUBSET Ops
    OBVIOUS
  <2>2. tries' \in 1..MaxAttempts
    OBVIOUS
  <2>3. zip' \in BOOLEAN
    OBVIOUS
  <2> QED BY <2>1, <2>2, <2>3
<1>8. CASE UNCHANGED bundleVars
  BY <1>8 DEF bundleVars
<1> QED BY <1>1, <1>2, <1>3, <1>4, <1>5, <1>6, <1>7, <1>8 DEF BundleMove, BundleStep

\* Parts are sent in order; an operation is let go of when its end was tried.
LEMMA BundleStepInv ==
  ASSUME BundleTypeOK, BundleInv, BundleMove
  PROVE  BundleInv'
<1> USE NoOpAssumption, AttemptAssumption DEF remote, upload, BundleTypeOK, Steps, Requests, BundleInv
<1>1. CASE Answered
  <2> USE <1>1
  <2>1. CASE step = "start"
    BY <2>1 DEF Answered, CarryOut, EndAs, AfterAnswer
  <2>2. CASE step = "session"
    BY <2>2 DEF Answered, CarryOut, EndAs, AfterAnswer
  <2>3. CASE step = "part"
    BY <2>3, PartArrives DEF Answered, CarryOut, EndAs, AfterAnswer
  <2>4. CASE step = "complete"
    BY <2>4 DEF Answered, CarryOut, EndAs, AfterAnswer
  <2>5. CASE step = "succeed"
    BY <2>5 DEF Answered, CarryOut, EndAs, AfterAnswer
  <2>6. CASE step = "fail"
    BY <2>6 DEF Answered, CarryOut, EndAs, AfterAnswer
  <2> QED BY <2>1, <2>2, <2>3, <2>4, <2>5, <2>6 DEF Answered, Requests, Steps
<1>2. CASE Unanswered
  <2> USE <1>2
  <2>1. CASE step = "start"
    BY <2>1 DEF Unanswered, CarryOut, EndAs, AfterRaise
  <2>2. CASE step = "session"
    BY <2>2 DEF Unanswered, CarryOut, EndAs, AfterRaise
  <2>3. CASE step = "part"
    BY <2>3, PartArrives DEF Unanswered, CarryOut, EndAs, AfterRaise
  <2>4. CASE step = "complete"
    BY <2>4 DEF Unanswered, CarryOut, EndAs, AfterRaise
  <2>5. CASE step = "succeed"
    BY <2>5 DEF Unanswered, CarryOut, EndAs, AfterRaise
  <2>6. CASE step = "fail"
    BY <2>6 DEF Unanswered, CarryOut, EndAs, AfterRaise
  <2> QED BY <2>1, <2>2, <2>3, <2>4, <2>5, <2>6 DEF Unanswered, Requests, Steps
<1>3. CASE Rejected
  <2> USE <1>3
  <2>1. CASE step = "start"
    BY <2>1 DEF Rejected, CarryOut, EndAs, AfterRaise
  <2>2. CASE step = "session"
    BY <2>2 DEF Rejected, CarryOut, EndAs, AfterRaise
  <2>3. CASE step = "part"
    BY <2>3, PartArrives DEF Rejected, CarryOut, EndAs, AfterRaise
  <2>4. CASE step = "complete"
    BY <2>4 DEF Rejected, CarryOut, EndAs, AfterRaise
  <2>5. CASE step = "succeed"
    BY <2>5 DEF Rejected, CarryOut, EndAs, AfterRaise
  <2>6. CASE step = "fail"
    BY <2>6 DEF Rejected, CarryOut, EndAs, AfterRaise
  <2> QED BY <2>1, <2>2, <2>3, <2>4, <2>5, <2>6 DEF Rejected, Requests, Steps
<1>4. CASE Archive
  BY <1>4 DEF Archive
<1>5. CASE Remove
  BY <1>5 DEF Remove
<1>6. CASE step = "none" /\ \E o \in Ops : TakeOperation(o)
  BY <1>6 DEF TakeOperation
<1>7. CASE DropOperation
  BY <1>7 DEF DropOperation
<1>8. CASE UNCHANGED bundleVars
  BY <1>8 DEF bundleVars
<1> QED BY <1>1, <1>2, <1>3, <1>4, <1>5, <1>6, <1>7, <1>8 DEF BundleMove, BundleStep

\* Success is requested only after the last part.
LEMMA WholeStep ==
  ASSUME BundleTypeOK, BundleInv, SucceededIsWhole, BundleMove
  PROVE  SucceededIsWhole'
<1> USE NoOpAssumption, AttemptAssumption DEF remote, upload, BundleTypeOK, Steps, Requests, BundleInv, SucceededIsWhole
<1>1. CASE Answered
  <2> USE <1>1
  <2>1. CASE step = "start"
    BY <2>1 DEF Answered, CarryOut, EndAs, AfterAnswer
  <2>2. CASE step = "session"
    BY <2>2 DEF Answered, CarryOut, EndAs, AfterAnswer
  <2>3. CASE step = "part"
    BY <2>3, PartArrives DEF Answered, CarryOut, EndAs, AfterAnswer
  <2>4. CASE step = "complete"
    BY <2>4 DEF Answered, CarryOut, EndAs, AfterAnswer
  <2>5. CASE step = "succeed"
    BY <2>5 DEF Answered, CarryOut, EndAs, AfterAnswer
  <2>6. CASE step = "fail"
    BY <2>6 DEF Answered, CarryOut, EndAs, AfterAnswer
  <2> QED BY <2>1, <2>2, <2>3, <2>4, <2>5, <2>6 DEF Answered, Requests, Steps
<1>2. CASE Unanswered
  <2> USE <1>2
  <2>1. CASE step = "start"
    BY <2>1 DEF Unanswered, CarryOut, EndAs, AfterRaise
  <2>2. CASE step = "session"
    BY <2>2 DEF Unanswered, CarryOut, EndAs, AfterRaise
  <2>3. CASE step = "part"
    BY <2>3, PartArrives DEF Unanswered, CarryOut, EndAs, AfterRaise
  <2>4. CASE step = "complete"
    BY <2>4 DEF Unanswered, CarryOut, EndAs, AfterRaise
  <2>5. CASE step = "succeed"
    BY <2>5 DEF Unanswered, CarryOut, EndAs, AfterRaise
  <2>6. CASE step = "fail"
    BY <2>6 DEF Unanswered, CarryOut, EndAs, AfterRaise
  <2> QED BY <2>1, <2>2, <2>3, <2>4, <2>5, <2>6 DEF Unanswered, Requests, Steps
<1>3. CASE Rejected
  <2> USE <1>3
  <2>1. CASE step = "start"
    BY <2>1 DEF Rejected, CarryOut, EndAs, AfterRaise
  <2>2. CASE step = "session"
    BY <2>2 DEF Rejected, CarryOut, EndAs, AfterRaise
  <2>3. CASE step = "part"
    BY <2>3, PartArrives DEF Rejected, CarryOut, EndAs, AfterRaise
  <2>4. CASE step = "complete"
    BY <2>4 DEF Rejected, CarryOut, EndAs, AfterRaise
  <2>5. CASE step = "succeed"
    BY <2>5 DEF Rejected, CarryOut, EndAs, AfterRaise
  <2>6. CASE step = "fail"
    BY <2>6 DEF Rejected, CarryOut, EndAs, AfterRaise
  <2> QED BY <2>1, <2>2, <2>3, <2>4, <2>5, <2>6 DEF Rejected, Requests, Steps
<1>4. CASE Archive
  BY <1>4 DEF Archive
<1>5. CASE Remove
  BY <1>5 DEF Remove
<1>6. CASE step = "none" /\ \E o \in Ops : TakeOperation(o)
  BY <1>6 DEF TakeOperation
<1>7. CASE DropOperation
  BY <1>7 DEF DropOperation
<1>8. CASE UNCHANGED bundleVars
  BY <1>8 DEF bundleVars
<1> QED BY <1>1, <1>2, <1>3, <1>4, <1>5, <1>6, <1>7, <1>8 DEF BundleMove, BundleStep

\* An operation that is let go of is ended, or nobody knows.
LEMMA EndedStep ==
  ASSUME BundleTypeOK, BundleInv, StartedIsEnded, BundleMove
  PROVE  StartedIsEnded'
<1> USE NoOpAssumption, AttemptAssumption DEF remote, upload, BundleTypeOK, Steps, Requests, BundleInv, StartedIsEnded
<1>1. CASE Answered
  <2> USE <1>1
  <2>1. CASE step = "start"
    BY <2>1 DEF Answered, CarryOut, EndAs, AfterAnswer
  <2>2. CASE step = "session"
    BY <2>2 DEF Answered, CarryOut, EndAs, AfterAnswer
  <2>3. CASE step = "part"
    BY <2>3, PartArrives DEF Answered, CarryOut, EndAs, AfterAnswer
  <2>4. CASE step = "complete"
    BY <2>4 DEF Answered, CarryOut, EndAs, AfterAnswer
  <2>5. CASE step = "succeed"
    BY <2>5 DEF Answered, CarryOut, EndAs, AfterAnswer
  <2>6. CASE step = "fail"
    BY <2>6 DEF Answered, CarryOut, EndAs, AfterAnswer
  <2> QED BY <2>1, <2>2, <2>3, <2>4, <2>5, <2>6 DEF Answered, Requests, Steps
<1>2. CASE Unanswered
  <2> USE <1>2
  <2>1. CASE step = "start"
    BY <2>1 DEF Unanswered, CarryOut, EndAs, AfterRaise
  <2>2. CASE step = "session"
    BY <2>2 DEF Unanswered, CarryOut, EndAs, AfterRaise
  <2>3. CASE step = "part"
    BY <2>3, PartArrives DEF Unanswered, CarryOut, EndAs, AfterRaise
  <2>4. CASE step = "complete"
    BY <2>4 DEF Unanswered, CarryOut, EndAs, AfterRaise
  <2>5. CASE step = "succeed"
    BY <2>5 DEF Unanswered, CarryOut, EndAs, AfterRaise
  <2>6. CASE step = "fail"
    BY <2>6 DEF Unanswered, CarryOut, EndAs, AfterRaise
  <2> QED BY <2>1, <2>2, <2>3, <2>4, <2>5, <2>6 DEF Unanswered, Requests, Steps
<1>3. CASE Rejected
  <2> USE <1>3
  <2>1. CASE step = "start"
    BY <2>1 DEF Rejected, CarryOut, EndAs, AfterRaise
  <2>2. CASE step = "session"
    BY <2>2 DEF Rejected, CarryOut, EndAs, AfterRaise
  <2>3. CASE step = "part"
    BY <2>3, PartArrives DEF Rejected, CarryOut, EndAs, AfterRaise
  <2>4. CASE step = "complete"
    BY <2>4 DEF Rejected, CarryOut, EndAs, AfterRaise
  <2>5. CASE step = "succeed"
    BY <2>5 DEF Rejected, CarryOut, EndAs, AfterRaise
  <2>6. CASE step = "fail"
    BY <2>6 DEF Rejected, CarryOut, EndAs, AfterRaise
  <2> QED BY <2>1, <2>2, <2>3, <2>4, <2>5, <2>6 DEF Rejected, Requests, Steps
<1>4. CASE Archive
  BY <1>4 DEF Archive
<1>5. CASE Remove
  BY <1>5 DEF Remove
<1>6. CASE step = "none" /\ \E o \in Ops : TakeOperation(o)
  BY <1>6 DEF TakeOperation
<1>7. CASE DropOperation
  BY <1>7 DEF DropOperation
<1>8. CASE UNCHANGED bundleVars
  BY <1>8 DEF bundleVars
<1> QED BY <1>1, <1>2, <1>3, <1>4, <1>5, <1>6, <1>7, <1>8 DEF BundleMove, BundleStep

\* Every step keeps the types; a death starts below the bound.
LEMMA TypeStep ==
  ASSUME TypeOK, BundleInv, PlaceInv, WorkInv, [Next]_vars
  PROVE  TypeOK'
<1> USE DEF vars, bundleVars, remote, upload, bhe, local, history, Goto, AfterEnd,
            ClearRunningJob, AcceptStart, AcceptEnd, Verdict, TypeOK, PCs, PlaceInv,
            WorkInv
<1>0. BundleTypeOK'
  BY BundleMoves, BundleTypeStep DEF TypeOK
<1>1. CASE EndAnswered
  BY <1>1, <1>0, NoJobAssumption, CrashAssumption DEF EndAnswered
<1>2. CASE EndRaised
  BY <1>2, <1>0, NoJobAssumption, CrashAssumption DEF EndRaised
<1>3. CASE NotStarted
  BY <1>3, <1>0, NoJobAssumption, CrashAssumption DEF NotStarted
<1>4. CASE Submitted
  BY <1>4, <1>0, NoJobAssumption, CrashAssumption DEF Submitted
<1>5. CASE UndoAnswered
  BY <1>5, <1>0, NoJobAssumption, CrashAssumption DEF UndoAnswered
<1>6. CASE UndoRaised
  BY <1>6, <1>0, NoJobAssumption, CrashAssumption DEF UndoRaised
<1>7. CASE WorkerEnds
  BY <1>7, <1>0, NoJobAssumption, CrashAssumption DEF WorkerEnds
<1>8. CASE Die
  <2> USE <1>8, CrashAssumption DEF Die
  <2>1. crashes' \in 0..MaxCrashes /\ lost' \in SUBSET Jobs
    OBVIOUS
  <2>2. pc' \in PCs /\ exit' \in BOOLEAN
    OBVIOUS
  <2>3. future' = "none" /\ jobRunning' = NoJob
    OBVIOUS
  <2> QED BY <1>0, <2>1, <2>2, <2>3
<1>9. CASE \E j \in Jobs : StartAnswered(j)
  BY <1>9, <1>0, NoJobAssumption, CrashAssumption DEF StartAnswered
<1>10. CASE StartPoll \/ FindOperation \/ FindNoOperation \/ HandleOperation \/ CheckIn
  BY <1>10, <1>0, NoJobAssumption, CrashAssumption
  DEF StartPoll, FindOperation, FindNoOperation, HandleOperation, CheckIn
<1>11. CASE SubmitFailed \/ Signal \/ StartShutdown
  BY <1>11, <1>0, NoJobAssumption, CrashAssumption DEF SubmitFailed, Signal, StartShutdown
<1>12. CASE Shutdown \/ Stopped \/ UNCHANGED vars
  BY <1>12, <1>0, NoJobAssumption, CrashAssumption DEF Shutdown, Stopped
<1> QED
  BY <1>1, <1>2, <1>3, <1>4, <1>5, <1>6, <1>7, <1>8, <1>9, <1>10, <1>11, <1>12 DEF Next, Poll

\* A job is in hand from its start to its report, and an operation only
\* between polls.
LEMMA PlaceStep ==
  ASSUME TypeOK, PlaceInv, [Next]_vars
  PROVE  PlaceInv'
<1> USE DEF vars, bundleVars, remote, upload, bhe, local, history, Goto, AfterEnd,
            ClearRunningJob, AcceptStart, TypeOK, PlaceInv, PCs
<1>1. CASE EndRaised
  BY <1>1, NoJobAssumption DEF EndRaised
<1>2. CASE FindOperation
  BY <1>2, NoJobAssumption DEF FindOperation, TakeOperation
<1>3. CASE HandleOperation
  BY <1>3, NoJobAssumption DEF HandleOperation
<1>4. CASE Submitted
  BY <1>4, NoJobAssumption DEF Submitted
<1>5. CASE WorkerEnds
  BY <1>5, NoJobAssumption DEF WorkerEnds
<1>6. CASE Shutdown
  BY <1>6, NoJobAssumption DEF Shutdown
<1>7. CASE Die
  BY <1>7, NoJobAssumption DEF Die, DropOperation
<1>8. CASE \E j \in Jobs : StartAnswered(j)
  BY <1>8, NoJobAssumption DEF StartAnswered
<1>9. CASE StartPoll \/ EndAnswered \/ FindNoOperation \/ CheckIn \/ NotStarted \/
          SubmitFailed \/ UndoAnswered \/ UndoRaised \/ Signal \/ StartShutdown \/
          Stopped \/ UNCHANGED vars
  BY <1>9, NoJobAssumption DEF StartPoll, EndAnswered, FindNoOperation, CheckIn, NotStarted, SubmitFailed,
         UndoAnswered, UndoRaised, Signal, StartShutdown, Stopped
<1> QED BY <1>1, <1>2, <1>3, <1>4, <1>5, <1>6, <1>7, <1>8, <1>9 DEF Next, Poll

\* Only a start gives BHE a current job, and only when no other is in hand.
LEMMA CurrentStep ==
  ASSUME TypeOK, PlaceInv, CurrentInv, [Next]_vars
  PROVE  CurrentInv'
<1> USE DEF vars, bundleVars, remote, upload, bhe, local, history, Goto, AfterEnd,
            ClearRunningJob, AcceptStart, AcceptEnd, Verdict, TypeOK, PlaceInv,
            CurrentInv
<1>1. CASE EndAnswered
  BY <1>1, NoJobAssumption DEF EndAnswered
<1>2. CASE EndRaised
  BY <1>2, NoJobAssumption DEF EndRaised
<1>3. CASE NotStarted
  BY <1>3, NoJobAssumption DEF NotStarted
<1>4. CASE UndoAnswered
  BY <1>4, NoJobAssumption DEF UndoAnswered
<1>5. CASE UndoRaised
  BY <1>5, NoJobAssumption DEF UndoRaised
<1>6. CASE WorkerEnds
  BY <1>6, NoJobAssumption DEF WorkerEnds
<1>7. CASE Die
  BY <1>7, NoJobAssumption DEF Die
<1>8. CASE \E j \in Jobs : StartAnswered(j)
  BY <1>8, NoJobAssumption DEF StartAnswered
<1>9. CASE StartPoll \/ FindOperation \/ FindNoOperation \/ HandleOperation \/ CheckIn \/
          Submitted \/ SubmitFailed \/ Signal \/ StartShutdown \/ Shutdown \/ Stopped \/
          UNCHANGED vars
  BY <1>9, NoJobAssumption DEF StartPoll, FindOperation, FindNoOperation, HandleOperation, CheckIn, Submitted,
         SubmitFailed, Signal, StartShutdown, Shutdown, Stopped
<1> QED BY <1>1, <1>2, <1>3, <1>4, <1>5, <1>6, <1>7, <1>8, <1>9 DEF Next, Poll

\* A job that is started was never submitted, and what its worker did is what
\* the scheduler has of it.
LEMMA WorkStep ==
  ASSUME TypeOK, PlaceInv, CurrentInv, WorkInv, [Next]_vars
  PROVE  WorkInv'
<1> USE DEF vars, bundleVars, remote, upload, bhe, local, history, Goto, AfterEnd,
            ClearRunningJob, AcceptStart, AcceptEnd, Verdict, TypeOK, PlaceInv,
            CurrentInv, WorkInv
<1>1. CASE EndAnswered
  BY <1>1, NoJobAssumption DEF EndAnswered
<1>2. CASE EndRaised
  BY <1>2, NoJobAssumption DEF EndRaised
<1>3. CASE NotStarted
  BY <1>3, NoJobAssumption DEF NotStarted
<1>4. CASE Submitted
  BY <1>4, NoJobAssumption DEF Submitted
<1>5. CASE UndoAnswered
  BY <1>5, NoJobAssumption DEF UndoAnswered
<1>6. CASE UndoRaised
  BY <1>6, NoJobAssumption DEF UndoRaised
<1>7. CASE WorkerEnds
  BY <1>7, NoJobAssumption DEF WorkerEnds
<1>8. CASE Die
  BY <1>8, NoJobAssumption DEF Die
<1>9. CASE \E j \in Jobs : StartAnswered(j)
  BY <1>9, NoJobAssumption DEF StartAnswered
<1>10. CASE StartPoll \/ FindOperation \/ FindNoOperation \/ HandleOperation \/ CheckIn \/
          SubmitFailed \/ Signal \/ StartShutdown \/ Shutdown \/ Stopped \/ UNCHANGED
          vars
  BY <1>10, NoJobAssumption DEF StartPoll, FindOperation, FindNoOperation, HandleOperation, CheckIn,
         SubmitFailed, Signal, StartShutdown, Shutdown, Stopped
<1> QED BY <1>1, <1>2, <1>3, <1>4, <1>5, <1>6, <1>7, <1>8, <1>9, <1>10 DEF Next, Poll

\* End reaches only the job in hand, whose verdict it carries, or no job.
LEMMA HonestStep ==
  ASSUME TypeOK, PlaceInv, CurrentInv, WorkInv, HonestStatus, [Next]_vars
  PROVE  HonestStatus'
<1> USE DEF vars, bundleVars, remote, upload, bhe, local, history, Goto, AfterEnd,
            ClearRunningJob, AcceptStart, AcceptEnd, Verdict, TypeOK, PlaceInv,
            CurrentInv, WorkInv, HonestStatus
<1>1. CASE EndAnswered
  BY <1>1, NoJobAssumption DEF EndAnswered
<1>2. CASE EndRaised
  BY <1>2, NoJobAssumption DEF EndRaised
<1>3. CASE NotStarted
  BY <1>3, NoJobAssumption DEF NotStarted
<1>4. CASE UndoAnswered
  BY <1>4, NoJobAssumption DEF UndoAnswered
<1>5. CASE UndoRaised
  BY <1>5, NoJobAssumption DEF UndoRaised
<1>6. CASE WorkerEnds
  BY <1>6, NoJobAssumption DEF WorkerEnds
<1>7. CASE \E j \in Jobs : StartAnswered(j)
  BY <1>7, NoJobAssumption DEF StartAnswered
<1>8. CASE StartPoll \/ FindOperation \/ FindNoOperation \/ HandleOperation \/ CheckIn \/
          Submitted \/ SubmitFailed \/ Signal \/ StartShutdown \/ Shutdown \/ Die \/
          Stopped \/ UNCHANGED vars
  BY <1>8, NoJobAssumption DEF StartPoll, FindOperation, FindNoOperation, HandleOperation, CheckIn, Submitted,
         SubmitFailed, Signal, StartShutdown, Shutdown, Die, Stopped
<1> QED BY <1>1, <1>2, <1>3, <1>4, <1>5, <1>6, <1>7, <1>8 DEF Next, Poll

\* A job leaves the process ended, or as one of the four events that lose it.
LEMMA KnownStep ==
  ASSUME TypeOK, PlaceInv, CurrentInv, RunningIsKnown, [Next]_vars
  PROVE  RunningIsKnown'
<1> USE DEF vars, bundleVars, remote, upload, bhe, local, history, Goto, AfterEnd,
            ClearRunningJob, AcceptStart, AcceptEnd, Verdict, TypeOK, PlaceInv,
            CurrentInv, RunningIsKnown
<1>1. CASE EndAnswered
  BY <1>1, NoJobAssumption DEF EndAnswered
<1>2. CASE EndRaised
  BY <1>2, NoJobAssumption DEF EndRaised
<1>3. CASE NotStarted
  BY <1>3, NoJobAssumption DEF NotStarted
<1>4. CASE UndoAnswered
  BY <1>4, NoJobAssumption DEF UndoAnswered
<1>5. CASE UndoRaised
  BY <1>5, NoJobAssumption DEF UndoRaised
<1>6. CASE WorkerEnds
  BY <1>6, NoJobAssumption DEF WorkerEnds
<1>7. CASE Die
  BY <1>7, NoJobAssumption DEF Die
<1>8. CASE \E j \in Jobs : StartAnswered(j)
  BY <1>8, NoJobAssumption DEF StartAnswered
<1>9. CASE StartPoll \/ FindOperation \/ FindNoOperation \/ HandleOperation \/ CheckIn \/
          Submitted \/ SubmitFailed \/ Signal \/ StartShutdown \/ Shutdown \/ Stopped \/
          UNCHANGED vars
  BY <1>9, NoJobAssumption DEF StartPoll, FindOperation, FindNoOperation, HandleOperation, CheckIn, Submitted,
         SubmitFailed, Signal, StartShutdown, Shutdown, Stopped
<1> QED BY <1>1, <1>2, <1>3, <1>4, <1>5, <1>6, <1>7, <1>8, <1>9 DEF Next, Poll

\* A worker is submitted once after each start, and only available jobs are
\* started.
LEMMA OnceStep ==
  ASSUME TypeOK, PlaceInv, WorkInv, CollectedOnce, [Next]_vars
  PROVE  CollectedOnce'
<1> USE DEF vars, bundleVars, remote, upload, bhe, local, history, Goto, AfterEnd,
            ClearRunningJob, TypeOK, PlaceInv, WorkInv, CollectedOnce
<1>1. CASE Submitted
  BY <1>1, NoJobAssumption DEF Submitted
<1>2. CASE StartPoll \/ EndAnswered \/ EndRaised \/ FindOperation \/ FindNoOperation \/
          HandleOperation \/ CheckIn \/ NotStarted \/ SubmitFailed \/ UndoAnswered \/
          UndoRaised \/ WorkerEnds \/ Signal \/ StartShutdown \/ Shutdown \/ Die \/
          Stopped \/ (\E j \in Jobs : StartAnswered(j)) \/ UNCHANGED vars
  BY <1>2, NoJobAssumption DEF StartPoll, EndAnswered, EndRaised, FindOperation, FindNoOperation,
         HandleOperation, CheckIn, NotStarted, SubmitFailed, UndoAnswered, UndoRaised,
         WorkerEnds, Signal, StartShutdown, Shutdown, Die, Stopped, StartAnswered
<1> QED BY <1>1, <1>2 DEF Next, Poll

---------------------------------------------------------------------------
(* The theorems. *)

\* The initial values have their types.
LEMMA InitTypes ==
  ASSUME Init
  PROVE  TypeOK
<1> USE DEF Init, BundleInit
<1>1. op \in [Ops -> {"queued", "running", "succeeded", "failed"}]
      /\ received \in [Ops -> SUBSET (1..PartCount)]
  OBVIOUS
<1>2. session \in 0..(PartCount + 1) /\ part \in 1..(PartCount + 1) /\ tries \in 1..MaxAttempts
  BY AttemptAssumption
<1>3. zip \in BOOLEAN /\ step \in Steps
  BY DEF Steps
<1>4. jst \in [Jobs -> {"available", "running", "complete", "failed"}]
      /\ result \in [Jobs -> {"none", "ok", "failed"}]
  OBVIOUS
<1>5. submits \in [Jobs -> 0..2] /\ crashes \in 0..MaxCrashes
  BY CrashAssumption
<1>6. pc \in PCs
  BY DEF PCs
<1>7. exit \in BOOLEAN
  OBVIOUS
<1> QED BY <1>1, <1>2, <1>3, <1>4, <1>5, <1>6, <1>7, NoOpAssumption, NoJobAssumption
        DEF TypeOK, BundleTypeOK

\* The inductive invariant holds in every reachable state.
THEOREM Invariance == Spec => []IInv
<1>1. ASSUME Init
      PROVE  IInv
  <2> USE <1>1 DEF Init, BundleInit
  <2>1. BundleInv /\ SucceededIsWhole /\ StartedIsEnded
    BY NoOpAssumption DEF BundleInv, SucceededIsWhole, StartedIsEnded
  <2>2. PlaceInv /\ CurrentInv /\ WorkInv
    BY NoJobAssumption DEF PlaceInv, CurrentInv, WorkInv
  <2>3. HonestStatus /\ RunningIsKnown /\ CollectedOnce
    BY NoJobAssumption DEF HonestStatus, RunningIsKnown, CollectedOnce
  <2> QED BY <2>1, <2>2, <2>3, InitTypes DEF IInv
<1>2. ASSUME IInv, [Next]_vars
      PROVE  IInv'
  <2> USE <1>2
  <2>1. BundleTypeOK /\ BundleMove
    BY BundleMoves DEF IInv, TypeOK
  <2>2. BundleInv' /\ SucceededIsWhole' /\ StartedIsEnded'
    BY <2>1, BundleStepInv, WholeStep, EndedStep DEF IInv
  <2>3. TypeOK' /\ PlaceInv' /\ CurrentInv' /\ WorkInv'
    BY TypeStep, PlaceStep, CurrentStep, WorkStep DEF IInv
  <2>4. HonestStatus' /\ RunningIsKnown' /\ CollectedOnce'
    BY HonestStep, KnownStep, OnceStep DEF IInv
  <2> QED BY <2>2, <2>3, <2>4 DEF IInv
<1> QED BY <1>1, <1>2, PTL DEF Spec

\* Every variable keeps its type.
THEOREM TypeCorrect == Spec => []TypeOK
<1>1. IInv => TypeOK
  BY DEF IInv
<1> QED BY <1>1, Invariance, PTL

\* A support bundle reported as succeeded has every part of its archive at
\* BHE (upload_support_bundle).
THEOREM Whole == Spec => []SucceededIsWhole
<1>1. IInv => SucceededIsWhole
  BY DEF IInv
<1> QED BY <1>1, Invariance, PTL

\* _send_support_bundle lets go of a started operation only after it tried to
\* end it.
THEOREM Ended == Spec => []StartedIsEnded
<1>1. IInv => StartedIsEnded
  BY DEF IInv
<1> QED BY <1>1, Invariance, PTL

\* The outcome BHE has of an unmanaged job is that of its worker
\* (_handle_completed_job).
THEOREM Honest == Spec => []HonestStatus
<1>1. IInv => HonestStatus
  BY DEF IInv
<1> QED BY <1>1, Invariance, PTL

\* A job that runs at BHE is in hand, or one of four named events lost it.
THEOREM Known == Spec => []RunningIsKnown
<1>1. IInv => RunningIsKnown
  BY DEF IInv
<1> QED BY <1>1, Invariance, PTL

\* No unmanaged job is collected twice.
THEOREM Once == Spec => []CollectedOnce
<1>1. IInv => CollectedOnce
  BY DEF IInv
<1> QED BY <1>1, Invariance, PTL

---------------------------------------------------------------------------
(* How long a shutdown takes. *)

\* Steps of a bundle still to come, the one in hand included.
StepsLeft == CASE step = "start"    -> PartCount + 7
               [] step = "archive"  -> PartCount + 6
               [] step = "session"  -> PartCount + 5
               [] step = "part"     -> PartCount + 5 - part
               [] step = "complete" -> 4
               [] step = "succeed"  -> 3
               [] step = "fail"     -> 2
               [] step = "remove"   -> 1
               [] step = "none"     -> 0

\* Attempts that a bundle may still need: every request can be retried.
BundleWork == StepsLeft * MaxAttempts - (tries - 1)

\* Steps that a process and its worker may still take once a signal has come:
\* most for a bundle not yet begun, bundle for the one in hand.
ProcessWork(most, bundle) ==
  (IF future = "running" THEN 1 ELSE 0)
  + CASE pc = "end"      -> most + 6
      [] pc = "manage"   -> most + 5
      [] pc = "bundle"   -> bundle + 4
      [] pc = "jobs"     -> 7
      [] pc = "submit"   -> 6
      [] pc = "undo"     -> 5
      [] pc = "loop"     -> 4
      [] pc = "shutdown" -> IF future = "none" THEN 1 ELSE 3
      [] pc = "last"     -> 2
      [] pc = "stopped"  -> 0

ShutdownWork == ProcessWork((PartCount + 7) * MaxAttempts, BundleWork)

\* An attempt is counted only while there is a request.
TriesInv == step \notin Requests => tries = 1

LEMMA ProductsAreMonotone ==
  ASSUME NEW i \in Nat, NEW p \in Nat, NEW q \in Nat, p < q
  PROVE  p * i + i <= q * i
OBVIOUS

LEMMA StepsLeftIsSmall ==
  BundleTypeOK /\ BundleInv => StepsLeft \in 0..(PartCount + 7)
<1> USE AttemptAssumption DEF BundleTypeOK, BundleInv, Steps, StepsLeft
<1>1. CASE step = "part"
  BY <1>1
<1>2. CASE step # "part"
  BY <1>2
<1> QED BY <1>1, <1>2

\* A step that is not a retry comes nearer to the end.
LEMMA StepsGoOn ==
  ASSUME BundleTypeOK, BundleInv, TriesInv, BundleStep
  PROVE  \/ StepsLeft' < StepsLeft /\ tries' = 1
         \/ StepsLeft' = StepsLeft /\ tries' = tries + 1 /\ tries' <= MaxAttempts
<1> USE AttemptAssumption DEF BundleTypeOK, BundleInv, TriesInv, Steps, Requests, StepsLeft
<1>1. CASE Answered
  BY <1>1 DEF Answered, AfterAnswer
<1>2. CASE Unanswered
  BY <1>2 DEF Unanswered, AfterRaise
<1>3. CASE Rejected
  BY <1>3 DEF Rejected, AfterRaise
<1>4. CASE Archive
  BY <1>4 DEF Archive
<1>5. CASE Remove
  BY <1>5 DEF Remove
<1> QED BY <1>1, <1>2, <1>3, <1>4, <1>5 DEF BundleStep

BundleWorkInRange ==
  /\ BundleWork \in Int
  /\ BundleWork <= (PartCount + 7) * MaxAttempts
  /\ step # "none" => BundleWork > 0

LEMMA BundleWorkIsBounded ==
  BundleTypeOK /\ BundleInv => BundleWorkInRange
<1> SUFFICES ASSUME BundleTypeOK, BundleInv
             PROVE  BundleWorkInRange
  OBVIOUS
<1> DEFINE k == StepsLeft
           m == MaxAttempts
           n == PartCount + 7
<1>1. k \in Nat /\ k <= n /\ m \in Nat /\ m > 0 /\ n \in Nat /\ tries \in 1..m
  BY StepsLeftIsSmall, AttemptAssumption DEF BundleTypeOK
<1>2. step # "none" => 0 < k
  BY AttemptAssumption DEF BundleTypeOK, BundleInv, Steps, StepsLeft
<1>3. BundleWork = k * m - (tries - 1)
  BY DEF BundleWork
<1> HIDE DEF k, m, n
<1>4. k * m <= n * m
  <2>1. CASE k = n
    BY <2>1, <1>1
  <2>2. CASE k < n
    BY <2>2, <1>1, ProductsAreMonotone
  <2> QED BY <1>1, <2>1, <2>2
<1>5. 0 < k => m <= k * m
  BY <1>1, ProductsAreMonotone
<1>6. k * m \in Nat
  BY <1>1
<1>7. n * m \in Nat
  BY <1>1
<1>8. /\ BundleWork \in Int /\ BundleWork <= n * m
      /\ step # "none" => BundleWork > 0
  BY <1>1, <1>2, <1>3, <1>4, <1>5, <1>6, <1>7
<1> QED BY <1>8 DEF n, m, BundleWorkInRange

\* Whether a request is answered, retried or given up, a bundle comes nearer to
\* its end.
LEMMA BundleWorkDecreases ==
  ASSUME BundleTypeOK, BundleInv, TriesInv, BundleStep, BundleTypeOK', BundleInv'
  PROVE  BundleWork' < BundleWork
<1> DEFINE k == StepsLeft
           l == StepsLeft'
           m == MaxAttempts
<1>0. (StepsLeft \in 0..(PartCount + 7))'
  BY StepsLeftIsSmall, PTL
<1>1. /\ k \in Nat /\ l \in Nat /\ m \in Nat /\ m > 0
      /\ tries \in 1..m /\ tries' \in 1..m
  BY <1>0, StepsLeftIsSmall, AttemptAssumption DEF BundleTypeOK
<1>2. BundleWork = k * m - (tries - 1) /\ BundleWork' = l * m - (tries' - 1)
  BY DEF BundleWork
<1>3. (l < k /\ tries' = 1) \/ (l = k /\ tries' = tries + 1)
  BY StepsGoOn
<1> HIDE DEF k, l, m
<1>4. k * m \in Int /\ l * m \in Int
  BY <1>1
<1>5. CASE l < k /\ tries' = 1
  <2>1. l * m + m <= k * m
    BY <1>1, <1>5, ProductsAreMonotone
  <2> QED BY <1>1, <1>2, <1>4, <1>5, <2>1
<1>6. CASE l = k /\ tries' = tries + 1
  BY <1>1, <1>2, <1>4, <1>6
<1> QED BY <1>3, <1>5, <1>6

LEMMA TriesStep ==
  ASSUME BundleTypeOK, TriesInv, BundleMove
  PROVE  TriesInv'
<1> USE DEF TriesInv, BundleTypeOK, Steps, Requests
<1>1. CASE Answered
  BY <1>1 DEF Answered
<1>2. CASE Unanswered
  BY <1>2 DEF Unanswered, AfterRaise
<1>3. CASE Rejected \/ Archive \/ Remove
  BY <1>3 DEF Rejected, Archive, Remove
<1>4. CASE step = "none" /\ \E o \in Ops : TakeOperation(o)
  BY <1>4 DEF TakeOperation
<1>5. CASE DropOperation
  BY <1>5 DEF DropOperation
<1>6. CASE UNCHANGED bundleVars
  BY <1>6 DEF bundleVars, upload
<1> QED BY <1>1, <1>2, <1>3, <1>4, <1>5, <1>6 DEF BundleMove, BundleStep

LEMMA TriesAreInvariant == Spec => [](IInv /\ TriesInv)
<1>1. Init => TriesInv
  BY DEF Init, BundleInit, TriesInv
<1>2. IInv /\ TriesInv /\ [Next]_vars => TriesInv'
  BY BundleMoves, TriesStep DEF IInv, TypeOK
<1> QED BY <1>1, <1>2, Invariance, PTL DEF Spec

\* After a signal every step of the process or of its worker is one of those
\* that were still to come.
LEMMA ShutdownGoesOn ==
  ASSUME IInv, TriesInv, IInv', Next, exit, exit'
  PROVE  ShutdownWork' < ShutdownWork \/ UNCHANGED vars
<1> DEFINE most == (PartCount + 7) * MaxAttempts
           work == BundleWork
<1>1. /\ BundleTypeOK /\ BundleInv /\ BundleTypeOK' /\ BundleInv' /\ PlaceInv /\ PlaceInv'
      /\ pc \in PCs /\ exit \in BOOLEAN /\ jobRunning \in Jobs \cup {NoJob}
      /\ future \in {"none", "running", "ok", "failed"}
  BY DEF IInv, TypeOK
<1>2. /\ work \in Int /\ work <= most /\ (step # "none" => work > 0)
      /\ work' \in Int /\ work' <= most /\ (step' # "none" => work' > 0)
  <2>1. BundleWorkInRange /\ BundleWorkInRange'
    BY BundleWorkIsBounded, <1>1, PTL
  <2> QED BY <2>1 DEF BundleWorkInRange
<1>3. most \in Nat /\ most >= 8
  <2>1. PartCount + 7 \in Nat /\ PartCount + 7 >= 8 /\ MaxAttempts \in Nat /\ MaxAttempts > 0
    BY AttemptAssumption
  <2>2. 0 * (PartCount + 7) + (PartCount + 7) <= MaxAttempts * (PartCount + 7)
    BY <2>1, ProductsAreMonotone
  <2> QED BY <2>1, <2>2
<1>4. ShutdownWork = ProcessWork(most, work) /\ ShutdownWork' = ProcessWork(most, work)'
  BY DEF ShutdownWork
<1>5. BundleStep => work' < work
  BY <1>1, BundleWorkDecreases
<1> HIDE DEF most, work
<1> USE DEF Goto, ClearRunningJob, PCs, PlaceInv, AfterEnd, ProcessWork
<1>6. CASE StartPoll \/ EndAnswered \/ EndRaised \/ Die \/ Signal
  BY <1>6, <1>1, <1>2, <1>3, <1>4 DEF StartPoll, EndAnswered, EndRaised, Die, Signal
<1>7. CASE FindOperation
  BY <1>7, <1>1, <1>2, <1>3, <1>4 DEF FindOperation
<1>8. CASE HandleOperation
  BY <1>8, <1>1, <1>2, <1>3, <1>4, <1>5 DEF HandleOperation
<1>9. CASE FindNoOperation \/ CheckIn \/ NotStarted \/ (\E j \in Jobs : StartAnswered(j))
  BY <1>9, <1>1, <1>2, <1>3, <1>4 DEF FindNoOperation, CheckIn, NotStarted, StartAnswered
<1>10. CASE Submitted \/ SubmitFailed \/ UndoAnswered \/ UndoRaised
  BY <1>10, <1>1, <1>2, <1>3, <1>4 DEF Submitted, SubmitFailed, UndoAnswered, UndoRaised
<1>11. CASE WorkerEnds \/ StartShutdown \/ Shutdown
  BY <1>11, <1>1, <1>2, <1>3, <1>4 DEF WorkerEnds, StartShutdown, Shutdown
<1>12. CASE Stopped
  BY <1>12 DEF Stopped
<1> QED BY <1>6, <1>7, <1>8, <1>9, <1>10, <1>11, <1>12 DEF Next, Poll

ShutdownSteps == (PartCount + 7) * MaxAttempts + 6

\* A signal ends the process (_handle_signal, start, _shutdown) after at most as
\* many steps of its own and of its worker as a bundle in hand has attempts left,
\* and six more: no request is repeated without end and no poll begins anew.
THEOREM ShutdownIsBounded ==
  Spec => /\ [](ShutdownWork \in 0..ShutdownSteps)
          /\ [][exit /\ exit' => ShutdownWork' < ShutdownWork]_vars
<1>1. ASSUME IInv
      PROVE  ShutdownWork \in 0..ShutdownSteps
  <2> DEFINE most == (PartCount + 7) * MaxAttempts
  <2>1. /\ pc \in PCs /\ PlaceInv /\ BundleTypeOK /\ BundleInv
        /\ future \in {"none", "running", "ok", "failed"}
    BY <1>1 DEF IInv, TypeOK
  <2>2. /\ BundleWork \in Int /\ BundleWork <= most
        /\ step # "none" => BundleWork > 0
    BY <2>1, BundleWorkIsBounded DEF BundleWorkInRange
  <2>3. most \in Nat /\ most >= 8
    <3>1. PartCount + 7 \in Nat /\ PartCount + 7 >= 8 /\ MaxAttempts \in Nat /\ MaxAttempts > 0
      BY AttemptAssumption
    <3>2. 0 * (PartCount + 7) + (PartCount + 7) <= MaxAttempts * (PartCount + 7)
      BY <3>1, ProductsAreMonotone
    <3> QED BY <3>1, <3>2
  <2>4. ShutdownSteps = most + 6 /\ ShutdownWork = ProcessWork(most, BundleWork)
    BY DEF ShutdownWork, ShutdownSteps
  <2> HIDE DEF most
  <2> QED BY <2>1, <2>2, <2>3, <2>4, NoJobAssumption DEF PlaceInv, PCs, ProcessWork
<1>2. IInv /\ TriesInv /\ IInv' /\ [Next]_vars
        => [exit /\ exit' => ShutdownWork' < ShutdownWork]_vars
  BY ShutdownGoesOn
<1> QED BY <1>1, <1>2, TriesAreInvariant, PTL DEF Spec

=============================================================================
