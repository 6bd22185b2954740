------------------------ MODULE WorkerLogging_proofs ------------------------
(***************************************************************************)
(* Proofs about WorkerLogging: the log file it rotates (LogRotation), the  *)
(* router (that it implements LogChannel) and what the destinations are    *)
(* given, for any number of schedulers, workers and records, any interval  *)
(* and any size.  The file and the router touch different variables, so    *)
(* each has an inductive invariant of its own.                             *)
(***************************************************************************)
EXTENDS WorkerLogging, FiniteSetTheorems, TLAPS

---------------------------------------------------------------------------
(* Intervals. *)

\* The beginning of the interval a time falls into.
Begin(t) == (t \div Interval) * Interval

LEMMA BeginIsBefore ==
  ASSUME NEW t \in Nat
  PROVE  Begin(t) \in Nat /\ Begin(t) <= t /\ t < Begin(t) + Interval
BY RotationAssumption DEF Begin

LEMMA ProductsAreMonotone ==
  ASSUME NEW i \in Nat, NEW p \in Nat, NEW q \in Nat, p < q
  PROVE  p * i + i <= q * i
OBVIOUS

LEMMA BeginIsMonotone ==
  ASSUME NEW a \in Nat, NEW b \in Nat, a <= b
  PROVE  Begin(a) <= Begin(b)
<1>1. a \div Interval \in Nat /\ b \div Interval \in Nat /\ Interval \in Nat \ {0}
  BY RotationAssumption
<1>2. CASE b \div Interval < a \div Interval
  <2>1. Begin(b) + Interval <= Begin(a)
    BY <1>1, <1>2, ProductsAreMonotone DEF Begin
  <2> QED BY <2>1, <1>1, BeginIsBefore
<1>3. CASE a \div Interval = b \div Interval
  BY <1>3, <1>1, BeginIsBefore DEF Begin
<1>4. CASE a \div Interval < b \div Interval
  <2>1. Begin(a) + Interval <= Begin(b)
    BY <1>1, <1>4, ProductsAreMonotone DEF Begin
  <2> QED BY <2>1, <1>1, BeginIsBefore
<1> QED BY <1>1, <1>2, <1>3, <1>4

\* An interval before the one that is running began earlier.
LEMMA EarlierBegin ==
  ASSUME NEW a \in Nat, NEW b \in Nat, Interval <= a, a <= b
  PROVE  Begin(a - Interval) < Begin(b)
<1> DEFINE p == (a - Interval) \div Interval
           q == b \div Interval
<1>1. Interval \in Nat \ {0} /\ a - Interval \in Nat
  BY RotationAssumption
<1>2. p \in Nat /\ q \in Nat
  BY <1>1
<1>3. Begin(a - Interval) <= a - Interval /\ b < Begin(b) + Interval
  BY <1>1, BeginIsBefore
<1>4. Begin(a - Interval) \in Nat /\ Begin(b) \in Nat
  BY <1>1, BeginIsBefore
<1> QED BY <1>1, <1>3, <1>4

\* The beginning of an interval is where it begins.
LEMMA BeginOfBegin ==
  ASSUME NEW t \in Nat
  PROVE  Begin(Begin(t)) = Begin(t)
<1>1. t \div Interval \in Nat /\ Interval \in Nat \ {0}
  BY RotationAssumption
<1>2. \A p \in Nat : (p * Interval) \div Interval = p
  BY <1>1
<1> QED BY <1>1, <1>2 DEF Begin

---------------------------------------------------------------------------
(* The log file. *)

RotationMove == (Emit /\ UNCHANGED now) \/ Tick \/ Reopen \/ UNCHANGED rotationVars

\* A file without a record has no backups.  As long as every rename went well,
\* a backup that is named after an interval is older than the interval that is
\* running and than the last record: its name is never in the way again.
RotationInv ==
  /\ RotationTypeOK
  /\ lastWrite <= now
  /\ Interval <= rolloverAt /\ rolloverAt - Interval <= now
  /\ live = 0 => backups = {}
  /\ faults = 0 =>
       /\ suffix = Own
       /\ \A n \in backups : n[1] # "second" =>
            n[2] < Begin(rolloverAt - Interval) /\ n[2] < Begin(lastWrite)
  /\ LiveFileIsBounded

LEMMA RotationMoves ==
  ASSUME [Next]_loggingVars
  PROVE  RotationMove
<1>1. CASE HandleRecord
  <2>1. PICK failing \in SUBSET {"custom", "main"} :
          IF "main" \in failing THEN RenameFails ELSE Written
    BY <1>1 DEF HandleRecord
  <2> QED BY <2>1, <1>1 DEF HandleRecord, RotationMove, Emit
<1>2. CASE ~HandleRecord
  BY <1>2 DEF Next, Opening, StartManager, StartListener, RouterFails, Work, StartWorker,
     EnterJob, SetHandler, WorkerGone, Put, Listening, EndListener, Stopping, BeginStop,
     StopListener, StopManager, Environment, ManagerDies, Restart, OwnRecord, LogRecord, Time,
     RotationMove, rotationVars, file, loggingVars
<1> QED BY <1>1, <1>2

\* The next rollover is one interval after the beginning of an interval that has
\* begun.
LEMMA NextRolloverIsAhead ==
  ASSUME NEW t \in Nat
  PROVE  /\ NextRollover(t) \in Nat
         /\ Interval <= NextRollover(t) /\ NextRollover(t) - Interval <= t
         /\ Begin(NextRollover(t) - Interval) = Begin(t)
<1>1. Interval \in Nat \ {0} /\ t \div Interval \in Nat
  BY RotationAssumption
<1>2. CASE When = "midnight"
  <2>1. NextRollover(t) = Begin(t) + Interval
    <3>1. \A p \in Nat : (p + 1) * Interval = p * Interval + Interval
      BY <1>1
    <3> QED BY <1>1, <1>2, <3>1 DEF NextRollover, Begin
  <2>2. NextRollover(t) - Interval = Begin(t)
    BY <2>1, <1>1, BeginIsBefore
  <2> QED BY <2>1, <2>2, <1>1, BeginIsBefore, BeginOfBegin
<1>3. CASE When # "midnight"
  <2>1. NextRollover(t) = t + Interval /\ NextRollover(t) - Interval = t
    BY <1>1, <1>3 DEF NextRollover
  <2> QED BY <2>1, <1>1
<1> QED BY <1>2, <1>3

LEMMA StampIsName ==
  ASSUME NEW t \in Nat
  PROVE  Stamp(t) \in Names /\ Stamp(t)[1] # "second" /\ Stamp(t)[2] = Begin(t)
<1>1. Begin(t) \in Nat
  BY BeginIsBefore
<1> QED BY <1>1 DEF Stamp, Names, Begin

LEMMA RotationInitInv ==
  ASSUME RotationInit
  PROVE  RotationInv
<1>1. NextRollover(0) \in Nat /\ Interval <= NextRollover(0) /\ NextRollover(0) - Interval <= 0
  BY NextRolloverIsAhead
<1> QED BY <1>1, RotationAssumption DEF RotationInit, RotationInv, RotationTypeOK, LiveFileIsBounded

\* Writing a record keeps the names old: the last record is no earlier than it
\* was.
LEMMA NamesStayOld ==
  ASSUME RotationInv, faults = 0, NEW t \in Nat, lastWrite <= t, NEW n \in backups, n[1] # "second"
  PROVE  n[2] < Begin(t)
<1>1. lastWrite \in Nat /\ n[2] \in Nat /\ n[2] < Begin(lastWrite)
  BY DEF RotationInv, RotationTypeOK, Names
<1>2. Begin(lastWrite) <= Begin(t) /\ Begin(lastWrite) \in Nat /\ Begin(t) \in Nat
  BY <1>1, BeginIsMonotone, BeginIsBefore
<1> QED BY <1>1, <1>2

LEMMA AppendKeeps ==
  ASSUME RotationInv, Append1, UNCHANGED now
  PROVE  RotationInv'
<1> USE DEF RotationInv
<1>1. now \in Nat /\ lastWrite \in Nat /\ live \in Nat /\ MaxBytes \in Nat /\ emits \in Nat
  BY RotationAssumption DEF RotationTypeOK
<1>2. live' = live + 1 /\ live' <= MaxBytes /\ lastWrite' = now /\ emits' = emits + 1
  BY <1>1 DEF Append1, ShouldRollover, Write
<1>3. UNCHANGED <<backups, rolloverAt, suffix, faults, now>>
  BY DEF Append1
<1>4. RotationTypeOK'
  BY <1>1, <1>2, <1>3 DEF RotationTypeOK
<1>5. LiveFileIsBounded'
  BY <1>1, <1>2 DEF LiveFileIsBounded
<1>6. faults = 0 => \A n \in backups : n[1] # "second" => n[2] < Begin(now)
  BY <1>1, NamesStayOld
<1> QED BY <1>1, <1>2, <1>3, <1>4, <1>5, <1>6

\* A rollover that is due by time finds its name free, so what keeps it from
\* being done is a backup made by size in this very second.
LEMMA NameIsTakenBySecond ==
  ASSUME RotationInv, faults = 0, BackupName \in backups
  PROVE  BackupName = Second(now)
<1> USE DEF RotationInv
<1>1. rolloverAt \in Nat /\ Interval \in Nat /\ rolloverAt - Interval \in Nat
  BY RotationAssumption DEF RotationTypeOK
<1>2. Stamp(rolloverAt - Interval)[1] # "second" /\
      Stamp(rolloverAt - Interval)[2] = Begin(rolloverAt - Interval)
  BY <1>1, StampIsName
<1>3. Begin(rolloverAt - Interval) \in Nat
  BY <1>1, BeginIsBefore
<1>4. Stamp(rolloverAt - Interval) \notin backups
  BY <1>2, <1>3
<1> QED BY <1>4 DEF BackupName

LEMMA AlreadyRolledOverKeeps ==
  ASSUME RotationInv, AlreadyRolledOver, UNCHANGED now
  PROVE  RotationInv'
<1>1. /\ now \in Nat /\ lastWrite \in Nat /\ live \in Nat /\ emits \in Nat /\ now \in 0..MaxTime
  BY RotationAssumption DEF RotationInv, RotationTypeOK
<1>2. live' = live + 1 /\ lastWrite' = now /\ emits' = emits + 1
  BY DEF AlreadyRolledOver, Write
<1>3. UNCHANGED <<backups, rolloverAt, suffix, faults, now>>
  BY DEF AlreadyRolledOver
<1>4. RotationTypeOK'
  BY <1>1, <1>2, <1>3 DEF RotationInv, RotationTypeOK
<1>5. LiveFileIsBounded'
  BY <1>2, <1>3, NameIsTakenBySecond DEF AlreadyRolledOver, LiveFileIsBounded, Second
<1>6. faults = 0 => \A n \in backups : n[1] # "second" => n[2] < Begin(now)
  BY <1>1, NamesStayOld DEF RotationInv
<1> QED BY <1>1, <1>2, <1>3, <1>4, <1>5, <1>6 DEF RotationInv

LEMMA RolloverKeeps ==
  ASSUME RotationInv, Rollover, UNCHANGED now
  PROVE  RotationInv'
<1>1. /\ now \in Nat /\ now \in 0..MaxTime /\ lastWrite \in Nat /\ live \in Nat /\ emits \in Nat
      /\ rolloverAt \in Nat /\ Interval \in Nat /\ rolloverAt - Interval \in Nat
      /\ MaxBytes \in Nat \ {0} /\ rolloverAt - Interval <= now
  BY RotationAssumption DEF RotationInv, RotationTypeOK
<1>2. live' = 1 /\ lastWrite' = now /\ emits' = emits + 1 /\ rolloverAt' = NextRollover(now)
  BY DEF Rollover, Write
<1>3. UNCHANGED <<suffix, faults, now>> /\ backups' \subseteq backups \cup {BackupName}
  BY DEF Rollover
<1>4. /\ NextRollover(now) \in Nat
      /\ Interval <= NextRollover(now) /\ NextRollover(now) - Interval <= now
      /\ Begin(NextRollover(now) - Interval) = Begin(now)
  BY <1>1, NextRolloverIsAhead
<1>5. BackupName \in Names \cup {Own}
  BY <1>1, StampIsName DEF BackupName, Second, Names, RotationInv, RotationTypeOK
<1>6. live = 0 \/ BackupName \in Names
  <2>1. CASE TimeIsUp
    BY <2>1, <1>1, <1>5, StampIsName DEF BackupName
  <2>2. CASE ~TimeIsUp
    BY <2>2, <1>1 DEF BackupName, Second, Names
  <2> QED BY <2>1, <2>2
<1>7. backups' \in SUBSET Names
  <2>1. live = 0 => backups' \subseteq backups
    BY DEF Rollover
  <2> QED BY <1>3, <1>6, <2>1 DEF RotationInv, RotationTypeOK
<1>8. RotationTypeOK'
  BY <1>1, <1>2, <1>3, <1>4, <1>7 DEF RotationInv, RotationTypeOK
<1>9. ASSUME faults = 0, NEW n \in backups', n[1] # "second"
      PROVE  n[2] < Begin(now)
  <2>1. CASE n \in backups
    BY <1>1, <1>9, <2>1, NamesStayOld DEF RotationInv
  <2>2. CASE n = BackupName
    <3>1. suffix = Own /\ TimeIsUp
      BY <1>9, <2>2 DEF RotationInv, BackupName, Second
    <3>2. n[2] = Begin(rolloverAt - Interval) /\ rolloverAt <= now
      BY <2>2, <3>1, <1>1, StampIsName DEF BackupName, TimeIsUp
    <3>3. Begin(rolloverAt - Interval) < Begin(now)
      BY <1>1, <3>2, EarlierBegin DEF RotationInv
    <3> QED BY <3>2, <3>3
  <2> QED BY <1>3, <2>1, <2>2
<1>10. LiveFileIsBounded'
  BY <1>1, <1>2 DEF LiveFileIsBounded
<1> QED BY <1>1, <1>2, <1>3, <1>4, <1>8, <1>9, <1>10 DEF RotationInv

LEMMA RotationStep ==
  ASSUME RotationInv, [Next]_loggingVars
  PROVE  RotationInv'
<1>1. CASE Append1 /\ UNCHANGED now
  BY <1>1, AppendKeeps
<1>2. CASE Rollover /\ UNCHANGED now
  BY <1>2, RolloverKeeps
<1>3. CASE AlreadyRolledOver /\ UNCHANGED now
  BY <1>3, AlreadyRolledOverKeeps
<1>4. CASE RenameFails /\ UNCHANGED now
  <2>1. faults' = faults + 1 /\ faults' \in 0..MaxFaults /\ faults' # 0
    BY <1>4, RotationAssumption DEF RenameFails, RotationInv, RotationTypeOK
  <2>2. suffix' \in Names \cup {Own}
    BY <1>4 DEF RenameFails, RotationInv, RotationTypeOK, Second, Names
  <2> QED BY <1>4, <2>1, <2>2 DEF RenameFails, RotationInv, RotationTypeOK, LiveFileIsBounded
<1>5. CASE Tick
  BY <1>5, RotationAssumption DEF Tick, file, RotationInv, RotationTypeOK, LiveFileIsBounded
<1>6. CASE Reopen
  <2> DEFINE t == IF live = 0 THEN now ELSE lastWrite
  <2>1. t \in Nat /\ t <= now /\ Interval \in Nat /\ now \in Nat
    BY RotationAssumption DEF RotationInv, RotationTypeOK
  <2>2. /\ rolloverAt' = NextRollover(t) /\ suffix' = Own
        /\ UNCHANGED <<now, live, lastWrite, backups, faults>>
    BY <1>6 DEF Reopen
  <2>3. /\ NextRollover(t) \in Nat /\ Interval <= NextRollover(t)
        /\ NextRollover(t) - Interval <= now
        /\ Begin(NextRollover(t) - Interval) = Begin(t)
    BY <2>1, NextRolloverIsAhead
  <2>4. faults = 0 => \A n \in backups : n[1] # "second" => n[2] < Begin(t)
    BY DEF RotationInv
  <2>5. RotationTypeOK'
    BY <1>6, <2>2, <2>3 DEF Reopen, RotationInv, RotationTypeOK
  <2>6. LiveFileIsBounded'
    BY <2>2 DEF RotationInv, LiveFileIsBounded
  <2> QED BY <2>2, <2>3, <2>4, <2>5, <2>6 DEF RotationInv
<1>7. CASE UNCHANGED rotationVars
  BY <1>7 DEF rotationVars, file, RotationInv, RotationTypeOK, LiveFileIsBounded
<1> QED BY <1>1, <1>2, <1>3, <1>4, <1>5, <1>6, <1>7, RotationMoves DEF RotationMove, Emit,
       Written

LEMMA RotationIsInvariant ==
  Spec => []RotationInv
<1>1. Init => RotationInv
  BY RotationInitInv DEF Init
<1> QED BY <1>1, RotationStep, PTL DEF Spec

\* Whatever mix of time and size makes the main file roll over, and however often
\* the process is started anew, the file outgrows max_bytes only within a second
\* that already has its backup (RotatingFileHandler.shouldRollover, doRollover).
THEOREM LogFileIsBounded ==
  Spec => []LiveFileIsBounded
<1>1. RotationInv => LiveFileIsBounded
  BY DEF RotationInv
<1> QED BY <1>1, RotationIsInvariant, PTL

---------------------------------------------------------------------------
(* The backups that are kept. *)

Matching(names) == {n \in names : Matches(n)}
After(n, matching) == {m \in matching : Precedes(n, m)}

\* Names that match are ordered: they compare by hour, an hour comes before its
\* seconds, and names of one kind compare by time.
LEMMA NamesAreOrdered ==
  ASSUME NEW a \in Names, NEW b \in Names, NEW c \in Names,
         Matches(a), Matches(b), Matches(c)
  PROVE  /\ ~Precedes(a, a)
         /\ a = b \/ Precedes(a, b) \/ Precedes(b, a)
         /\ Precedes(a, b) /\ Precedes(b, c) => Precedes(a, c)
<1>1. /\ a = <<a[1], a[2]>> /\ b = <<b[1], b[2]>>
      /\ a[2] \in Nat /\ b[2] \in Nat /\ c[2] \in Nat
      /\ a[1] \in {"hour", "second"} /\ b[1] \in {"hour", "second"}
      /\ c[1] \in {"hour", "second"}
  BY DEF Names, Matches
<1>2. /\ a[2] \div Interval \in Nat /\ b[2] \div Interval \in Nat
      /\ c[2] \div Interval \in Nat
  BY <1>1, RotationAssumption
<1> QED BY <1>1, <1>2 DEF Precedes

\* Of two names fewer come after the later one.
LEMMA FewerComeAfter ==
  ASSUME NEW M \in SUBSET Names, IsFiniteSet(M), \A n \in M : Matches(n),
         NEW a \in M, NEW b \in M, Precedes(a, b)
  PROVE  Cardinality(After(b, M)) < Cardinality(After(a, M))
<1>1. After(b, M) \subseteq After(a, M)
  BY NamesAreOrdered DEF After
<1>2. b \in After(a, M) /\ b \notin After(b, M)
  BY NamesAreOrdered DEF After
<1>3. IsFiniteSet(After(a, M)) /\ IsFiniteSet(After(b, M))
  BY FS_Subset DEF After
<1>4. Cardinality(After(b, M)) <= Cardinality(After(a, M))
  BY <1>1, <1>3, FS_Subset
<1>5. Cardinality(After(b, M)) # Cardinality(After(a, M))
  BY <1>1, <1>2, <1>3, FS_Subset
<1>6. Cardinality(After(a, M)) \in Nat /\ Cardinality(After(b, M)) \in Nat
  BY <1>3, FS_CardinalityType
<1> QED BY <1>4, <1>5, <1>6

\* What FilesToDelete leaves is at most BackupCount names: each has its own
\* number of names after it, less than BackupCount.
LEMMA DeletingLeavesFew ==
  ASSUME NEW names \in SUBSET Names, IsFiniteSet(names)
  PROVE  LET kept == names \ FilesToDelete(names)
         IN  IsFiniteSet(kept) /\ Cardinality(Matching(kept)) <= BackupCount
<1> DEFINE M == Matching(names)
           kept == names \ FilesToDelete(names)
           few == Matching(kept)
           f == [n \in few |-> Cardinality(After(n, M))]
<1>1. M \in SUBSET Names /\ IsFiniteSet(M) /\ \A n \in M : Matches(n)
  BY FS_Subset DEF Matching
<1>2. few \subseteq M /\ \A n \in few : ~(Cardinality(After(n, M)) >= BackupCount)
  BY DEF Matching, FilesToDelete, After
<1> HIDE DEF M, few
<1>3. \A n \in few : Cardinality(After(n, M)) \in Nat
  BY <1>1, FS_Subset, FS_CardinalityType DEF After
<1>4. f \in [few -> 0..(BackupCount - 1)]
  BY <1>2, <1>3, RotationAssumption
<1>5. ASSUME NEW a \in few, NEW b \in few, f[a] = f[b]
      PROVE  a = b
  <2>1. Cardinality(After(a, M)) = Cardinality(After(b, M))
    BY <1>5
  <2>2. ~Precedes(a, b) /\ ~Precedes(b, a)
    BY <1>1, <1>2, <1>3, <2>1, FewerComeAfter
  <2> QED BY <1>1, <1>2, <2>2, NamesAreOrdered
<1>6. f \in Injection(few, 0..(BackupCount - 1))
  BY <1>4, <1>5 DEF Injection, IsInjective
<1>7. /\ IsFiniteSet(0..(BackupCount - 1))
      /\ Cardinality(0..(BackupCount - 1)) = BackupCount
  BY FS_Interval, RotationAssumption
<1>8. Cardinality(few) <= BackupCount
  <2> HIDE DEF f
  <2> QED BY <1>6, <1>7, FS_Injection
<1>9. IsFiniteSet(kept)
  BY FS_Difference
<1> QED BY <1>8, <1>9 DEF few

\* The backups whose names match are as many as are to be kept; with intervals
\* of an hour there are no others.
BackupsInv ==
  /\ IsFiniteSet(backups)
  /\ Cardinality(Matching(backups)) <= BackupCount
  /\ When = "h" => /\ \A n \in backups : Matches(n)
                   /\ suffix # Own => Matches(suffix)

LEMMA RolloverKeepsFew ==
  ASSUME RotationInv, BackupsInv, Rollover
  PROVE  BackupsInv'
<1> DEFINE names == IF live = 0 THEN backups ELSE backups \cup {BackupName}
<1>1. backups' = names \ FilesToDelete(names) /\ suffix' = suffix
  BY DEF Rollover
<1>2. IsFiniteSet(names)
  BY FS_AddElement DEF BackupsInv
<1>3. BackupName \in Names
  <2>1. rolloverAt - Interval \in Nat /\ now \in Nat
    BY RotationAssumption DEF RotationInv, RotationTypeOK
  <2> QED BY <2>1, StampIsName DEF BackupName, Second, Names, RotationInv, RotationTypeOK
<1>4. names \in SUBSET Names
  BY <1>3 DEF RotationInv, RotationTypeOK
<1>5. IsFiniteSet(backups') /\ Cardinality(Matching(backups')) <= BackupCount
  <2> HIDE DEF names
  <2> QED BY <1>1, <1>2, <1>4, DeletingLeavesFew
<1>6. When = "h" => Matches(BackupName)
  BY DEF BackupsInv, BackupName, Second, Stamp, Matches
<1>7. backups' \subseteq backups \cup {BackupName}
  BY <1>1
<1> QED BY <1>1, <1>5, <1>6, <1>7 DEF BackupsInv, Matching, Matches

LEMMA BackupsStep ==
  ASSUME RotationInv, BackupsInv, [Next]_loggingVars
  PROVE  BackupsInv'
<1>1. CASE Rollover
  BY <1>1, RolloverKeepsFew
<1>2. ASSUME UNCHANGED backups, suffix' = suffix \/ Matches(suffix') \/ suffix' = Own
      PROVE  BackupsInv'
  BY <1>2 DEF BackupsInv, Matching, Matches
<1>3. CASE RenameFails
  BY <1>2, <1>3 DEF RenameFails, Second, Matches
<1>4. CASE Append1 \/ AlreadyRolledOver \/ Tick \/ Reopen \/ UNCHANGED rotationVars
  BY <1>2, <1>4 DEF Append1, AlreadyRolledOver, Tick, Reopen, rotationVars, file
<1> QED BY <1>1, <1>3, <1>4, RotationMoves DEF RotationMove, Emit, Written

LEMMA BackupsAreInvariant ==
  Spec => []BackupsInv
<1>1. Init => BackupsInv
  <2>1. ASSUME Init
        PROVE  backups = {} /\ Matching(backups) = {} /\ suffix = Own
    BY <2>1 DEF Init, RotationInit, Matching
  <2> QED BY <2>1, FS_EmptySet, RotationAssumption DEF BackupsInv
<1>2. RotationInv /\ BackupsInv /\ [Next]_loggingVars => BackupsInv'
  BY BackupsStep
<1> QED BY <1>1, <1>2, RotationIsInvariant, PTL DEF Spec

\* The backups that _build_file_handler's extMatch recognizes, all those the
\* size made among them, are never more than backup_count: only names of whole
\* days, which it does not recognize, add up at midnight.
THEOREM RecognizedBackupsAreBounded ==
  Spec => [](Cardinality({n \in backups : Matches(n)}) <= BackupCount)
<1>1. BackupsInv => Cardinality({n \in backups : Matches(n)}) <= BackupCount
  BY DEF BackupsInv, Matching
<1> QED BY <1>1, BackupsAreInvariant, PTL

\* With intervals of an hour there are never more than backup_count backups.
THEOREM HourlyBackupsAreBounded ==
  ASSUME When = "h"
  PROVE  Spec => []BackupsAreBounded
<1>1. BackupsInv => BackupsAreBounded
  <2>1. ASSUME BackupsInv
        PROVE  Matching(backups) = backups
    BY <2>1 DEF BackupsInv, Matching
  <2> QED BY <2>1 DEF BackupsInv, BackupsAreBounded
<1> QED BY <1>1, BackupsAreInvariant, PTL

---------------------------------------------------------------------------
(* The router. *)

RouterTypeOK ==
  /\ service \in Services
  /\ services \in 1..MaxServices
  /\ manager \in BOOLEAN
  /\ queue \in Seq(Records \cup {Sentinel})
  /\ listener \in {"none", "running", "ended"}
  /\ worker \in Workers
  /\ accepted \in Seq(Records)
  /\ handled \in Seq(Records)
  /\ managerDied \in BOOLEAN

\* The records that were accepted and not yet handled.
Pending == Len(accepted) - Len(handled)

\* Where the scheduler is in its life says what there is of the router.
LifeInv ==
  /\ worker.st # "gone" => service \in {"up", "stopping"} /\ worker.id > 0
  /\ service \in {"new", "starting"} =>
       accepted = <<>> /\ handled = <<>> /\ queue = <<>> /\ ~managerDied
  /\ service \in {"new", "stopped"} => ~manager
  /\ service \in {"new", "starting"} => listener = "none"
  /\ service \in {"up", "stopping", "joining"} /\ ~manager => managerDied
  /\ manager => ~managerDied
  /\ manager /\ service \in {"up", "stopping"} => listener = "running"
  /\ manager /\ service = "joining" => listener \in {"running", "ended"}
  /\ ~manager => queue = <<>>

\* As long as the manager lives, what was accepted is what was handled and then
\* the queue, in one order, and the sentinel comes after the last record.
QueueInv ==
  /\ Pending >= 0
  /\ \A k \in 1..Len(handled) : handled[k] = accepted[k]
  /\ manager => \A k \in 1..Pending : queue[k] = accepted[Len(handled) + k]
  /\ manager /\ service # "joining" => Len(queue) = Pending
  /\ manager /\ service = "joining" /\ listener = "running" =>
       Len(queue) = Pending + 1 /\ queue[Pending + 1] = Sentinel
  /\ manager /\ service = "joining" /\ listener = "ended" => Pending = 0 /\ queue = <<>>

RouterInv == RouterTypeOK /\ LifeInv /\ QueueInv

\* A worker numbers its records, so none is put twice; a record that names an
\* extension is one of DLT, put in the job of its worker.
RecordsInv ==
  /\ worker.st = "boot" => ~worker.extension
  /\ IsInjective(accepted)
  /\ \A k \in 1..Len(accepted) :
       /\ accepted[k].worker <= worker.id
       /\ accepted[k].worker = worker.id => accepted[k].n <= worker.puts
       /\ accepted[k].extension => accepted[k].kind.dlt /\ accepted[k].job = accepted[k].worker

\* What a worker puts on the queue is a record with the number after its last.
LEMMA PreparedIsRecord ==
  ASSUME RouterTypeOK, NEW kind \in Kinds, worker.st \in {"boot", "job"}, worker.id > 0,
         worker.puts < MaxPuts
  PROVE  /\ Prepared(kind) \in Records
         /\ Prepared(kind).worker = worker.id /\ Prepared(kind).n = worker.puts + 1
         /\ Prepared(kind).extension => /\ worker.extension
                                        /\ Prepared(kind).kind.dlt
                                        /\ worker.st = "job" => Prepared(kind).job = worker.id
<1>1. /\ worker.id \in 1..MaxWorkers /\ worker.puts + 1 \in 1..MaxPuts
      /\ worker.extension \in BOOLEAN
  BY LoggingAssumption DEF RouterTypeOK, Workers
<1>2. kind \in [dlt : BOOLEAN, error : BOOLEAN]
  BY LoggingAssumption
<1>3. (kind.dlt /\ worker.extension) \in BOOLEAN
  BY <1>1, <1>2
<1>4. (IF worker.st = "job" THEN worker.id ELSE 0) \in 0..MaxWorkers
  BY <1>1, LoggingAssumption
<1>5. Prepared(kind) \in Records
  BY <1>1, <1>3, <1>4 DEF Prepared, Records
<1> QED BY <1>1, <1>5 DEF Prepared

\* The steps that leave the queue and what went through it alone.
QuietSteps == StartManager \/ StartListener \/ RouterFails \/ StartWorker \/ EnterJob \/
              SetHandler \/ WorkerGone \/ BeginStop \/ OwnRecord \/ Time

LEMMA QuietStep ==
  ASSUME RouterInv, QuietSteps
  PROVE  RouterInv' /\ UNCHANGED <<queue, accepted, handled, delivered, managerDied>>
<1> USE DEF RouterInv, RouterTypeOK, LifeInv, router, logHistory
<1>1. UNCHANGED <<queue, accepted, handled, delivered, managerDied>>
  BY DEF QuietSteps, StartManager, StartListener, RouterFails, StartWorker, EnterJob,
     SetHandler, WorkerGone, BeginStop, OwnRecord, Time
<1>2. worker' \in Workers
  <2>1. CASE StartWorker
    BY <2>1, LoggingAssumption DEF StartWorker, Workers
  <2>2. CASE EnterJob
    BY <2>2 DEF EnterJob, Workers
  <2>3. CASE SetHandler
    BY <2>3 DEF SetHandler, Workers
  <2>4. CASE WorkerGone
    BY <2>4 DEF WorkerGone, Workers
  <2> QED BY <2>1, <2>2, <2>3, <2>4 DEF QuietSteps, StartManager, StartListener, RouterFails,
             BeginStop, OwnRecord, Time
<1>3. RouterTypeOK'
  BY <1>1, <1>2 DEF QuietSteps, StartManager, StartListener, RouterFails, StartWorker, EnterJob,
     SetHandler, WorkerGone, BeginStop, OwnRecord, Time, Services
<1>4. worker'.st # "gone" => service' \in {"up", "stopping"} /\ worker'.id > 0
  <2>1. CASE StartWorker
    BY <2>1 DEF StartWorker, Workers
  <2>2. CASE EnterJob
    BY <2>2 DEF EnterJob, Workers
  <2>3. CASE SetHandler
    BY <2>3 DEF SetHandler, Workers
  <2>4. CASE WorkerGone
    BY <2>4 DEF WorkerGone, Workers
  <2> QED BY <2>1, <2>2, <2>3, <2>4 DEF QuietSteps, StartManager, StartListener, RouterFails,
             BeginStop, OwnRecord, Time
<1>5. LifeInv'
  <2>1. CASE StartManager
    BY <2>1, <1>1, <1>4 DEF StartManager
  <2>2. CASE StartListener
    BY <2>2, <1>1, <1>4 DEF StartListener
  <2>3. CASE RouterFails
    BY <2>3, <1>1, <1>4 DEF RouterFails
  <2>4. CASE BeginStop
    BY <2>4, <1>1, <1>4 DEF BeginStop
  <2>5. CASE UNCHANGED <<service, manager, listener>>
    BY <2>5, <1>1, <1>4
  <2>6. StartManager \/ StartListener \/ RouterFails \/ BeginStop \/
        UNCHANGED <<service, manager, listener>>
    BY DEF QuietSteps, StartWorker, EnterJob, SetHandler, WorkerGone, OwnRecord, Time
  <2> QED BY <2>1, <2>2, <2>3, <2>4, <2>5, <2>6
<1>6. QueueInv'
  BY <1>1 DEF QuietSteps, StartManager, StartListener, RouterFails, StartWorker, EnterJob,
     SetHandler, WorkerGone, BeginStop, OwnRecord, Time, QueueInv, Pending
<1> QED BY <1>1, <1>3, <1>5, <1>6

LEMMA PutStep ==
  ASSUME RouterInv, NEW kind \in Kinds, Put(kind)
  PROVE  RouterInv'
<1> DEFINE r == Prepared(kind)
<1>1. r \in Records
  BY PreparedIsRecord DEF Put, RouterInv, LifeInv
<1>2. worker' \in Workers /\ worker'.st = worker.st /\ worker'.id = worker.id
  <2>1. worker.puts + 1 \in 0..MaxPuts
    <3>1. worker \in Workers
      BY DEF RouterInv, RouterTypeOK
    <3>2. worker.puts < MaxPuts
      BY DEF Put
    <3> QED BY ONLY <3>1, <3>2, LoggingAssumption DEF Workers
  <2>2. worker' = [worker EXCEPT !.puts = @ + 1] /\ worker \in Workers
    BY DEF Put, RouterInv, RouterTypeOK
  <2> QED BY ONLY <2>1, <2>2 DEF Workers
<1>3. UNCHANGED <<service, services, manager, listener, handled, managerDied>>
  BY DEF Put
<1>4. service \in {"up", "stopping"}
  BY DEF Put, RouterInv, LifeInv
<1>5. CASE ~manager
  <2>1. UNCHANGED <<queue, accepted>>
    BY <1>5 DEF Put
  <2> QED BY <1>2, <1>3, <2>1 DEF RouterInv, RouterTypeOK, LifeInv, QueueInv, Pending
<1>6. CASE manager
  <2>1. queue' = Append(queue, r) /\ accepted' = Append(accepted, r)
    BY <1>6 DEF Put
  <2>2. queue \in Seq(Records \cup {Sentinel}) /\ accepted \in Seq(Records) /\ handled \in Seq(Records)
    BY DEF RouterInv, RouterTypeOK
  <2>3. queue' \in Seq(Records \cup {Sentinel}) /\ accepted' \in Seq(Records)
    BY <1>1, <2>1, <2>2
  <2>4. Len(queue) = Pending /\ Pending >= 0 /\ Pending' = Pending + 1 /\ Len(queue') = Len(queue) + 1
    BY <1>3, <1>4, <1>6, <2>1, <2>2 DEF RouterInv, QueueInv, Pending
  <2>5. \A k \in 1..Len(handled) : handled[k] = accepted'[k]
    BY <2>1, <2>2, <2>4 DEF RouterInv, QueueInv, Pending
  <2>6. ASSUME NEW k \in 1..(Pending + 1)
        PROVE  queue'[k] = accepted'[Len(handled) + k]
    <3>1. CASE k = Pending + 1
      BY <3>1, <2>1, <2>2, <2>4 DEF Pending
    <3>2. CASE k \in 1..Pending
      <4>1. queue[k] = accepted[Len(handled) + k]
        BY <3>2, <1>6 DEF RouterInv, QueueInv
      <4>2. /\ k \in 1..Len(queue) /\ Len(handled) + k \in 1..Len(accepted)
        BY ONLY <3>2, <2>2, <2>4 DEF Pending
      <4>3. queue'[k] = queue[k] /\ accepted'[Len(handled) + k] = accepted[Len(handled) + k]
        BY ONLY <4>2, <2>1, <2>2
      <4> QED BY ONLY <4>1, <4>3
    <3> QED BY <3>1, <3>2, <2>2 DEF Pending
  <2>7. QueueInv'
    BY <1>3, <1>4, <2>4, <2>5, <2>6 DEF QueueInv
  <2> QED BY <1>2, <1>3, <1>4, <1>6, <2>3, <2>7 DEF RouterInv, RouterTypeOK, LifeInv
<1> QED BY <1>5, <1>6

\* The record the listener takes is the next one that was accepted.
LEMMA HeadIsNext ==
  ASSUME RouterInv, HandleRecord
  PROVE  /\ Pending > 0 /\ Pending = Len(accepted) - Len(handled)
         /\ Head(queue) = accepted[Len(handled) + 1]
         /\ Head(queue) \in Records
         /\ Len(handled) + 1 \in 1..Len(accepted)
<1>1. /\ queue \in Seq(Records \cup {Sentinel}) /\ accepted \in Seq(Records)
      /\ handled \in Seq(Records) /\ queue # <<>> /\ manager /\ listener = "running"
  BY DEF RouterInv, RouterTypeOK, HandleRecord
<1>2. Pending \in Nat /\ Len(queue) >= 1 /\ Head(queue) = queue[1]
  BY <1>1 DEF RouterInv, QueueInv, Pending
<1>3. Pending # 0
  <2> SUFFICES ASSUME Pending = 0
               PROVE  FALSE
    OBVIOUS
  <2>1. service = "joining" /\ queue[1] = Sentinel
    BY <1>1, <1>2 DEF RouterInv, QueueInv
  <2> QED BY <2>1, <1>2 DEF HandleRecord
<1>4. queue[1] = accepted[Len(handled) + 1]
  BY <1>1, <1>2, <1>3 DEF RouterInv, QueueInv
<1>5. Len(handled) + 1 \in 1..Len(accepted)
  BY <1>1, <1>2, <1>3 DEF Pending
<1> QED BY <1>1, <1>2, <1>3, <1>4, <1>5 DEF Pending

LEMMA HandleStep ==
  ASSUME RouterInv, HandleRecord
  PROVE  RouterInv'
<1>1. /\ queue \in Seq(Records \cup {Sentinel}) /\ accepted \in Seq(Records)
      /\ handled \in Seq(Records) /\ queue # <<>> /\ manager /\ listener = "running"
  BY DEF RouterInv, RouterTypeOK, HandleRecord
<1>2. /\ queue' = Tail(queue) /\ handled' = Append(handled, Head(queue))
      /\ UNCHANGED <<service, services, manager, listener, worker, accepted, managerDied>>
  BY DEF HandleRecord
<1>3. /\ queue' \in Seq(Records \cup {Sentinel}) /\ Len(queue') = Len(queue) - 1
      /\ \A k \in 1..Len(queue') : queue'[k] = queue[k + 1]
  BY <1>1, <1>2
<1>4. /\ handled' \in Seq(Records) /\ Len(handled') = Len(handled) + 1
      /\ handled'[Len(handled) + 1] = Head(queue)
      /\ \A k \in 1..Len(handled) : handled'[k] = handled[k]
  BY <1>1, <1>2, HeadIsNext
<1>5. /\ Pending > 0 /\ Pending \in Nat /\ Pending' = Pending - 1
      /\ Pending = Len(accepted) - Len(handled)
  BY <1>1, <1>2, <1>4, HeadIsNext DEF Pending
<1>6. Len(queue) \in Nat /\ Len(handled) \in Nat /\ Len(accepted) \in Nat
  BY <1>1
<1>7. \A k \in 1..Len(handled') : handled'[k] = accepted'[k]
  <2>1. ASSUME NEW k \in 1..(Len(handled) + 1)
        PROVE  handled'[k] = accepted[k]
    BY <1>4, <1>6, HeadIsNext DEF RouterInv, QueueInv
  <2> QED BY <2>1, <1>2, <1>4
<1>8. Len(queue) >= Pending
  BY <1>1, <1>5, <1>6 DEF RouterInv, QueueInv, LifeInv
<1>9. ASSUME NEW k \in 1..(Pending - 1)
      PROVE  queue'[k] = accepted'[Len(handled') + k]
  <2>1. k + 1 \in 1..Pending /\ k \in 1..Len(queue')
    BY <1>3, <1>5, <1>6, <1>8
  <2>2. queue[k + 1] = accepted[Len(handled) + (k + 1)]
    BY <1>1, <2>1 DEF RouterInv, QueueInv
  <2>3. Len(handled) + (k + 1) = Len(handled') + k
    BY <1>4, <1>6
  <2> QED BY <1>2, <1>3, <2>1, <2>2, <2>3
<1>10. service = "joining" => Len(queue') = Pending' + 1 /\ queue'[Pending' + 1] = Sentinel
  <2> SUFFICES ASSUME service = "joining"
               PROVE  Len(queue') = Pending' + 1 /\ queue'[Pending' + 1] = Sentinel
    OBVIOUS
  <2>1. Len(queue) = Pending + 1 /\ queue[Pending + 1] = Sentinel
    BY <1>1 DEF RouterInv, QueueInv
  <2>2. Len(queue') = Pending /\ queue'[Pending] = queue[Pending + 1]
    BY <2>1, <1>3, <1>5
  <2> QED BY <2>1, <2>2, <1>5
<1>11. service # "joining" => Len(queue') = Pending'
  BY <1>1, <1>3, <1>5 DEF RouterInv, QueueInv
<1>12. QueueInv'
  <2>1. Pending' >= 0 /\ \A k \in 1..Pending' : queue'[k] = accepted'[Len(handled') + k]
    BY <1>5, <1>9
  <2>2. manager' /\ listener' = "running" /\ service' = service
    BY <1>1, <1>2
  <2> QED BY <2>1, <2>2, <1>7, <1>10, <1>11 DEF QueueInv
<1>13. LifeInv'
  BY <1>1, <1>2 DEF RouterInv, LifeInv
<1> QED BY <1>2, <1>3, <1>4, <1>12, <1>13 DEF RouterInv, RouterTypeOK

\* The sentinel is taken when nothing is left before it.
LEMMA EndListenerStep ==
  ASSUME RouterInv, EndListener
  PROVE  RouterInv'
<1>1. /\ queue \in Seq(Records \cup {Sentinel}) /\ accepted \in Seq(Records)
      /\ handled \in Seq(Records) /\ listener = "running" /\ listener' = "ended"
      /\ UNCHANGED <<service, services, manager, worker, accepted, handled, managerDied>>
  BY DEF RouterInv, RouterTypeOK, EndListener, logHistory
<1>2. CASE ~manager
  <2>1. queue' = queue
    BY <1>2 DEF EndListener
  <2> QED BY <1>1, <1>2, <2>1 DEF RouterInv, RouterTypeOK, LifeInv, QueueInv, Pending
<1>3. CASE manager
  <2>1. queue # <<>> /\ Head(queue) = Sentinel /\ queue' = Tail(queue)
    BY <1>3 DEF EndListener
  <2>2. Pending \in Nat /\ Len(queue) \in Nat /\ Len(queue) >= 1 /\ Head(queue) = queue[1]
    BY <1>1, <2>1 DEF RouterInv, QueueInv, Pending
  <2>3. Pending = 0
    <3> SUFFICES ASSUME Pending # 0
                 PROVE  FALSE
      OBVIOUS
    <3>1. queue[1] = accepted[Len(handled) + 1] /\ Len(handled) + 1 \in 1..Len(accepted)
      BY <1>1, <1>3, <2>2 DEF RouterInv, QueueInv, Pending
    <3>2. accepted[Len(handled) + 1] \in Records
      BY <1>1, <3>1
    <3> QED BY <2>1, <2>2, <3>1, <3>2 DEF Records, Sentinel
  <2>4. service = "joining"
    BY <1>1, <1>3, <2>2, <2>3 DEF RouterInv, QueueInv
  <2>5. queue' \in Seq(Records \cup {Sentinel}) /\ queue' = <<>>
    BY <1>1, <1>3, <2>1, <2>3, <2>4 DEF RouterInv, QueueInv
  <2>6. Pending' = 0
    BY <1>1, <2>3 DEF Pending
  <2>7. QueueInv'
    BY <1>1, <2>4, <2>5, <2>6 DEF RouterInv, QueueInv
  <2>8. LifeInv'
    BY <1>1, <1>3, <2>4 DEF RouterInv, LifeInv
  <2> QED BY <1>1, <2>5, <2>7, <2>8 DEF RouterInv, RouterTypeOK
<1> QED BY <1>2, <1>3

\* An empty queue, and a log without records.
LEMMA EmptyIsTyped ==
  <<>> \in Seq(Records \cup {Sentinel}) /\ <<>> \in Seq(Records)
OBVIOUS

LEMMA StopStep ==
  ASSUME RouterInv, StopListener \/ StopManager \/ ManagerDies \/ Restart
  PROVE  RouterInv'
<1> USE DEF RouterInv
<1>1. /\ queue \in Seq(Records \cup {Sentinel}) /\ accepted \in Seq(Records)
      /\ handled \in Seq(Records) /\ Pending \in Int
  BY DEF RouterTypeOK, Pending
<1>2. CASE StopListener
  <2>1. /\ service = "stopping"
        /\ UNCHANGED <<services, manager, worker, accepted, handled, managerDied>>
    BY <1>2 DEF StopListener, logHistory
  <2>2. worker.st = "gone"
    BY <1>2 DEF StopListener, ExecutorGone
  <2>3. CASE manager
    <3>1. queue' = Append(queue, Sentinel) /\ service' = "joining" /\ listener' = listener
      BY <1>2, <2>3 DEF StopListener
    <3>2. /\ queue' \in Seq(Records \cup {Sentinel}) /\ Len(queue') = Len(queue) + 1
          /\ queue'[Len(queue) + 1] = Sentinel
          /\ \A k \in 1..Len(queue) : queue'[k] = queue[k]
      BY <1>1, <3>1
    <3>3. Len(queue) = Pending /\ Pending' = Pending /\ listener = "running" /\ Pending >= 0
      BY <2>1, <2>3 DEF QueueInv, LifeInv, Pending
    <3>4. QueueInv'
      BY <2>1, <2>3, <3>1, <3>2, <3>3 DEF QueueInv
    <3> QED BY <2>1, <2>2, <2>3, <3>1, <3>2, <3>4 DEF RouterTypeOK, Services, LifeInv
  <2>4. CASE ~manager
    <3>1. service' = "stopped" /\ listener' = listener /\ queue' = queue
      BY <1>2, <2>4 DEF StopListener
    <3>2. QueueInv'
      BY <2>1, <2>4 DEF QueueInv, Pending
    <3> QED BY <2>1, <2>2, <2>4, <3>1, <3>2 DEF RouterTypeOK, Services, LifeInv
  <2> QED BY <2>3, <2>4
<1>3. CASE StopManager
  <2>1. /\ service = "joining" /\ service' = "stopped" /\ listener' = "none" /\ manager' = FALSE
        /\ queue' = <<>> /\ UNCHANGED <<services, worker, accepted, handled, managerDied>>
    BY <1>3 DEF StopManager, logHistory
  <2>2. QueueInv'
    BY <2>1 DEF QueueInv, Pending
  <2>3. RouterTypeOK'
    BY <2>1, EmptyIsTyped DEF RouterTypeOK, Services
  <2>4. LifeInv'
    BY <2>1 DEF LifeInv
  <2> QED BY <2>2, <2>3, <2>4
<1>4. CASE ManagerDies
  <2>1. /\ service \in {"up", "stopping", "joining"} /\ manager' = FALSE /\ queue' = <<>>
        /\ managerDied' = TRUE
        /\ UNCHANGED <<service, services, listener, worker, accepted, handled>>
    BY <1>4 DEF ManagerDies
  <2>2. QueueInv'
    BY <2>1 DEF QueueInv, Pending
  <2>3. RouterTypeOK'
    BY <2>1, EmptyIsTyped DEF RouterTypeOK
  <2>4. LifeInv'
    BY <2>1 DEF LifeInv
  <2> QED BY <2>2, <2>3, <2>4
<1>5. CASE Restart
  <2>1. /\ service = "stopped" /\ services < MaxServices /\ services' = services + 1
        /\ service' = "new" /\ worker' = NoWorker /\ accepted' = <<>> /\ handled' = <<>>
        /\ managerDied' = FALSE /\ listener' = "none" /\ UNCHANGED <<manager, queue>>
    BY <1>5 DEF Restart
  <2>2. ~manager /\ queue = <<>>
    BY <2>1 DEF LifeInv
  <2>3. NoWorker \in Workers /\ NoWorker.st = "gone"
    BY LoggingAssumption DEF NoWorker, Workers
  <2>4. services' \in 1..MaxServices
    BY <2>1, LoggingAssumption DEF RouterTypeOK
  <2>5. QueueInv'
    BY <2>1, <2>2 DEF QueueInv, Pending
  <2>6. RouterTypeOK'
    BY <2>1, <2>2, <2>3, <2>4, EmptyIsTyped DEF RouterTypeOK, Services
  <2> QED BY <2>1, <2>2, <2>3, <2>5, <2>6 DEF LifeInv
<1> QED BY <1>2, <1>3, <1>4, <1>5

LEMMA RouterInit ==
  ASSUME Init
  PROVE  RouterInv
<1>1. NoWorker \in Workers /\ NoWorker.st = "gone"
  BY LoggingAssumption DEF NoWorker, Workers
<1>2. 1 \in 1..MaxServices
  BY LoggingAssumption
<1>3. RouterTypeOK
  BY <1>1, <1>2, EmptyIsTyped DEF Init, RouterTypeOK, Services
<1>4. LifeInv
  BY <1>1 DEF Init, LifeInv
<1>5. QueueInv
  BY DEF Init, QueueInv, Pending
<1> QED BY <1>3, <1>4, <1>5 DEF RouterInv

\* Each step is one of the lemmas'.
LEMMA RouterSteps ==
  ASSUME [Next]_loggingVars
  PROVE  \/ QuietSteps \/ (\E kind \in Kinds : Put(kind)) \/ HandleRecord \/ EndListener
         \/ StopListener \/ StopManager \/ ManagerDies \/ Restart \/ UNCHANGED loggingVars
BY DEF Next, Opening, Work, Listening, Stopping, Environment, QuietSteps

LEMMA RouterStep ==
  ASSUME RouterInv, [Next]_loggingVars
  PROVE  RouterInv'
<1>1. CASE UNCHANGED loggingVars
  BY <1>1 DEF loggingVars, router, logHistory, RouterInv, RouterTypeOK, LifeInv, QueueInv, Pending
<1> QED BY <1>1, QuietStep, PutStep, HandleStep, EndListenerStep, StopStep, RouterSteps

LEMMA RouterIsInvariant ==
  Spec => []RouterInv
BY RouterInit, RouterStep, PTL DEF Spec

---------------------------------------------------------------------------
(* The promise of LogChannel. *)

LEMMA HandledWhenClosed ==
  ASSUME RouterInv, manager, listener = "ended", service = "joining"
  PROVE  handled = accepted
<1>1. handled \in Seq(Records) /\ accepted \in Seq(Records) /\ Pending = 0
  BY DEF RouterInv, RouterTypeOK, QueueInv
<1>2. Len(handled) = Len(accepted)
  BY <1>1 DEF Pending
<1>3. \A k \in 1..Len(handled) : handled[k] = accepted[k]
  BY DEF RouterInv, QueueInv
<1> QED BY <1>1, <1>2, <1>3

LEMMA ChannelStep ==
  ASSUME RouterInv, [Next]_loggingVars
  PROVE  [LogOf!Next]_(LogOf!channel)
<1> USE DEF LogOf!Next, LogOf!channel
<1>1. CASE QuietSteps
  <2>1. UNCHANGED <<accepted, handled, managerDied>>
    BY <1>1, QuietStep
  <2>2. CASE RouterFails
    <3>1. handled = accepted
      BY <2>2 DEF RouterFails, RouterInv, LifeInv
    <3> QED BY <2>1, <2>2, <3>1 DEF RouterFails, LogOf!Close
  <2>3. CASE ~RouterFails
    <3>1. (service # "stopped")' = (service # "stopped")
      BY <1>1, <2>3 DEF QuietSteps, StartManager, StartListener, StartWorker, EnterJob,
         SetHandler, WorkerGone, BeginStop, OwnRecord, Time
    <3> QED BY <2>1, <3>1
  <2> QED BY <2>2, <2>3
<1>2. ASSUME NEW kind \in Kinds, Put(kind)
      PROVE  [LogOf!Next]_(LogOf!channel)
  <2>1. Prepared(kind) \in Records
    BY <1>2, PreparedIsRecord DEF Put, RouterInv, LifeInv
  <2>2. service # "stopped" /\ (manager => ~managerDied)
    BY <1>2 DEF Put, RouterInv, LifeInv
  <2> QED BY <1>2, <2>1, <2>2 DEF Put, LogOf!Accept
<1>3. CASE HandleRecord
  <2>1. service # "stopped" /\ Len(handled) < Len(accepted)
    <3>1. Len(handled) + 1 \in 1..Len(accepted) /\ Len(handled) \in Nat
      BY <1>3, HeadIsNext DEF RouterInv, RouterTypeOK
    <3> QED BY <3>1, <1>3 DEF HandleRecord, RouterInv, LifeInv, RouterTypeOK
  <2> QED BY <1>3, <2>1, HeadIsNext DEF HandleRecord, LogOf!Handle
<1>4. CASE EndListener
  BY <1>4 DEF EndListener, logHistory
<1>5. CASE StopListener
  <2>1. manager \/ managerDied
    BY <1>5 DEF StopListener, RouterInv, LifeInv
  <2> QED BY <1>5, <2>1 DEF StopListener, logHistory, LogOf!Close
<1>6. CASE StopManager
  <2>1. managerDied \/ handled = accepted
    BY <1>6, HandledWhenClosed DEF StopManager, Joined, RouterInv, LifeInv
  <2> QED BY <1>6, <2>1 DEF StopManager, logHistory, LogOf!Close
<1>7. CASE ManagerDies
  BY <1>7 DEF ManagerDies, LogOf!Break
<1>8. CASE Restart
  BY <1>8 DEF Restart, LogOf!Open
<1>9. CASE UNCHANGED loggingVars
  BY <1>9 DEF loggingVars, logHistory
<1> QED BY <1>1, <1>2, <1>3, <1>4, <1>5, <1>6, <1>7, <1>8, <1>9, RouterSteps

\* The router refines LogChannel: between a worker's put and the close of the
\* scheduler no record is lost, doubled or overtaken, unless the manager dies
\* (WorkerLogRouter.close puts its sentinel behind all of them and joins).
THEOREM RouterKeepsLog ==
  Spec => KeepsLog
<1>1. Init => LogOf!Init
  BY DEF Init, LogOf!Init
<1> QED BY <1>1, ChannelStep, RouterIsInvariant, PTL DEF Spec, KeepsLog, LogOf!Spec

---------------------------------------------------------------------------
(* What the destinations are given. *)

\* Appending a record: what the log then holds, that it still holds each once,
\* and that what follows it keeps its order.
LEMMA AppendHolds ==
  ASSUME NEW s \in Seq(Records), NEW r \in Records
  PROVE  /\ Append(s, r) \in Seq(Records)
         /\ ToSet(Append(s, r)) = ToSet(s) \cup {r}
         /\ r \notin ToSet(s) /\ IsInjective(s) => IsInjective(Append(s, r))
<1> DEFINE t == Append(s, r)
<1>1. /\ t \in Seq(Records) /\ Len(t) = Len(s) + 1 /\ t[Len(s) + 1] = r /\ Len(s) \in Nat
      /\ \A i \in 1..Len(s) : t[i] = s[i]
      /\ DOMAIN s = 1..Len(s) /\ DOMAIN t = 1..(Len(s) + 1)
  OBVIOUS
<1>2. ToSet(t) = ToSet(s) \cup {r}
  <2>1. \A i \in 1..(Len(s) + 1) : i \in 1..Len(s) \/ i = Len(s) + 1
    BY <1>1
  <2>2. \A i \in 1..Len(s) : i \in 1..(Len(s) + 1)
    BY <1>1
  <2>3. Len(s) + 1 \in 1..(Len(s) + 1)
    BY <1>1
  <2> HIDE DEF t
  <2> QED BY <1>1, <2>1, <2>2, <2>3 DEF ToSet
<1>3. ASSUME r \notin ToSet(s), IsInjective(s), NEW a \in DOMAIN t, NEW b \in DOMAIN t, t[a] = t[b]
      PROVE  a = b
  <2>1. \A i \in 1..Len(s) : s[i] # r
    BY <1>1, <1>3 DEF ToSet
  <2>2. CASE a \in 1..Len(s) /\ b \in 1..Len(s)
    BY <2>2, <1>1, <1>3 DEF IsInjective
  <2> QED BY <2>1, <2>2, <1>1, <1>3
<1> HIDE DEF t
<1>4. r \notin ToSet(s) /\ IsInjective(s) => IsInjective(t)
  BY <1>3 DEF IsInjective
<1> QED BY <1>1, <1>2, <1>4 DEF t

LEMMA AppendKeepsOrder ==
  ASSUME NEW s \in Seq(Records), NEW t \in Seq(Records), NEW r \in Records,
         InOrderOf(t, s), ToSet(s) \subseteq ToSet(t)
  PROVE  InOrderOf(Append(t, r), s) /\ InOrderOf(Append(t, r), Append(s, r))
<1> DEFINE u == Append(t, r)
           v == Append(s, r)
<1>1. /\ Len(u) = Len(t) + 1 /\ u[Len(t) + 1] = r /\ Len(t) \in Nat
      /\ \A i \in 1..Len(t) : u[i] = t[i]
      /\ DOMAIN t = 1..Len(t) /\ DOMAIN u = 1..(Len(t) + 1)
  OBVIOUS
<1>2. /\ Len(v) = Len(s) + 1 /\ v[Len(s) + 1] = r /\ Len(s) \in Nat
      /\ \A i \in 1..Len(s) : v[i] = s[i]
      /\ DOMAIN s = 1..Len(s) /\ DOMAIN v = 1..(Len(s) + 1)
  OBVIOUS
<1> HIDE DEF u, v
<1>3. ASSUME NEW i \in DOMAIN s, NEW k \in DOMAIN s, i < k
      PROVE  \E a, b \in DOMAIN u : a < b /\ s[i] = u[a] /\ s[k] = u[b]
  <2>1. PICK a \in DOMAIN t, b \in DOMAIN t : a < b /\ s[i] = t[a] /\ s[k] = t[b]
    BY <1>3 DEF InOrderOf
  <2>2. a \in DOMAIN u /\ b \in DOMAIN u /\ u[a] = t[a] /\ u[b] = t[b]
    BY <1>1
  <2> QED BY <2>1, <2>2
<1>4. ASSUME NEW i \in DOMAIN v, NEW k \in DOMAIN v, i < k
      PROVE  \E a, b \in DOMAIN u : a < b /\ v[i] = u[a] /\ v[k] = u[b]
  <2>1. i \in 1..Len(s)
    BY <1>2, <1>4
  <2>2. CASE k \in 1..Len(s)
    BY <2>1, <2>2, <1>2, <1>3, <1>4
  <2>3. CASE k = Len(s) + 1
    <3>1. s[i] \in ToSet(t)
      BY <2>1, <1>2 DEF ToSet
    <3>2. PICK a \in DOMAIN t : s[i] = t[a]
      BY <3>1 DEF ToSet
    <3>3. a \in DOMAIN u /\ u[a] = t[a] /\ Len(t) + 1 \in DOMAIN u /\ a < Len(t) + 1
      BY <1>1
    <3> QED BY <3>2, <3>3, <2>1, <2>3, <1>1, <1>2
  <2> QED BY <2>2, <2>3, <1>2
<1> QED BY <1>3, <1>4 DEF InOrderOf, u, v

\* The handlers a record is offered to, and whether a destination is among them.
LEMMA ConcatHolds ==
  ASSUME NEW S, NEW s \in Seq(S), NEW t \in Seq(S)
  PROVE  s \o t \in Seq(S) /\ ToSet(s \o t) = ToSet(s) \cup ToSet(t)
<1>1. /\ s \o t \in Seq(S) /\ Len(s \o t) = Len(s) + Len(t) /\ Len(s) \in Nat /\ Len(t) \in Nat
      /\ \A i \in 1..Len(s) : (s \o t)[i] = s[i]
      /\ \A i \in 1..Len(t) : (s \o t)[Len(s) + i] = t[i]
      /\ DOMAIN s = 1..Len(s) /\ DOMAIN t = 1..Len(t) /\ DOMAIN (s \o t) = 1..(Len(s) + Len(t))
  OBVIOUS
<1>2. \A i \in 1..(Len(s) + Len(t)) : i \in 1..Len(s) \/ (i - Len(s) \in 1..Len(t) /\ Len(s) + (i - Len(s)) = i)
  BY <1>1
<1>3. \A i \in 1..Len(s) : i \in 1..(Len(s) + Len(t))
  BY <1>1
<1>4. \A i \in 1..Len(t) : Len(s) + i \in 1..(Len(s) + Len(t))
  BY <1>1
<1>5. ToSet(s \o t) \subseteq ToSet(s) \cup ToSet(t)
  <2>1. ASSUME NEW i \in 1..(Len(s) + Len(t))
        PROVE  (s \o t)[i] \in ToSet(s) \cup ToSet(t)
    <3>1. CASE i \in 1..Len(s)
      BY <3>1, <1>1 DEF ToSet
    <3>2. CASE i - Len(s) \in 1..Len(t) /\ Len(s) + (i - Len(s)) = i
      <4>1. (s \o t)[i] = t[i - Len(s)]
        BY <3>2, <1>1
      <4> QED BY <4>1, <3>2, <1>1 DEF ToSet
    <3> QED BY <3>1, <3>2, <1>2
  <2> QED BY <2>1, <1>1 DEF ToSet
<1>6. ToSet(s) \subseteq ToSet(s \o t)
  BY <1>1, <1>3 DEF ToSet
<1>7. ToSet(t) \subseteq ToSet(s \o t)
  BY <1>1, <1>4 DEF ToSet
<1> QED BY <1>1, <1>5, <1>6, <1>7

HandlerRecords == [dest : {"stream", "main", "ext", "custom"}, errorsOnly : BOOLEAN]

LEMMA HandlersConcat ==
  \A s, t \in Seq(HandlerRecords) :
    s \o t \in Seq(HandlerRecords) /\ ToSet(s \o t) = ToSet(s) \cup ToSet(t)
BY ConcatHolds

LEMMA OneHolds ==
  ASSUME NEW S, NEW x \in S
  PROVE  <<x>> \in Seq(S) /\ ToSet(<<x>>) = {x} /\ <<>> \in Seq(S) /\ ToSet(<<>>) = {}
BY DEF ToSet

LEMMA ConfiguredHolds ==
  /\ Configured("main") \in Seq(HandlerRecords)
  /\ ToSet(Configured("main")) =
       {[dest |-> "main", errorsOnly |-> FALSE]} \cup
       (IF Mode = "service" THEN {} ELSE {[dest |-> "stream", errorsOnly |-> Mode = "cli"]})
<1> DEFINE main == [dest |-> "main", errorsOnly |-> FALSE]
           stream(only) == [dest |-> "stream", errorsOnly |-> only]
<1>1. main \in HandlerRecords /\ \A only \in BOOLEAN : stream(only) \in HandlerRecords
  BY DEF HandlerRecords
<1>2. <<main>> \in Seq(HandlerRecords) /\ ToSet(<<main>>) = {main}
  BY <1>1, OneHolds
<1>3. ASSUME NEW only \in BOOLEAN
      PROVE  <<stream(only)>> \in Seq(HandlerRecords) /\ ToSet(<<stream(only)>>) = {stream(only)}
  BY <1>1, OneHolds
<1>4. <<>> \in Seq(HandlerRecords) /\ ToSet(<<>>) = {}
  BY <1>1, OneHolds
<1> HIDE DEF main, stream
<1>5. ASSUME NEW only \in BOOLEAN
      PROVE  /\ <<stream(only)>> \o <<main>> \in Seq(HandlerRecords)
             /\ ToSet(<<stream(only)>> \o <<main>>) = {stream(only)} \cup {main}
  <2> DEFINE mains == <<main>>
             streams == <<stream(only)>>
  <2>1. /\ mains \in Seq(HandlerRecords) /\ ToSet(mains) = {main}
        /\ streams \in Seq(HandlerRecords) /\ ToSet(streams) = {stream(only)}
    BY <1>2, <1>3
  <2> HIDE DEF mains, streams
  <2>2. /\ streams \o mains \in Seq(HandlerRecords)
        /\ ToSet(streams \o mains) = {stream(only)} \cup {main}
    BY <2>1, HandlersConcat
  <2> QED BY <2>2 DEF mains, streams
<1>6. <<>> \o <<main>> \in Seq(HandlerRecords) /\ ToSet(<<>> \o <<main>>) = {} \cup {main}
  BY <1>2, <1>4, HandlersConcat
<1>7. CASE Mode = "cli"
  <2>1. Configured("main") = <<stream(TRUE)>> \o <<main>>
    BY <1>7 DEF Configured, stream, main
  <2>2. (IF Mode = "service" THEN {} ELSE {[dest |-> "stream", errorsOnly |-> Mode = "cli"]})
           = {stream(TRUE)}
    BY <1>7 DEF stream
  <2> QED BY <2>1, <2>2, <1>5 DEF main
<1>8. CASE Mode = "container"
  <2>1. Configured("main") = <<stream(FALSE)>> \o <<main>>
    BY <1>8 DEF Configured, stream, main
  <2>2. (IF Mode = "service" THEN {} ELSE {[dest |-> "stream", errorsOnly |-> Mode = "cli"]})
           = {stream(FALSE)}
    BY <1>8 DEF stream
  <2> QED BY <2>1, <2>2, <1>5 DEF main
<1>9. CASE Mode = "service"
  <2>1. Configured("main") = <<>> \o <<main>>
    BY <1>9 DEF Configured, stream, main
  <2> QED BY <2>1, <1>6, <1>9 DEF main
<1> QED BY <1>7, <1>8, <1>9, LoggingAssumption

LEMMA HandlersHold ==
  ASSUME NEW r \in Records, NEW extOpens \in BOOLEAN
  PROVE  /\ Handlers(r, extOpens) \in Seq(HandlerRecords)
         /\ ToSet(Handlers(r, extOpens)) =
              ToSet(Configured("main")) \cup {[dest |-> "custom", errorsOnly |-> FALSE]}
              \cup (IF r.extension /\ extOpens THEN {[dest |-> "ext", errorsOnly |-> FALSE]} ELSE {})
<1> DEFINE one == Configured("main") \o <<[dest |-> "custom", errorsOnly |-> FALSE]>>
           dlt == IF r.kind.dlt THEN Configured("main") ELSE <<>>
           ext == IF r.extension /\ extOpens THEN <<[dest |-> "ext", errorsOnly |-> FALSE]>> ELSE <<>>
<1>1. /\ [dest |-> "custom", errorsOnly |-> FALSE] \in HandlerRecords
      /\ [dest |-> "ext", errorsOnly |-> FALSE] \in HandlerRecords
  BY DEF HandlerRecords
<1>2. /\ one \in Seq(HandlerRecords)
      /\ ToSet(one) = ToSet(Configured("main")) \cup {[dest |-> "custom", errorsOnly |-> FALSE]}
  <2> DEFINE custom == <<[dest |-> "custom", errorsOnly |-> FALSE]>>
  <2>1. custom \in Seq(HandlerRecords) /\ ToSet(custom) = {[dest |-> "custom", errorsOnly |-> FALSE]}
    BY <1>1, OneHolds
  <2> HIDE DEF custom
  <2>2. /\ Configured("main") \o custom \in Seq(HandlerRecords)
        /\ ToSet(Configured("main") \o custom) = ToSet(Configured("main")) \cup ToSet(custom)
    BY <2>1, ConfiguredHolds, HandlersConcat
  <2> QED BY <2>1, <2>2 DEF custom
<1>3. dlt \in Seq(HandlerRecords) /\ ToSet(dlt) \subseteq ToSet(Configured("main"))
  BY <1>1, OneHolds, ConfiguredHolds
<1>4. /\ ext \in Seq(HandlerRecords)
      /\ ToSet(ext) = IF r.extension /\ extOpens THEN {[dest |-> "ext", errorsOnly |-> FALSE]} ELSE {}
  BY <1>1, OneHolds
<1>5. Handlers(r, extOpens) = (one \o dlt) \o ext
  BY DEF Handlers
<1> HIDE DEF one, dlt, ext
<1>6. one \o dlt \in Seq(HandlerRecords) /\ ToSet(one \o dlt) = ToSet(one) \cup ToSet(dlt)
  BY <1>2, <1>3, HandlersConcat
<1>7. /\ (one \o dlt) \o ext \in Seq(HandlerRecords)
      /\ ToSet((one \o dlt) \o ext) = ToSet(one \o dlt) \cup ToSet(ext)
  BY <1>4, <1>6, HandlersConcat
<1> QED BY <1>2, <1>3, <1>4, <1>5, <1>6, <1>7

\* However the handlers are listed and whichever of the custom one and the main
\* file fail: the main file gets the record once unless it fails, a stream what it
\* shows, the extension's file nothing but the extension's.
LEMMA CopiesOfRecord ==
  ASSUME NEW r \in Records, NEW extOpens \in BOOLEAN, NEW failing \in SUBSET {"custom", "main"},
         NEW d \in Destinations
  PROVE  LET hs == Handlers(r, extOpens)
             n == Copies(hs, d, r, Called(hs, failing))
         IN /\ n \in {0, 1}
            /\ d = "main" => n = IF "main" \in failing THEN 0 ELSE 1
            /\ d = "stream" => (n = 1 <=> Shown(r))
            /\ d = "ext" => (n = 1 => r.extension)
<1> DEFINE hs == Handlers(r, extOpens)
           called == Called(hs, failing)
<1>1. hs \in Seq(HandlerRecords) /\ DOMAIN hs = 1..Len(hs)
  BY HandlersHold
<1>2. d \in failing => d = "main"
  BY DEF Destinations
<1>3. (\E i \in called : hs[i].dest = d /\ Takes(hs[i], r)) <=>
         d \notin failing /\ \E h \in ToSet(hs) : h.dest = d /\ Takes(h, r)
  BY DEF Called, ToSet
<1>4. ToSet(hs) = {[dest |-> "main", errorsOnly |-> FALSE]} \cup
         (IF Mode = "service" THEN {} ELSE {[dest |-> "stream", errorsOnly |-> Mode = "cli"]}) \cup
         {[dest |-> "custom", errorsOnly |-> FALSE]} \cup
         (IF r.extension /\ extOpens THEN {[dest |-> "ext", errorsOnly |-> FALSE]} ELSE {})
  BY HandlersHold, ConfiguredHolds
<1>5. Copies(hs, d, r, called) =
         IF d \notin failing /\ \E h \in ToSet(hs) : h.dest = d /\ Takes(h, r) THEN 1 ELSE 0
  BY <1>3 DEF Copies
<1> HIDE DEF hs, called
<1>6. d = "main" => \E h \in ToSet(hs) : h.dest = d /\ Takes(h, r)
  <2> DEFINE h == [dest |-> "main", errorsOnly |-> FALSE]
  <2>1. h \in ToSet(hs)
    BY <1>4
  <2>2. h.dest = "main" /\ Takes(h, r)
    BY DEF Takes
  <2> QED BY <2>1, <2>2
<1>7. d = "ext" => ((\E h \in ToSet(hs) : h.dest = d /\ Takes(h, r)) => r.extension)
  BY <1>4
<1>8. d = "stream" => ((\E h \in ToSet(hs) : h.dest = d /\ Takes(h, r)) <=> Shown(r))
  <2>1. CASE Mode = "service"
    BY <2>1, <1>4 DEF Shown
  <2>2. CASE Mode = "container"
    BY <2>2, <1>4 DEF Shown, Takes
  <2>3. CASE Mode = "cli"
    <3> DEFINE h == [dest |-> "stream", errorsOnly |-> TRUE]
    <3>1. h \in ToSet(hs)
      BY <2>3, <1>4
    <3>2. ASSUME NEW g \in ToSet(hs), g.dest = "stream"
          PROVE  g = h
      <4>1. g = [dest |-> "stream", errorsOnly |-> Mode = "cli"]
        BY <1>4, <3>2
      <4>2. (Mode = "cli") = TRUE
        BY <2>3
      <4> QED BY <4>1, <4>2
    <3>3. h.dest = "stream" /\ (Takes(h, r) <=> r.kind.error)
      BY DEF Takes
    <3> HIDE DEF h
    <3> QED BY <3>1, <3>2, <3>3, <2>3 DEF Shown
  <2> QED BY <2>1, <2>2, <2>3, LoggingAssumption
<1> QED BY <1>2, <1>5, <1>6, <1>7, <1>8 DEF hs, called

\* Every destination gets the record or does not; the main file does not when its
\* rollover fails.
LEMMA RecordIsDelivered ==
  ASSUME RouterInv, HandleRecord, delivered \in [Destinations -> Seq(Records)]
  PROVE  LET r == Head(queue)
         IN /\ r \in Records /\ handled \in Seq(Records) /\ handled' = Append(handled, r)
            /\ delivered' \in [Destinations -> Seq(Records)]
            /\ \A d \in Destinations :
                 delivered'[d] = delivered[d] \/ delivered'[d] = Append(delivered[d], r)
            /\ \/ delivered'["main"] = Append(delivered["main"], r) /\ faults' = faults
               \/ delivered'["main"] = delivered["main"] /\ faults' = faults + 1
            /\ delivered'["stream"] = IF Shown(r) THEN Append(delivered["stream"], r)
                                                  ELSE delivered["stream"]
            /\ delivered'["ext"] = delivered["ext"] \/ r.extension
<1> DEFINE r == Head(queue)
<1>1. r \in Records /\ handled \in Seq(Records) /\ handled' = Append(handled, r)
  BY HeadIsNext DEF HandleRecord, RouterInv, RouterTypeOK
<1>2. PICK extOpens \in BOOLEAN, failing \in SUBSET {"custom", "main"} :
        /\ IF "main" \in failing THEN RenameFails ELSE Written
        /\ Deliver(r, extOpens, failing)
  BY DEF HandleRecord
<1> DEFINE hs == Handlers(r, extOpens)
           n(d) == Copies(hs, d, r, Called(hs, failing))
<1>3. delivered' = [d \in Destinations |-> delivered[d] \o [i \in 1..n(d) |-> r]]
  BY <1>2 DEF Deliver
<1>4. ASSUME NEW d \in Destinations
      PROVE  /\ n(d) \in {0, 1}
             /\ d = "main" => n(d) = IF "main" \in failing THEN 0 ELSE 1
             /\ d = "stream" => (n(d) = 1 <=> Shown(r))
             /\ d = "ext" => (n(d) = 1 => r.extension)
  <2>1. r \in Records
    BY <1>1
  <2> HIDE DEF r
  <2> QED BY <2>1, CopiesOfRecord
<1> HIDE DEF n, r
<1>5. ASSUME NEW d \in Destinations
      PROVE  /\ delivered'[d] = IF n(d) = 1 THEN Append(delivered[d], r) ELSE delivered[d]
             /\ delivered'[d] \in Seq(Records)
  <2>1. delivered[d] \in Seq(Records) /\ delivered'[d] = delivered[d] \o [i \in 1..n(d) |-> r]
    BY <1>3
  <2>2. CASE n(d) = 1
    <3>1. [i \in 1..1 |-> r] = <<r>>
      OBVIOUS
    <3>2. delivered[d] \o <<r>> = Append(delivered[d], r) /\ Append(delivered[d], r) \in Seq(Records)
      BY <2>1, <1>1
    <3> QED BY <2>1, <2>2, <3>1, <3>2
  <2>3. CASE n(d) = 0
    <3>1. [i \in 1..0 |-> r] = <<>>
      OBVIOUS
    <3>2. delivered[d] \o <<>> = delivered[d]
      BY <2>1
    <3> QED BY <2>1, <2>3, <3>1, <3>2
  <2> QED BY <2>2, <2>3, <1>4
<1>6. {"main", "stream", "ext"} = Destinations
  BY DEF Destinations
<1>7. delivered' \in [Destinations -> Seq(Records)]
  BY <1>3, <1>5
<1>8. \/ "main" \notin failing /\ faults' = faults
      \/ "main" \in failing /\ faults' = faults + 1
  BY <1>2 DEF RenameFails, Written, Append1, Rollover, AlreadyRolledOver
<1>9. \/ delivered'["main"] = Append(delivered["main"], r) /\ faults' = faults
      \/ delivered'["main"] = delivered["main"] /\ faults' = faults + 1
  <2>1. "main" \in Destinations
    BY <1>6
  <2>2. CASE "main" \notin failing /\ faults' = faults
    <3>1. n("main") = 1
      BY <2>1, <2>2, <1>4
    <3> QED BY <2>1, <2>2, <3>1, <1>5
  <2>3. CASE "main" \in failing /\ faults' = faults + 1
    <3>1. n("main") = 0
      BY <2>1, <2>3, <1>4
    <3> QED BY <2>1, <2>3, <3>1, <1>5
  <2> QED BY <2>2, <2>3, <1>8
<1> QED BY <1>1, <1>4, <1>5, <1>6, <1>7, <1>9 DEF r

\* What is accepted is numbered by its worker.
LEMMA RecordsStep ==
  ASSUME RouterInv, RecordsInv, [Next]_loggingVars
  PROVE  RecordsInv'
<1> USE DEF RecordsInv
<1>1. accepted \in Seq(Records) /\ worker \in Workers /\ worker.puts \in Nat /\ worker.id \in Nat
  BY LoggingAssumption DEF RouterInv, RouterTypeOK, Workers
<1>2. \A k \in 1..Len(accepted) :
        accepted[k] \in Records /\ accepted[k].worker \in Nat /\ accepted[k].n \in Nat
  <2>1. \A k \in 1..Len(accepted) : accepted[k] \in Records
    BY <1>1
  <2>2. \A r \in Records : r.worker \in 1..MaxWorkers /\ r.n \in 1..MaxPuts
    BY DEF Records
  <2>3. 1..MaxWorkers \subseteq Nat /\ 1..MaxPuts \subseteq Nat
    BY LoggingAssumption
  <2> QED BY <2>1, <2>2, <2>3
<1>3. ASSUME NEW kind \in Kinds, Put(kind)
      PROVE  RecordsInv'
  <2> DEFINE r == Prepared(kind)
  <2>1. /\ r \in Records /\ r.worker = worker.id /\ r.n = worker.puts + 1
        /\ r.extension => worker.extension /\ r.kind.dlt /\ (worker.st = "job" => r.job = worker.id)
    BY <1>3, PreparedIsRecord DEF Put, RouterInv, LifeInv
  <2>2. /\ worker.st \in {"boot", "job"} /\ worker'.st = worker.st /\ worker'.id = worker.id
        /\ worker'.puts = worker.puts + 1 /\ worker'.extension = worker.extension
    BY <1>1, <1>3 DEF Put, Workers
  <2>3. r.extension => r.kind.dlt /\ r.job = r.worker
    BY <2>1, <2>2
  <2>4. CASE ~manager
    <3>1. accepted' = accepted
      BY <1>3, <2>4 DEF Put
    <3> QED BY <3>1, <2>2, <1>1, <1>2
  <2>5. CASE manager
    <3>1. accepted' = Append(accepted, r)
      BY <1>3, <2>5 DEF Put
    <3> HIDE DEF r
    <3>2. /\ Len(accepted') = Len(accepted) + 1 /\ accepted'[Len(accepted) + 1] = r
          /\ \A k \in 1..Len(accepted) : accepted'[k] = accepted[k]
          /\ Len(accepted) \in Nat
      BY <3>1, <1>1, <2>1
    <3>3. r \notin ToSet(accepted)
      <4>1. ASSUME NEW k \in 1..Len(accepted)
            PROVE  accepted[k] # r
        BY <2>1, <1>1, <1>2
      <4> QED BY <4>1, <1>1 DEF ToSet
    <3>4. IsInjective(accepted')
      BY <3>1, <3>3, <1>1, <2>1, AppendHolds
    <3>5. ASSUME NEW k \in 1..(Len(accepted) + 1)
          PROVE  /\ accepted'[k].worker <= worker'.id
                 /\ accepted'[k].worker = worker'.id => accepted'[k].n <= worker'.puts
                 /\ accepted'[k].extension =>
                      accepted'[k].kind.dlt /\ accepted'[k].job = accepted'[k].worker
      <4>1. CASE k = Len(accepted) + 1
        BY <4>1, <3>2, <2>1, <2>2, <2>3, <1>1
      <4>2. CASE k \in 1..Len(accepted)
        BY <4>2, <3>2, <2>2, <1>1, <1>2
      <4> QED BY <4>1, <4>2, <3>2
    <3> QED BY <3>2, <3>4, <3>5, <2>2
  <2> QED BY <2>4, <2>5
<1>4. CASE Restart
  <2>1. accepted' = <<>> /\ worker' = NoWorker
    BY <1>4 DEF Restart
  <2> QED BY <2>1 DEF NoWorker, IsInjective
<1>5. CASE StartWorker
  <2>1. accepted' = accepted /\ worker'.id = worker.id + 1 /\ ~worker'.extension
    BY <1>5 DEF StartWorker, logHistory
  <2> QED BY <2>1, <1>1, <1>2
<1>6. CASE EnterJob \/ SetHandler \/ WorkerGone
  <2>1. /\ accepted' = accepted /\ worker'.id = worker.id /\ worker'.puts = worker.puts
        /\ worker'.st # "boot"
    BY <1>1, <1>6 DEF EnterJob, SetHandler, WorkerGone, logHistory, Workers
  <2> QED BY <2>1
<1>7. CASE UNCHANGED <<accepted, worker>>
  BY <1>7
<1>8. \/ \E kind \in Kinds : Put(kind)
      \/ Restart \/ StartWorker \/ EnterJob \/ SetHandler \/ WorkerGone
      \/ UNCHANGED <<accepted, worker>>
  BY DEF Next, Opening, Work, Listening, Stopping, Environment, StartManager, StartListener,
     RouterFails, HandleRecord, EndListener, BeginStop, StopListener, StopManager, ManagerDies,
     OwnRecord, Time, loggingVars, logHistory
<1> QED BY <1>3, <1>4, <1>5, <1>6, <1>7, <1>8

DeliveryInv == /\ delivered \in [Destinations -> Seq(Records)]
               /\ IsFiniteSet(ToSet(handled))
               /\ DeliveredAsHandled

\* The main file lacks a record more when a rollover has failed once more.
LEMMA LackGrowsByFaults ==
  ASSUME NEW H, NEW M, IsFiniteSet(H), NEW r, r \notin H, M \subseteq H,
         NEW f \in Nat, Cardinality(H \ M) <= f
  PROVE  /\ IsFiniteSet(H \cup {r})
         /\ Cardinality((H \cup {r}) \ (M \cup {r})) <= f
         /\ Cardinality((H \cup {r}) \ M) <= f + 1
<1>1. IsFiniteSet(H \ M) /\ Cardinality(H \ M) \in Nat
  BY FS_Subset, FS_CardinalityType
<1>2. (H \cup {r}) \ (M \cup {r}) = H \ M
  OBVIOUS
<1>3. (H \cup {r}) \ M = (H \ M) \cup {r} /\ r \notin H \ M
  OBVIOUS
<1>4. Cardinality((H \ M) \cup {r}) = Cardinality(H \ M) + 1
  BY <1>1, <1>3, FS_AddElement
<1>5. IsFiniteSet(H \cup {r})
  BY FS_AddElement
<1>6. Cardinality((H \cup {r}) \ M) <= f + 1
  BY <1>1, <1>3, <1>4
<1> QED BY <1>2, <1>5, <1>6

LEMMA FaultsGrow ==
  ASSUME RotationInv, [Next]_loggingVars
  PROVE  faults \in Nat /\ (faults' = faults \/ faults' = faults + 1)
<1>1. faults \in Nat
  BY RotationAssumption DEF RotationInv, RotationTypeOK
<1> QED BY <1>1, RotationMoves DEF RotationMove, Emit, Written, Append1, Rollover,
           AlreadyRolledOver, RenameFails, Tick, Reopen, rotationVars, file

LEMMA DeliveryStep ==
  ASSUME RotationInv, RouterInv, RecordsInv, DeliveryInv, [Next]_loggingVars
  PROVE  DeliveryInv'
<1>1. CASE HandleRecord
  <2> DEFINE r == Head(queue)
  <2>1. /\ r \in Records /\ handled \in Seq(Records) /\ handled' = Append(handled, r)
        /\ delivered' \in [Destinations -> Seq(Records)]
        /\ \A d \in Destinations :
             delivered'[d] = delivered[d] \/ delivered'[d] = Append(delivered[d], r)
        /\ \/ delivered'["main"] = Append(delivered["main"], r) /\ faults' = faults
           \/ delivered'["main"] = delivered["main"] /\ faults' = faults + 1
        /\ delivered'["stream"] = IF Shown(r) THEN Append(delivered["stream"], r)
                                              ELSE delivered["stream"]
        /\ delivered'["ext"] = delivered["ext"] \/ r.extension
    BY <1>1, RecordIsDelivered DEF DeliveryInv
  <2>2. r = accepted[Len(handled) + 1] /\ Len(handled) + 1 \in 1..Len(accepted)
    BY <1>1, HeadIsNext
  <2>3. r \notin ToSet(handled)
    <3>1. ASSUME NEW k \in 1..Len(handled)
          PROVE  handled[k] # r
      <4>1. handled[k] = accepted[k] /\ k # Len(handled) + 1 /\ k \in 1..Len(accepted)
        <5>1. handled[k] = accepted[k]
          BY <1>1 DEF RouterInv, QueueInv
        <5>2. Len(handled) \in Nat /\ Len(accepted) \in Nat
          BY <2>1 DEF RouterInv, RouterTypeOK
        <5> QED BY <2>2, <5>1, <5>2
      <4>2. DOMAIN accepted = 1..Len(accepted)
        BY DEF RouterInv, RouterTypeOK
      <4> QED BY <4>1, <4>2, <2>2 DEF RecordsInv, IsInjective
    <3>2. DOMAIN handled = 1..Len(handled)
      BY <2>1
    <3> HIDE DEF r
    <3> QED BY <3>1, <3>2 DEF ToSet
  <2>4. r.extension => r.kind.dlt /\ r.job = r.worker
    BY <2>2 DEF RecordsInv
  <2> HIDE DEF r
  <2>5. ToSet(handled') = ToSet(handled) \cup {r}
    BY <2>1, AppendHolds
  <2>6. {"main", "stream", "ext"} = Destinations
    BY DEF Destinations
  <2>7. \A d \in Destinations : ToSet(delivered[d]) \subseteq ToSet(handled)
    BY <2>6 DEF DeliveryInv, DeliveredAsHandled
  <2>8. ASSUME NEW d \in Destinations
        PROVE  IsInjective(delivered'[d]) /\ InOrderOf(handled', delivered'[d])
    <3>1. /\ delivered[d] \in Seq(Records) /\ IsInjective(delivered[d])
          /\ InOrderOf(handled, delivered[d]) /\ r \notin ToSet(delivered[d])
      BY <2>3, <2>7 DEF DeliveryInv, DeliveredAsHandled
    <3>2. IsInjective(Append(delivered[d], r))
      BY <3>1, <2>1, AppendHolds
    <3>3. /\ InOrderOf(Append(handled, r), delivered[d])
          /\ InOrderOf(Append(handled, r), Append(delivered[d], r))
      BY <3>1, <2>1, <2>7, AppendKeepsOrder
    <3> QED BY <3>1, <3>2, <3>3, <2>1
  <2>9. /\ IsFiniteSet(ToSet(handled'))
        /\ ToSet(delivered'["main"]) \subseteq ToSet(handled')
        /\ Cardinality(ToSet(handled') \ ToSet(delivered'["main"])) <= faults'
    <3> DEFINE H == ToSet(handled)
               M == ToSet(delivered["main"])
    <3>1. delivered["main"] \in Seq(Records) /\ M \subseteq H /\ IsFiniteSet(H) /\ r \notin H
      BY <2>3, <2>6, <2>7 DEF DeliveryInv
    <3>2. faults \in Nat /\ Cardinality(H \ M) <= faults
      BY FaultsGrow DEF DeliveryInv, DeliveredAsHandled
    <3>3. ToSet(Append(delivered["main"], r)) = M \cup {r}
      BY <3>1, <2>1, AppendHolds
    <3> HIDE DEF H, M
    <3>4. /\ IsFiniteSet(H \cup {r})
          /\ Cardinality((H \cup {r}) \ (M \cup {r})) <= faults
          /\ Cardinality((H \cup {r}) \ M) <= faults + 1
      BY <3>1, <3>2, LackGrowsByFaults
    <3>5. ToSet(handled') = H \cup {r}
      BY <2>5 DEF H
    <3>6. CASE delivered'["main"] = Append(delivered["main"], r) /\ faults' = faults
      BY <3>1, <3>3, <3>4, <3>5, <3>6
    <3>7. CASE delivered'["main"] = delivered["main"] /\ faults' = faults + 1
      <4>1. ToSet(delivered'["main"]) = M
        BY <3>7 DEF M
      <4> QED BY <3>1, <3>4, <3>5, <3>7, <4>1
    <3> QED BY <2>1, <3>6, <3>7
  <2>10. ToSet(delivered'["stream"]) = {q \in ToSet(handled') : Shown(q)}
    <3>1. delivered["stream"] \in Seq(Records)
      BY <2>6 DEF DeliveryInv
    <3>2. ToSet(delivered'["stream"]) = ToSet(delivered["stream"]) \cup {q \in {r} : Shown(q)}
      BY <3>1, <2>1, AppendHolds
    <3> QED BY <3>2, <2>5 DEF DeliveryInv, DeliveredAsHandled
  <2>11. ASSUME NEW q \in ToSet(delivered'["ext"])
         PROVE  q \in ToSet(handled') /\ q.kind.dlt /\ q.job = q.worker
    <3>1. delivered["ext"] \in Seq(Records)
      BY <2>6 DEF DeliveryInv
    <3>2. q \in ToSet(delivered["ext"]) \/ (q = r /\ r.extension)
      <4>1. CASE delivered'["ext"] = delivered["ext"]
        BY <4>1
      <4>2. CASE delivered'["ext"] = Append(delivered["ext"], r) /\ r.extension
        BY <4>2, <3>1, <2>1, AppendHolds
      <4> QED BY <4>1, <4>2, <2>1, <2>6
    <3> QED BY <3>2, <2>4, <2>5 DEF DeliveryInv, DeliveredAsHandled
  <2> QED BY <2>1, <2>8, <2>9, <2>10, <2>11 DEF DeliveryInv, DeliveredAsHandled, Shown
<1>2. CASE Restart
  <2>1. handled' = <<>> /\ delivered' = [d \in Destinations |-> <<>>]
    BY <1>2 DEF Restart
  <2>2. \A d \in Destinations : delivered'[d] = <<>>
    BY <2>1
  <2>3. IsInjective(<<>>) /\ InOrderOf(<<>>, <<>>) /\ ToSet(<<>>) = {}
    BY DEF IsInjective, InOrderOf, ToSet
  <2>4. delivered' \in [Destinations -> Seq(Records)]
    BY <2>1, EmptyIsTyped
  <2>5. faults' \in Nat
    BY FaultsGrow
  <2>6. IsFiniteSet({}) /\ Cardinality({}) = 0 /\ {} \ {} = {}
    BY FS_EmptySet
  <2>7. ToSet(handled') = {} /\ \A d \in Destinations : ToSet(delivered'[d]) = {}
    BY <2>1, <2>2, <2>3
  <2>8. Cardinality(ToSet(handled') \ ToSet(delivered'["main"])) <= faults'
    BY <2>5, <2>6, <2>7 DEF Destinations
  <2>9. IsFiniteSet(ToSet(handled'))
    BY <2>6, <2>7
  <2> QED BY <2>1, <2>2, <2>3, <2>4, <2>7, <2>8, <2>9
         DEF DeliveryInv, DeliveredAsHandled, Destinations
<1>3. CASE UNCHANGED <<handled, delivered>>
  <2> DEFINE lack == Cardinality(ToSet(handled) \ ToSet(delivered["main"]))
  <2>1. lack <= faults /\ IsFiniteSet(ToSet(handled))
    BY DEF DeliveryInv, DeliveredAsHandled
  <2>2. lack \in Nat
    BY <2>1, FS_Subset, FS_CardinalityType
  <2>3. lack' = lack
    BY <1>3
  <2>4. lack <= faults'
    <3> HIDE DEF lack
    <3> QED BY <2>1, <2>2, FaultsGrow
  <2>5. Cardinality(ToSet(handled') \ ToSet(delivered'["main"])) <= faults'
    BY <2>3, <2>4
  <2> HIDE DEF lack
  <2> QED BY <1>3, <2>5 DEF DeliveryInv, DeliveredAsHandled, InOrderOf
<1>4. HandleRecord \/ Restart \/ UNCHANGED <<handled, delivered>>
  BY DEF Next, Opening, Work, Put, StartWorker, EnterJob, SetHandler, WorkerGone, Listening,
     Stopping, Environment, StartManager, StartListener, RouterFails, EndListener, BeginStop,
     StopListener, StopManager, ManagerDies, OwnRecord, Time, loggingVars, logHistory
<1> QED BY <1>1, <1>2, <1>3, <1>4

LEMMA DeliveryIsInvariant ==
  Spec => [](RecordsInv /\ DeliveryInv)
<1>1. ASSUME Init
      PROVE  RecordsInv /\ DeliveryInv
  <2>1. IsInjective(<<>>) /\ InOrderOf(<<>>, <<>>) /\ ToSet(<<>>) = {} /\ Len(<<>>) = 0
    BY DEF IsInjective, InOrderOf, ToSet
  <2>2. RecordsInv
    BY <1>1, <2>1 DEF Init, RecordsInv, NoWorker
  <2>3. delivered \in [Destinations -> Seq(Records)]
    BY <1>1, EmptyIsTyped DEF Init
  <2>4. IsFiniteSet({}) /\ Cardinality({}) = 0 /\ {} \ {} = {}
    BY FS_EmptySet
  <2>5. faults = 0
    BY <1>1 DEF Init, RotationInit
  <2>6. handled = <<>> /\ \A d \in Destinations : delivered[d] = <<>>
    BY <1>1 DEF Init
  <2>7. ToSet(handled) = {} /\ \A d \in Destinations : ToSet(delivered[d]) = {}
    BY <2>1, <2>6
  <2>8. Cardinality(ToSet(handled) \ ToSet(delivered["main"])) <= faults
    BY <2>4, <2>5, <2>7 DEF Destinations
  <2>9. IsFiniteSet(ToSet(handled))
    BY <2>4, <2>7
  <2> QED BY <2>1, <2>2, <2>3, <2>6, <2>7, <2>8, <2>9
         DEF DeliveryInv, DeliveredAsHandled, Destinations
<1> QED BY <1>1, RecordsStep, DeliveryStep, RotationIsInvariant, RouterIsInvariant, PTL DEF Spec

\* Whichever handlers the root and the dlt logger share, and whichever of them fail:
\* each destination holds its records once and in the order they were handled, and
\* all of them but what the main file has dropped, which is one record for each of
\* its rollovers that failed and no more (_ParentWorkerHandler.emit,
\* RotatingFileHandler.doRollover, Handler.handleError).
THEOREM EveryDestinationIsServed ==
  Spec => []DeliveredAsHandled
<1>1. DeliveryInv => DeliveredAsHandled
  BY DEF DeliveryInv
<1> QED BY <1>1, DeliveryIsInvariant, PTL

\* Every variable of the log file, the router and the destinations keeps its type.
THEOREM LoggingIsTyped ==
  Spec => []TypeOK
<1>1. RotationInv /\ RouterInv /\ DeliveryInv => TypeOK
  BY DEF RotationInv, RouterInv, RouterTypeOK, DeliveryInv, TypeOK
<1> QED BY <1>1, RotationIsInvariant, RouterIsInvariant, DeliveryIsInvariant, PTL

---------------------------------------------------------------------------
(* How long a stop takes. *)

\* Steps to the end of a worker, and of handling what it has still to log.
WorkerWork ==
  IF worker.st = "gone" THEN 0
  ELSE 2 * (MaxPuts - worker.puts) + (IF worker.st = "boot" THEN 3
                                      ELSE IF worker.extension THEN 1 ELSE 2)

ListenerWork == Len(queue) + (IF listener = "running" THEN 1 ELSE 0)

\* Steps to the end of a scheduler that is stopping: the worker ends, the
\* listener comes to the sentinel, the router is closed.
StopWork == IF service = "stopping" THEN WorkerWork + ListenerWork + 3
            ELSE IF service = "joining" THEN ListenerWork + 1
            ELSE 0

\* While it stops, one of these can go on: the worker, close, or the listener.  A
\* listener it has left behind can end, for its manager is dead.
StopGoesOn ==
  /\ service \in {"stopping", "joining"} =>
       \/ worker.st # "gone"
       \/ service = "stopping" /\ ExecutorGone
       \/ service = "joining" /\ Joined
       \/ listener = "running" /\ (manager => queue # <<>>)
  /\ service = "stopped" /\ listener = "running" => ~manager

\* Each step of theirs uses up work, and none of the others makes more of it.
StopUsesUpWork ==
  service \in {"stopping", "joining"} =>
    /\ StopWork' <= StopWork
    /\ Work \/ Listening \/ Stopping => StopWork' < StopWork

\* A scheduler that joins the listener has one.
JoinInv == service = "joining" => listener # "none"

LEMMA JoinIsInvariant == Spec => []JoinInv
<1>1. Init => JoinInv
  BY DEF Init, JoinInv
<1>2. RouterInv /\ JoinInv /\ [Next]_loggingVars => JoinInv'
  <2> SUFFICES ASSUME RouterInv, JoinInv, [Next]_loggingVars
               PROVE  JoinInv'
    OBVIOUS
  <2>1. CASE QuietSteps
    BY <2>1 DEF QuietSteps, StartManager, StartListener, RouterFails, StartWorker, EnterJob,
       SetHandler, WorkerGone, BeginStop, OwnRecord, Time, JoinInv, router
  <2>2. CASE StopListener
    <3>1. manager /\ service = "stopping" => listener = "running"
      BY DEF RouterInv, LifeInv
    <3> QED BY <2>2, <3>1 DEF StopListener, JoinInv
  <2>3. CASE StopManager \/ Restart
    BY <2>3 DEF StopManager, Restart, JoinInv
  <2>4. CASE HandleRecord \/ EndListener \/ ManagerDies \/ \E kind \in Kinds : Put(kind)
    BY <2>4 DEF HandleRecord, EndListener, ManagerDies, Put, JoinInv
  <2>5. CASE UNCHANGED loggingVars
    BY <2>5 DEF loggingVars, router, JoinInv
  <2> QED BY <2>1, <2>2, <2>3, <2>4, <2>5, RouterSteps
<1> QED BY <1>1, <1>2, RouterIsInvariant, PTL DEF Spec

StopWorkIsNat == /\ WorkerWork \in Nat /\ ListenerWork \in Nat /\ Len(queue) \in Nat
                 /\ StopWork \in Nat

LEMMA StopWorkHasType == RouterTypeOK => StopWorkIsNat
<1> SUFFICES ASSUME RouterTypeOK
             PROVE  StopWorkIsNat
  OBVIOUS
<1>1. /\ worker.puts \in 0..MaxPuts /\ worker.st \in {"boot", "job", "gone"}
      /\ worker.extension \in BOOLEAN /\ MaxPuts \in Nat /\ queue \in Seq(Records \cup {Sentinel})
  BY LoggingAssumption DEF RouterTypeOK, Workers
<1>2. WorkerWork \in Nat
  BY <1>1 DEF WorkerWork
<1>3. Len(queue) \in Nat /\ ListenerWork \in Nat
  BY <1>1 DEF ListenerWork
<1>4. StopWork \in Nat
  BY <1>2, <1>3 DEF StopWork
<1> QED BY <1>2, <1>3, <1>4 DEF StopWorkIsNat

\* A scheduler that joins the listener finds it at work on a sentinel that is on
\* the queue, or free to notice that the manager is gone, or ended.
LEMMA StopHasAStep ==
  ASSUME RouterInv, JoinInv
  PROVE  StopGoesOn
<1>1. CASE service = "joining" /\ listener = "running" /\ manager
  <2>1. Len(queue) = Pending + 1 /\ Pending >= 0 /\ Pending \in Int
    BY <1>1 DEF RouterInv, RouterTypeOK, QueueInv, Pending
  <2>2. queue # <<>>
    BY <2>1
  <2> QED BY <1>1, <2>2 DEF StopGoesOn
<1>2. CASE service = "joining" /\ listener = "running" /\ ~manager
  BY <1>2 DEF StopGoesOn
<1>3. CASE service = "joining" /\ listener # "running"
  BY <1>3 DEF StopGoesOn, JoinInv, Joined, RouterInv, RouterTypeOK
<1>4. CASE service # "joining"
  <2>1. service = "stopped" => ~manager
    BY DEF RouterInv, LifeInv
  <2> QED BY <1>4, <2>1 DEF StopGoesOn, ExecutorGone
<1> QED BY <1>1, <1>2, <1>3, <1>4 DEF RouterInv, RouterTypeOK, StopGoesOn

LEMMA StopUsesUp ==
  ASSUME RouterInv, RouterInv', [Next]_loggingVars
  PROVE  StopUsesUpWork
<1> SUFFICES ASSUME service \in {"stopping", "joining"}
             PROVE  /\ StopWork' <= StopWork
                    /\ Work \/ Listening \/ Stopping => StopWork' < StopWork
  BY DEF StopUsesUpWork
<1>1. StopWorkIsNat /\ StopWorkIsNat'
  <2>1. RouterTypeOK /\ RouterTypeOK'
    BY DEF RouterInv
  <2> QED BY <2>1, StopWorkHasType, PTL
<1>2. PICK w \in Nat, w1 \in Nat, q \in Nat, q1 \in Nat, l \in Nat, l1 \in Nat, s \in Nat, s1 \in Nat :
        /\ w = WorkerWork /\ w1 = WorkerWork' /\ q = Len(queue) /\ q1 = Len(queue')
        /\ l = ListenerWork /\ l1 = ListenerWork' /\ s = StopWork /\ s1 = StopWork'
  BY <1>1 DEF StopWorkIsNat
<1>3. /\ service = "stopping" => s = w + l + 3
      /\ service = "joining" => s = l + 1
      /\ service' = "stopping" => s1 = w1 + l1 + 3
      /\ service' = "joining" => s1 = l1 + 1
      /\ service' \notin {"stopping", "joining"} => s1 = 0
  BY <1>2 DEF StopWork
<1>4. /\ listener = "running" => l = q + 1
      /\ listener # "running" => l = q + 0
      /\ listener' = "running" => l1 = q1 + 1
      /\ listener' # "running" => l1 = q1 + 0
  BY <1>2 DEF ListenerWork
<1>5. /\ UNCHANGED queue => q1 = q
      /\ UNCHANGED worker => w1 = w
      /\ UNCHANGED <<queue, listener>> => l1 = l
  <2>1. UNCHANGED queue => q1 = q
    BY <1>2
  <2>2. UNCHANGED worker => w1 = w
    BY <1>2 DEF WorkerWork
  <2>3. UNCHANGED <<queue, listener>> => l1 = l
    BY <1>2 DEF ListenerWork
  <2> QED BY <2>1, <2>2, <2>3
<1>6. /\ worker.puts \in 0..MaxPuts /\ MaxPuts \in Nat /\ worker \in Workers /\ worker' \in Workers
      /\ queue \in Seq(Records \cup {Sentinel}) /\ (worker.st # "gone" => service = "stopping")
      /\ service' \in Services
  BY LoggingAssumption DEF RouterInv, RouterTypeOK, LifeInv, Workers
<1>7. SUFFICES s1 <= s /\ (Work \/ Listening \/ Stopping => s1 < s)
  BY <1>2
<1>8. CASE EnterJob \/ SetHandler \/ WorkerGone
  <2>1. w1 < w
    <3> PICK p \in Nat : p = MaxPuts - worker.puts
      BY <1>6
    <3>1. CASE EnterJob
      <4>1. /\ worker.st = "boot"
            /\ worker'.st = "job" /\ worker'.puts = worker.puts /\ worker'.extension = FALSE
        BY <3>1, <1>6 DEF EnterJob, Workers
      <4>2. w = 2 * p + 3 /\ w1 = 2 * p + 2
        BY <4>1, <1>2 DEF WorkerWork
      <4> QED BY <4>2
    <3>2. CASE SetHandler
      <4>1. /\ worker.st = "job" /\ ~worker.extension
            /\ worker'.st = "job" /\ worker'.puts = worker.puts /\ worker'.extension = TRUE
        BY <3>2, <1>6 DEF SetHandler, Workers
      <4>2. w = 2 * p + 2 /\ w1 = 2 * p + 1
        BY <4>1, <1>2 DEF WorkerWork
      <4> QED BY <4>2
    <3>3. CASE WorkerGone
      <4>1. worker.st \in {"boot", "job"} /\ worker'.st = "gone"
        BY <3>3, <1>6 DEF WorkerGone, Workers
      <4>2. w1 = 0 /\ w \in {2 * p + 1, 2 * p + 2, 2 * p + 3}
        BY <4>1, <1>2 DEF WorkerWork
      <4> QED BY <4>2
    <3> QED BY <1>8, <3>1, <3>2, <3>3
  <2>2. UNCHANGED <<service, queue, listener>> /\ service = "stopping"
    BY <1>6, <1>8 DEF EnterJob, SetHandler, WorkerGone, router
  <2>3. s = w + l + 3 /\ s1 = w1 + l1 + 3 /\ l1 = l
    BY <2>2, <1>3, <1>5
  <2>4. s1 < s
    BY <2>1, <2>3
  <2> QED BY <2>4, <1>2
<1>9. CASE \E kind \in Kinds : Put(kind)
  <2>1. PICK kind \in Kinds : Put(kind)
    BY <1>9
  <2>2. UNCHANGED <<service, listener>> /\ service = "stopping"
    BY <1>6, <2>1 DEF Put
  <2>3. w1 = w - 2
    <3>1. PICK p \in Nat : p = MaxPuts - (worker.puts + 1)
      <4>1. worker.puts < MaxPuts
        BY <2>1 DEF Put
      <4>2. MaxPuts - (worker.puts + 1) \in Nat
        BY <1>6, <4>1
      <4> QED BY <4>2
    <3>2. /\ worker.st \in {"boot", "job"} /\ worker'.st = worker.st
          /\ worker'.puts = worker.puts + 1 /\ worker'.extension = worker.extension
      BY <2>1, <1>6 DEF Put, Workers
    <3>3. PICK k \in Nat : k = IF worker.st = "boot" THEN 3
                               ELSE IF worker.extension THEN 1 ELSE 2
      OBVIOUS
    <3>4. w1 = 2 * p + k
      BY <3>1, <3>2, <3>3, <1>2 DEF WorkerWork
    <3>5. MaxPuts - worker.puts = p + 1
      BY <3>1, <1>6
    <3>6. w = 2 * (p + 1) + k
      BY <3>2, <3>3, <3>5, <1>2 DEF WorkerWork
    <3> QED BY <3>1, <3>3, <3>4, <3>6
  <2>4. q1 \in {q, q + 1}
    BY <2>1, <1>2, <1>6 DEF Put
  <2>5. l1 <= l + 1
    BY <2>2, <2>4, <1>2, <1>4
  <2>6. s = w + l + 3 /\ s1 = w1 + l1 + 3
    BY <2>2, <1>3
  <2>7. s1 < s
    BY <2>3, <2>5, <2>6
  <2> QED BY <2>7, <1>2
<1>10. CASE HandleRecord \/ EndListener
  <2>1. UNCHANGED <<service, worker>> /\ listener = "running"
    BY <1>10 DEF HandleRecord, EndListener
  <2>2. l1 < l
    <3>1. CASE HandleRecord
      <4>1. queue # <<>> /\ queue' = Tail(queue) /\ listener' = listener
        BY <3>1 DEF HandleRecord
      <4>2. q1 = q - 1
        BY <4>1, <1>2, <1>6
      <4> QED BY <2>1, <4>1, <4>2, <1>2, <1>4
    <3>2. CASE EndListener
      <4>1. listener' = "ended" /\ (queue' = queue \/ (queue # <<>> /\ queue' = Tail(queue)))
        BY <3>2 DEF EndListener
      <4>2. q1 <= q
        BY <4>1, <1>2, <1>6
      <4> QED BY <2>1, <4>1, <4>2, <1>2, <1>4
    <3> QED BY <1>10, <3>1, <3>2
  <2>3. (s = w + l + 3 /\ s1 = w + l1 + 3) \/ (s = l + 1 /\ s1 = l1 + 1)
    BY <2>1, <1>3, <1>5
  <2>4. s1 < s
    BY <2>2, <2>3
  <2> QED BY <2>4, <1>2
<1>11. CASE StopListener
  <2>1. CASE manager
    <3>1. /\ service = "stopping" /\ service' = "joining" /\ queue' = Append(queue, Sentinel)
          /\ UNCHANGED listener
      BY <1>11, <2>1 DEF StopListener
    <3>2. q1 = q + 1
      BY <3>1, <1>2, <1>6
    <3>3. l1 = l + 1
      BY <3>1, <3>2, <1>2, <1>4
    <3> QED BY <3>1, <3>3, <1>2, <1>3
  <2>2. CASE ~manager
    <3>1. service = "stopping" /\ service' = "stopped"
      BY <1>11, <2>2 DEF StopListener
    <3> QED BY <3>1, <1>2, <1>3
  <2> QED BY <2>1, <2>2
<1>12. CASE StopManager
  <2>1. service = "joining" /\ service' = "stopped"
    BY <1>12 DEF StopManager
  <2> QED BY <2>1, <1>2, <1>3
<1>13. CASE ManagerDies
  <2>1. queue' = <<>> /\ UNCHANGED <<service, listener, worker>>
    BY <1>13 DEF ManagerDies
  <2>2. q1 = 0
    BY <2>1, <1>2
  <2>3. l1 <= l
    BY <2>1, <2>2, <1>2, <1>4
  <2>4. ~(Work \/ Listening \/ Stopping)
    <3>1. manager /\ ~manager'
      BY <1>13, <1>6 DEF ManagerDies
    <3> QED BY <2>1, <3>1, <1>13 DEF ManagerDies, Work, StartWorker, EnterJob, SetHandler,
           WorkerGone, Put, Listening, HandleRecord, EndListener, Stopping, BeginStop,
           StopListener, StopManager, router
  <2>5. (s = w + l + 3 /\ s1 = w + l1 + 3) \/ (s = l + 1 /\ s1 = l1 + 1)
    BY <2>1, <1>3, <1>5
  <2>6. s1 <= s
    BY <2>3, <2>5
  <2> QED BY <2>4, <2>6
<1>14. CASE Time \/ UNCHANGED loggingVars
  <2>1. UNCHANGED <<service, queue, listener, worker>>
    BY <1>14 DEF Time, loggingVars, router
  <2>2. s1 = s
    BY <2>1, <1>2 DEF StopWork, WorkerWork, ListenerWork
  <2>3. ~(Work \/ Listening \/ Stopping)
    <3>1. UNCHANGED <<service, manager, queue, listener, worker>>
      BY <1>14 DEF Time, loggingVars, router
    <3>2. ~Work
      <4>1. worker' = worker /\ service \in {"stopping", "joining"}
        BY <3>1
      <4>2. ~StartWorker
        BY <4>1 DEF StartWorker
      <4>3. ~EnterJob /\ ~SetHandler /\ ~WorkerGone
        BY <4>1, <1>6 DEF EnterJob, SetHandler, WorkerGone, Workers
      <4>4. ASSUME NEW kind \in Kinds, Put(kind)
            PROVE  FALSE
        <5>1. worker'.puts = worker.puts + 1
          BY <4>4, <1>6 DEF Put, Workers
        <5> QED BY <4>1, <5>1, <1>6
      <4> QED BY <4>2, <4>3, <4>4 DEF Work
    <3>3. ~Listening
      <4>1. queue # <<>> => Tail(queue) # queue
        BY <1>6
      <4> QED BY <3>1, <4>1 DEF Listening, HandleRecord, EndListener
    <3>4. ~Stopping
      BY <3>1, <1>6 DEF Stopping, BeginStop, StopListener, StopManager
    <3> QED BY <3>2, <3>3, <3>4
  <2> QED BY <2>2, <2>3, <1>2
<1>15. \/ EnterJob \/ SetHandler \/ WorkerGone \/ (\E kind \in Kinds : Put(kind))
       \/ HandleRecord \/ EndListener \/ StopListener \/ StopManager \/ ManagerDies
       \/ Time \/ UNCHANGED loggingVars
  BY DEF Next, Opening, StartManager, StartListener, RouterFails, Work, StartWorker, Listening,
     Stopping, BeginStop, Environment, Restart, OwnRecord
<1> QED BY <1>8, <1>9, <1>10, <1>11, <1>12, <1>13, <1>14, <1>15

\* A scheduler that is stopping is never left waiting for nobody: its worker is
\* still there, or close can go on, or the listener that close joins has a record,
\* the sentinel, or the end of the manager before it; nor is a listener that close
\* has not joined.  And what these have to do until the stop is used up by every
\* step of theirs, and is not added to by anything, the death of the manager
\* included.
THEOREM StopIsBounded ==
  Spec => /\ []StopGoesOn
          /\ [](StopWork \in Nat)
          /\ [][StopUsesUpWork]_loggingVars
<1>1. RouterInv /\ JoinInv => StopGoesOn
  BY StopHasAStep
<1>2. RouterInv => StopWork \in Nat
  BY StopWorkHasType DEF RouterInv, StopWorkIsNat
<1>3. RouterInv /\ RouterInv' /\ [Next]_loggingVars => StopUsesUpWork
  BY StopUsesUp
<1> QED BY <1>1, <1>2, <1>3, RouterIsInvariant, JoinIsInvariant, PTL DEF Spec

=============================================================================
