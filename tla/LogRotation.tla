---------------------------- MODULE LogRotation ----------------------------
(***************************************************************************)
(* One log file of RotatingFileHandler (core/logging.py), which rotates by *)
(* time and by size, and the backups beside it.  The handler it extends,   *)
(* TimedRotatingFileHandler of the standard library (Python 3.13), is      *)
(* external: it rolls over when rolloverAt has passed, names the backup    *)
(* after the time its interval began, does nothing when that name is       *)
(* taken, and deletes old backups whose names match extMatch.              *)
(*                                                                         *)
(* A tick of the clock is the second of a size suffix.  The file is as     *)
(* long as the records in it, and MaxBytes is counted in records.  A name  *)
(* is <<kind, time>>: "date" and "hour" names say the interval they began  *)
(* in, "second" names the exact time.                                      *)
(***************************************************************************)
EXTENDS Naturals, FiniteSets

CONSTANTS When,         \* rotate_when: "midnight" (the default) or "h"
          Interval,     \* ticks in a day for "midnight", in an hour for "h"
          MaxBytes,     \* max_bytes
          BackupCount,  \* backup_count
          MaxTime,      \* bound: the last tick of the clock
          MaxRecords,   \* bound: records of the process itself
          MaxFaults     \* bound: renames that fail

ASSUME RotationAssumption == /\ When \in {"midnight", "h"}
                             /\ Interval \in Nat \ {0}
                             /\ MaxBytes \in Nat \ {0}
                             /\ BackupCount \in Nat \ {0}
                             /\ MaxTime \in Nat
                             /\ MaxRecords \in Nat
                             /\ MaxFaults \in Nat

VARIABLES
  now,         \* the clock
  live,        \* length of the file that is written to
  lastWrite,   \* its modification time
  backups,     \* names of the backups
  rolloverAt,  \* self.rolloverAt
  suffix,      \* self.suffix: Own, or a literal name left by a failed rollover
  emits,       \* records emitted
  faults       \* renames that have failed

file == <<live, lastWrite, backups, rolloverAt, suffix, emits, faults>>
rotationVars == <<now, file>>

Own == <<"own", 0>>

\* The suffix of an interval that began at time t.
Stamp(t) == IF When = "midnight" THEN <<"date", (t \div Interval) * Interval>>
                                 ELSE <<"hour", (t \div Interval) * Interval>>
Second(t) == <<"second", t>>
Names == {"date", "hour", "second"} \X Nat

\* computeRollover: midnight comes at the same time every day, other
\* intervals begin when they are asked for.
NextRollover(t) ==
  IF When = "midnight" THEN (t \div Interval + 1) * Interval ELSE t + Interval

RotationTypeOK ==
  /\ now \in 0..MaxTime
  /\ live \in Nat
  /\ lastWrite \in 0..MaxTime
  /\ backups \in SUBSET Names
  /\ rolloverAt \in Nat
  /\ suffix \in Names \cup {Own}
  /\ emits \in Nat
  /\ faults \in 0..MaxFaults

RotationInit ==
  /\ now = 0
  /\ live = 0
  /\ lastWrite = 0
  /\ backups = {}
  /\ rolloverAt = NextRollover(0)
  /\ suffix = Own
  /\ emits = 0
  /\ faults = 0

---------------------------------------------------------------------------
(* Rolling over. *)

\* extMatch, as _build_file_handler overrides it: a date, an hour and perhaps
\* minutes and seconds.
Matches(name) == name[1] \in {"hour", "second"}

\* The names compare as strings: an hour comes before its minutes.
Precedes(a, b) ==
  LET hour(n) == n[2] \div Interval
  IN \/ hour(a) < hour(b)
     \/ hour(a) = hour(b) /\ a[1] = "hour" /\ b[1] = "second"
     \/ hour(a) = hour(b) /\ a[1] = b[1] /\ a[2] < b[2]

\* getFilesToDelete: all but the last BackupCount of the names that match.
FilesToDelete(names) ==
  LET matching == {n \in names : Matches(n)}
  IN {n \in matching : Cardinality({m \in matching : Precedes(n, m)}) >= BackupCount}

TimeIsUp == now >= rolloverAt

\* Mutant: the size is not looked at.
ShouldRolloverByTime == TimeIsUp

\* shouldRollover: time first, then the size of the file.
ShouldRollover == TimeIsUp \/ live >= MaxBytes

\* The name doRollover gives the backup: the exact time when the size was the
\* reason, otherwise what self.suffix makes of the start of the interval.
BackupName ==
  IF ~TimeIsUp THEN Second(now)
  ELSE IF suffix = Own THEN Stamp(rolloverAt - Interval) ELSE suffix

Write(size) ==
  /\ live' = size
  /\ lastWrite' = now
  /\ emits' = emits + 1

\* No rollover is due.
Append1 ==
  /\ ~ShouldRollover
  /\ Write(live + 1)
  /\ UNCHANGED <<backups, rolloverAt, suffix, faults>>

\* doRollover: rename the file, delete old backups, begin a new interval.  A
\* file that was never written is not renamed.
Rollover ==
  /\ ShouldRollover
  /\ BackupName \notin backups
  /\ LET names == IF live = 0 THEN backups ELSE backups \cup {BackupName}
     IN backups' = names \ FilesToDelete(names)
  /\ rolloverAt' = NextRollover(now)
  /\ Write(1)
  /\ UNCHANGED <<suffix, faults>>

\* The name is taken: nothing is rolled over, and the interval stays.
AlreadyRolledOver ==
  /\ ShouldRollover
  /\ BackupName \in backups
  /\ Write(live + 1)
  /\ UNCHANGED <<backups, rolloverAt, suffix, faults>>

\* The rename raises: emit drops the record, and doRollover does not get to
\* put the suffix back.
RenameFails ==
  /\ ShouldRollover
  /\ BackupName \notin backups
  /\ live > 0
  /\ faults < MaxFaults
  /\ faults' = faults + 1
  /\ suffix' = IF TimeIsUp THEN suffix ELSE Second(now)
  /\ emits' = emits + 1
  /\ UNCHANGED <<live, lastWrite, backups, rolloverAt>>

\* The record is in the file.
Written == Append1 \/ Rollover \/ AlreadyRolledOver

Emit == Written \/ RenameFails

\* The process itself logs.
LogRecord ==
  /\ emits < MaxRecords
  /\ Emit
  /\ UNCHANGED now

Tick ==
  /\ now < MaxTime
  /\ now' = now + 1
  /\ UNCHANGED file

\* A new process builds a handler for the file it finds.
Reopen ==
  /\ rolloverAt' = NextRollover(IF live = 0 THEN now ELSE lastWrite)
  /\ suffix' = Own
  /\ UNCHANGED <<now, live, lastWrite, backups, emits, faults>>

RotationNext == LogRecord \/ Tick \/ Reopen

RotationSpec == RotationInit /\ [][RotationNext]_rotationVars

---------------------------------------------------------------------------
(* Properties. *)

\* The backups on disk are never more than backup_count ("The number of backup
\* files to keep"), whichever of the two reasons made them.
BackupsAreBounded == Cardinality(backups) <= BackupCount

\* max_bytes holds up to one second: the file outgrows it only while a backup
\* made in the very second of its last record is in the way.  Excepted are runs
\* in which a rename has failed: the literal suffix it leaves can stop rotation.
LiveFileIsBounded ==
  faults = 0 /\ live > MaxBytes => Second(lastWrite) \in backups

=============================================================================
