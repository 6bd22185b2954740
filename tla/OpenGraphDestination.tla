------------------------ MODULE OpenGraphDestination ------------------------
(***************************************************************************)
(* The OpenGraph file destination (destinations/opengraph/destination.py). *)
(* DLT calls opengraph_file once for each load job, several at a time, and *)
(* again after an exception, or when a process that died in a load is      *)
(* started again.  A job writes its items in parts to a staging directory, *)
(* moves the parts to the output directory, and leaves a completion marker *)
(* for the next call.                                                      *)
(*                                                                         *)
(* A part is the sequence of its items, or Torn while it is being written. *)
(* pc[j] is where the call for job j is:                                   *)
(*   "idle"             no call                                            *)
(*   "clear"            removing and making the staging directory          *)
(*   "read"             in the loop over the items                         *)
(*   "write", "fill"    in _write_part, before and after opening the file  *)
(*   "publish"          moving parts                                       *)
(*   "mark", "rename"   before and after writing the temporary marker      *)
(*   "sweep"            removing the staging directory                     *)
(*   "return"           about to return                                    *)
(***************************************************************************)
EXTENDS Naturals, SequencesExt

CONSTANTS LoadJobs,
          ItemCount,   \* items of each load job
          PartSize,    \* DESTINATION_ITEM_BATCH_SIZE
          Torn, NotYet,
          MaxFaults    \* bound: exceptions, given-up loads and deaths

ASSUME CountAssumption == ItemCount \in [LoadJobs -> Nat]
ASSUME SizeAssumption == PartSize \in Nat \ {0}
ASSUME FaultAssumption == MaxFaults \in Nat

VARIABLES
  pc,
  read,        \* items read by this call
  batch,
  number,      \* part_number
  staging,     \* staged parts of each job, by number
  output,      \* published parts of each job, by number
  marker,      \* "none", "tmp", "whole"
  acked,       \* jobs DLT has recorded as completed
  status,      \* of the load: "loading", "raised", "down", "returned", "discarded"
  listed,      \* parts the caller found when the load returned
  faults

call == <<pc, read, batch, number>>
disk == <<staging, output, marker>>
load == <<acked, status, listed, faults>>
vars == <<call, disk, load>>

Locations == {"idle", "clear", "read", "write", "fill", "publish", "mark", "rename",
              "sweep", "return"}

Parts(j) == (ItemCount[j] + PartSize - 1) \div PartSize
Contents(j) == {Torn} \cup {[i \in 1..n |-> k + i] : n \in 1..PartSize, k \in 0..ItemCount[j]}
Empty == <<>>

TypeOK ==
  /\ pc \in [LoadJobs -> Locations]
  /\ \A j \in LoadJobs :
       /\ read[j] \in 0..ItemCount[j]
       /\ Len(batch[j]) <= PartSize
       /\ number[j] \in 0..Parts(j)
       /\ DOMAIN staging[j] \subseteq 1..Parts(j)
       /\ DOMAIN output[j] \subseteq 1..Parts(j)
       /\ \A n \in DOMAIN staging[j] : staging[j][n] \in Contents(j)
  /\ marker \in [LoadJobs -> {"none", "tmp", "whole"}]
  /\ acked \subseteq LoadJobs
  /\ status \in {"loading", "raised", "down", "returned", "discarded"}
  /\ faults \in 0..MaxFaults

Init ==
  /\ pc = [j \in LoadJobs |-> "idle"]
  /\ read = [j \in LoadJobs |-> 0]
  /\ batch = [j \in LoadJobs |-> <<>>]
  /\ number = [j \in LoadJobs |-> 0]
  /\ staging = [j \in LoadJobs |-> Empty]
  /\ output = [j \in LoadJobs |-> Empty]
  /\ marker = [j \in LoadJobs |-> "none"]
  /\ acked = {}
  /\ status = "loading"
  /\ listed = [j \in LoadJobs |-> Empty]
  /\ faults = 0

---------------------------------------------------------------------------
(* One call. *)

Goto(j, l) == pc' = [pc EXCEPT ![j] = l]

\* f with value v at n, whether or not n is in its domain.
With(f, n, v) == [m \in DOMAIN f \cup {n} |-> IF m = n THEN v ELSE f[m]]
Without(f, n) == [m \in DOMAIN f \ {n} |-> f[m]]

\* DLT calls the destination for a job it has not recorded as completed.
Start(j) ==
  /\ status = "loading"
  /\ pc[j] = "idle"
  /\ j \notin acked
  /\ Goto(j, IF marker[j] = "whole" THEN "return" ELSE "clear")
  /\ UNCHANGED <<read, batch, number, disk, load>>

\* Mutant: a staging directory that is there already is left as it is.
EraseOneOnlyAfter(j) ==
  /\ pc[j] = "sweep"
  /\ \E n \in DOMAIN staging[j] : staging' = [staging EXCEPT ![j] = Without(@, n)]
  /\ UNCHANGED <<call, output, marker, load>>

\* rmtree of the staging directory, a file at a time.
EraseOne(j) ==
  /\ pc[j] \in {"clear", "sweep"}
  /\ \E n \in DOMAIN staging[j] : staging' = [staging EXCEPT ![j] = Without(@, n)]
  /\ UNCHANGED <<call, output, marker, load>>

\* Mutant: part numbers go on from the previous call.
ClearKeepingNumber(j) ==
  /\ pc[j] = "clear"
  /\ staging[j] = Empty
  /\ read' = [read EXCEPT ![j] = 0]
  /\ batch' = [batch EXCEPT ![j] = <<>>]
  /\ Goto(j, "read")
  /\ UNCHANGED <<number, disk, load>>

\* Mutant: a batch an interrupted call left goes into the first part.
ClearKeepingBatch(j) ==
  /\ pc[j] = "clear"
  /\ staging[j] = Empty
  /\ read' = [read EXCEPT ![j] = 0]
  /\ number' = [number EXCEPT ![j] = 0]
  /\ Goto(j, "read")
  /\ UNCHANGED <<batch, disk, load>>

Clear(j) ==
  /\ pc[j] = "clear"
  /\ staging[j] = Empty
  /\ read' = [read EXCEPT ![j] = 0]
  /\ batch' = [batch EXCEPT ![j] = <<>>]
  /\ number' = [number EXCEPT ![j] = 0]
  /\ Goto(j, "read")
  /\ UNCHANGED <<disk, load>>

Read(j) ==
  /\ pc[j] = "read"
  /\ read[j] < ItemCount[j]
  /\ read' = [read EXCEPT ![j] = @ + 1]
  /\ batch' = [batch EXCEPT ![j] = Append(@, read[j] + 1)]
  /\ Goto(j, IF Len(batch[j]) + 1 = PartSize THEN "write" ELSE "read")
  /\ UNCHANGED <<number, disk, load>>

\* Mutant: the last, shorter batch is forgotten.
EndOfItemsForgettingRest(j) ==
  /\ pc[j] = "read"
  /\ read[j] = ItemCount[j]
  /\ Goto(j, "publish")
  /\ UNCHANGED <<read, batch, number, disk, load>>

EndOfItems(j) ==
  /\ pc[j] = "read"
  /\ read[j] = ItemCount[j]
  /\ Goto(j, IF batch[j] # <<>> THEN "write" ELSE "publish")
  /\ UNCHANGED <<read, batch, number, disk, load>>

OpenPart(j) ==
  /\ pc[j] = "write"
  /\ number' = [number EXCEPT ![j] = @ + 1]
  /\ staging' = [staging EXCEPT ![j] = With(@, number[j] + 1, Torn)]
  /\ Goto(j, "fill")
  /\ UNCHANGED <<read, batch, output, marker, load>>

ClosePart(j) ==
  /\ pc[j] = "fill"
  /\ staging' = [staging EXCEPT ![j] = With(@, number[j], batch[j])]
  /\ batch' = [batch EXCEPT ![j] = <<>>]
  /\ Goto(j, "read")
  /\ UNCHANGED <<read, number, output, marker, load>>

\* Mutant: the marker is written when there is still a part to move.
PublishMarkingEarly(j) ==
  /\ pc[j] = "publish"
  /\ \E n \in DOMAIN staging[j] :
       /\ \A m \in DOMAIN staging[j] : n <= m
       /\ output' = [output EXCEPT ![j] = With(@, n, staging[j][n])]
       /\ staging' = [staging EXCEPT ![j] = Without(@, n)]
  /\ marker' = [marker EXCEPT ![j] = "whole"]
  /\ UNCHANGED <<call, load>>

\* One move, which replaces the file of an earlier call.
Publish(j) ==
  /\ pc[j] = "publish"
  /\ \E n \in DOMAIN staging[j] :
       /\ \A m \in DOMAIN staging[j] : n <= m
       /\ output' = [output EXCEPT ![j] = With(@, n, staging[j][n])]
       /\ staging' = [staging EXCEPT ![j] = Without(@, n)]
  /\ UNCHANGED <<call, marker, load>>

Published(j) ==
  /\ pc[j] = "publish"
  /\ staging[j] = Empty
  /\ Goto(j, "mark")
  /\ UNCHANGED <<read, batch, number, disk, load>>

WriteMarker(j) ==
  /\ pc[j] = "mark"
  /\ marker' = [marker EXCEPT ![j] = "tmp"]
  /\ Goto(j, "rename")
  /\ UNCHANGED <<read, batch, number, staging, output, load>>

Commit(j) ==
  /\ pc[j] = "rename"
  /\ marker' = [marker EXCEPT ![j] = "whole"]
  /\ Goto(j, "sweep")
  /\ UNCHANGED <<read, batch, number, staging, output, load>>

Sweep(j) ==
  /\ pc[j] = "sweep"
  /\ staging[j] = Empty
  /\ Goto(j, "return")
  /\ UNCHANGED <<read, batch, number, disk, load>>

\* The call returns and DLT records the job as completed.
Ack(j) ==
  /\ pc[j] = "return"
  /\ acked' = acked \cup {j}
  /\ Goto(j, "idle")
  /\ UNCHANGED <<read, batch, number, disk, status, listed, faults>>

\* Mutant: an exception is taken for the end of the job.
RaiseSwallowed(j) ==
  /\ pc[j] \notin {"idle", "return"}
  /\ faults < MaxFaults
  /\ faults' = faults + 1
  /\ acked' = acked \cup {j}
  /\ Goto(j, "idle")
  /\ UNCHANGED <<read, batch, number, disk, status, listed>>

\* A file operation or reading the items raises.  DLT keeps the job for another
\* call.
Raise(j) ==
  /\ pc[j] \notin {"idle", "return"}
  /\ faults < MaxFaults
  /\ faults' = faults + 1
  /\ Goto(j, "idle")
  /\ UNCHANGED <<read, batch, number, disk, acked, status, listed>>

---------------------------------------------------------------------------
(* The load, as DLT runs it and _collect_in_worker or the command line uses it. *)

Idle == \A j \in LoadJobs : pc[j] = "idle"

\* DLT has retried a job often enough (it has failed at least once): pipeline.run
\* raises.
GiveUp ==
  /\ status = "loading"
  /\ Idle
  /\ faults \in 1..(MaxFaults - 1)
  /\ acked # LoadJobs
  /\ faults' = faults + 1
  /\ status' = "raised"
  /\ UNCHANGED <<call, disk, acked, listed>>

Die ==
  /\ status = "loading"
  /\ faults < MaxFaults
  /\ faults' = faults + 1
  /\ status' = "down"
  /\ pc' = [j \in LoadJobs |-> "idle"]
  /\ UNCHANGED <<read, batch, number, disk, acked, listed>>

\* pipeline.run again, into the same directory: DLT resumes the pending jobs.
Rerun ==
  /\ status \in {"raised", "down"}
  /\ status' = "loading"
  /\ UNCHANGED <<call, disk, acked, listed, faults>>

\* _collect_in_worker removes the output of a pipeline that raised.
Discard ==
  /\ status = "raised"
  /\ status' = "discarded"
  /\ staging' = [j \in LoadJobs |-> Empty]
  /\ output' = [j \in LoadJobs |-> Empty]
  /\ marker' = [j \in LoadJobs |-> "none"]
  /\ UNCHANGED <<call, acked, listed, faults>>

\* pipeline.run returns and the caller lists the files.
Return ==
  /\ status = "loading"
  /\ acked = LoadJobs
  /\ status' = "returned"
  /\ listed' = output
  /\ UNCHANGED <<call, disk, acked, faults>>

Call(j) ==
  \/ Start(j) \/ EraseOne(j) \/ Clear(j) \/ Read(j) \/ EndOfItems(j) \/ OpenPart(j)
  \/ ClosePart(j) \/ Publish(j) \/ Published(j) \/ WriteMarker(j) \/ Commit(j) \/ Sweep(j) \/ Ack(j)

Ended == status \in {"returned", "discarded"} /\ UNCHANGED vars

Next == \/ \E j \in LoadJobs : Call(j) \/ Raise(j)
        \/ GiveUp \/ Die \/ Rerun \/ Discard \/ Return \/ Ended

Spec == Init /\ [][Next]_vars

\* Calls go on, loads return, and somebody deals with a load that did not.
Fairness == /\ \A j \in LoadJobs : WF_vars(Call(j))
            /\ WF_vars(Return)
            /\ WF_vars(Rerun \/ Discard)

FairSpec == Spec /\ Fairness

---------------------------------------------------------------------------
(* Properties. *)

\* The items of part n in a run without faults.
Slice(j, n) == SubSeq([i \in 1..ItemCount[j] |-> i], (n - 1) * PartSize + 1,
                      IF n = Parts(j) THEN ItemCount[j] ELSE n * PartSize)

\* Whatever call wrote it, a file in the output directory has the items its
\* number stands for: no torn file, none of another attempt, none twice.
PublishedIsWhole ==
  \A j \in LoadJobs : \A n \in DOMAIN output[j] :
    n \in 1..Parts(j) /\ output[j][n] = Slice(j, n)

\* The parts a reader finds for job j: in the directory while it waits for
\* markers, in the list it made when the load returned.
Readable(j) == IF status = "returned" THEN listed[j] ELSE output[j]

Export == INSTANCE OpenGraphExport WITH
  exported <- [j \in LoadJobs |->
                IF marker[j] = "whole" \/ status = "returned"
                  THEN FlattenSeq([n \in 1..Cardinality(DOMAIN Readable(j)) |-> Readable(j)[n]])
                  ELSE NotYet],
  status <- IF status \in {"raised", "down"} THEN "loading" ELSE status

\* To a reader who waits for markers, or for the load to return, each job is
\* exported in one step: a call that finds the marker may return at once, since
\* every part is out, and what the caller lists for upload is every item of every
\* job, each once and in order.
KeepsExport == Export!Spec

\* With finitely many faults the load ends: no marker and no leftover directory
\* keeps a job from being taken up again.
LoadEnds == <>(status \in {"returned", "discarded"})
=============================================================================
