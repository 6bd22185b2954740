--------------------------- MODULE ManagedDataflow ---------------------------
(***************************************************************************)
(* The jobs of one collector on one host, as their workers run them        *)
(* (scheduler/dataflow.py): each collects into files that the next job     *)
(* replaces, preprocesses them into a lookup database, and converts them   *)
(* into an output directory of its own.  The three stages are DLT          *)
(* pipelines whose names are those of the collector and not of the job.    *)
(*                                                                         *)
(* DLT is external.  A run of a pipeline first commits what it has         *)
(* extracted as a load package and then loads it table by table; a package *)
(* that was not loaded to its end stays pending, and a run that finds one  *)
(* loads that and does not look at the data it is given.  A worker ends    *)
(* when its job has completed, when a stage raises, or at any time when it *)
(* is killed.                                                              *)
(*                                                                         *)
(* Only the names of the job and the row numbers are kept of the rows.     *)
(***************************************************************************)
EXTENDS OpenGraphSource

CONSTANTS Root, Child,  \* a resource, and a transformer of its rows
          Made,         \* the table that the collector's transform makes in the lookup
          NoPackage,
          Hosts,        \* [windows, preprocessor]: platforms, and whether there is a lookup
          MaxRows,      \* bound: rows of the resource
          MaxJobs,      \* bound: jobs
          MaxAttempts   \* _MAX_TRANSIENT_RETRIES

ASSUME DataflowAssumption == /\ Root # Child
                             /\ Made \notin {Root, Child}
                             /\ Hosts \subseteq [windows : BOOLEAN, preprocessor : BOOLEAN]
                             /\ MaxRows \in Nat
                             /\ 1..MaxRows \subseteq DOMAIN EdgeCount
                             /\ MaxJobs \in Nat
                             /\ MaxAttempts \in Nat \ {0}

Tables == {Root, Child}
LookupTables == Tables \cup {Made}
Stages == {"collect", "preprocess", "convert"}

VARIABLES
  host,      \* one of Hosts
  job,       \* the number of the job
  status,    \* of the job: "none", "running", "completed", or "failed": raised or killed
  selected,  \* the tables of the source as the job's parameters make it
  stage,     \* the stage that runs
  phase,     \* "begin" or "load"
  attempt,   \* of BasePipeline._run
  pending,   \* stage -> its load package or NoPackage
  store,     \* the collected files: table -> [job, rows]
  lookup,    \* the lookup database: table -> the job whose rows it has or which
             \* made it, 0 for none
  output,    \* the files in the worker's output directory: table -> graph content
  \* History of this job.
  source,    \* how many rows the resource has
  yielded,   \* the rows its source has yielded: table -> row numbers in order
  cut,       \* tables that lack rows because their resource raised
  tainted,   \* a package was pending when it began
  before     \* the status of the job before

place == <<job, selected>>
data == <<store, lookup, output>>
origin == <<source, yielded, cut>>
vars == <<host, place, status, stage, phase, attempt, pending, data, origin, tainted, before>>

Jobs == 1..MaxJobs
Rows == 1..MaxRows
NoRows == [t \in Tables |-> <<>>]
NoFiles == [t \in Tables |-> <<>>]

TypeOK ==
  /\ host \in Hosts
  /\ job \in 0..MaxJobs
  /\ status \in {"none", "running", "completed", "failed"}
  /\ selected \subseteq Tables
  /\ stage \in Stages
  /\ phase \in {"begin", "load"}
  /\ attempt \in 1..MaxAttempts
  /\ \A s \in Stages : pending[s] # NoPackage =>
       /\ pending[s].todo \subseteq DOMAIN pending[s].content
       /\ DOMAIN pending[s].content \subseteq Tables
       /\ pending[s].fresh \in BOOLEAN
  /\ store \in [Tables -> [job : 0..MaxJobs, rows : Seq(Rows)]]
  /\ lookup \in [LookupTables -> 0..MaxJobs]
  /\ DOMAIN output = Tables
  /\ source \in 0..MaxRows
  /\ yielded \in [Tables -> Seq(Rows)]
  /\ cut \subseteq Tables
  /\ tainted \in BOOLEAN
  /\ before \in {"none", "completed", "failed"}

Init ==
  /\ host \in Hosts
  /\ job = 0
  /\ status = "none"
  /\ selected = {}
  /\ stage = "collect"
  /\ phase = "begin"
  /\ attempt = 1
  /\ pending = [s \in Stages |-> NoPackage]
  /\ store = [t \in Tables |-> [job |-> 0, rows |-> <<>>]]
  /\ lookup = [t \in LookupTables |-> 0]
  /\ output = NoFiles
  /\ source = 0
  /\ yielded = NoRows
  /\ cut = {}
  /\ tainted = FALSE
  /\ before = "none"

---------------------------------------------------------------------------
(* A job begins and ends. *)

NothingYielded == source' = 0 /\ yielded' = NoRows /\ cut' = {}

\* A new worker makes a new output directory and begins to collect.
StartJob ==
  /\ status # "running"
  /\ job < MaxJobs
  /\ job' = job + 1
  /\ before' = status
  /\ status' = "running"
  /\ selected' \in SUBSET Tables \ {{}}
  /\ stage' = "collect"
  /\ phase' = "begin"
  /\ attempt' = 1
  /\ output' = NoFiles
  /\ NothingYielded
  /\ tainted' = \E s \in Stages : pending[s] # NoPackage
  /\ UNCHANGED <<host, pending, store, lookup>>

Following == IF stage = "collect" /\ host.preprocessor THEN "preprocess" ELSE "convert"

\* The stage has returned: the next one begins, or the job has completed.
Advance ==
  IF stage = "convert"
  THEN /\ status' = "completed"
       /\ UNCHANGED <<stage, phase, attempt>>
  ELSE /\ stage' = Following
       /\ phase' = "begin"
       /\ attempt' = 1
       /\ UNCHANGED status

\* What the worker knew is gone, the name of its output directory with it.
Gone ==
  /\ status' = "failed"
  /\ stage' = "collect"
  /\ phase' = "begin"
  /\ attempt' = 1
  /\ selected' = {}
  /\ output' = NoFiles
  /\ NothingYielded

\* The worker is killed, and its output directory stays where it is.
Kill ==
  /\ status = "running"
  /\ Gone
  /\ UNCHANGED <<host, job, pending, store, lookup, tainted, before>>

---------------------------------------------------------------------------
(* Extraction. *)

\* safe_resource_wrapper: a generator that has raised yields nothing more, for
\* all that the wrapper asks it for the next item.
Guarded(rows, raisesAfter) == SubSeq(rows, 1, raisesAfter)

\* A transformer and a deferred call are guarded for each of their items.
GuardedItems(items, raising) ==
  FlattenSeq([i \in DOMAIN items |-> IF items[i] \in raising THEN <<>> ELSE <<items[i]>>])

SourceRows(size) == [n \in 1..size |-> n]

\* What the source yields of its rows: it may end early, and raise for some items.
Yields(size, last, raising) ==
  LET parents == Guarded(SourceRows(size), last)
  IN [t \in selected |-> IF t = Root THEN parents ELSE GuardedItems(parents, raising)]

\* Those of the tables that lack rows then.
CutBy(size, last, raising) ==
  {t \in selected : last < size \/ (t = Child /\ raising # {})}

\* Mutant: every declared asset is converted, whether or not this job collects it.
EveryTable == Tables

\* Of the assets those whose model a resource of this job's source has.
ValidResources == selected

RowsOf(t) == [i \in DOMAIN store[t].rows |->
               [job |-> store[t].job, table |-> t, n |-> store[t].rows[i]]]

\* What the assets of this job find when they look something up: any query may be
\* made of any table of the lookup, whoever's rows it has.
LookedUp == lookup

Package(content) ==
  [content |-> content, todo |-> DOMAIN content, fresh |-> TRUE, job |-> job]

Commit(content) ==
  /\ pending' = [pending EXCEPT ![stage] = Package(content)]
  /\ phase' = "load"
  /\ UNCHANGED <<host, place, status, stage, attempt, data, tainted, before>>

Extracting(s) == status = "running" /\ stage = s /\ phase = "begin" /\ pending[s] = NoPackage

ExtractCollected ==
  /\ Extracting("collect")
  /\ \E size \in 0..MaxRows : \E last \in 0..size : \E raising \in SUBSET (1..last) :
       LET rows == Yields(size, last, raising)
       IN /\ Commit(rows)
          /\ source' = size
          /\ yielded' = [t \in Tables |-> IF t \in selected THEN rows[t] ELSE <<>>]
          /\ cut' = CutBy(size, last, raising)

\* The resources to preprocess are those of the collector, whatever this job collects.
ExtractPreprocessed ==
  /\ Extracting("preprocess")
  /\ Commit([t \in Tables |-> store[t].job])
  /\ UNCHANGED origin

ExtractConverted ==
  /\ Extracting("convert")
  /\ Commit([t \in ValidResources |-> [graph |-> GraphContent(RowsOf(t)), lookedUp |-> LookedUp]])
  /\ UNCHANGED origin

\* What is pending is loaded, and not what this run was given.
Resume ==
  /\ status = "running"
  /\ phase = "begin"
  /\ pending[stage] # NoPackage
  /\ phase' = "load"
  /\ UNCHANGED <<host, place, status, stage, attempt, pending, data, origin, tainted, before>>

---------------------------------------------------------------------------
(* Loading. *)

Loading == status = "running" /\ phase = "load"
Pack == pending[stage]

\* The tables of the package are emptied first where they are to be replaced.
Truncate ==
  /\ Loading
  /\ Pack.fresh
  /\ pending' = [pending EXCEPT ![stage].fresh = FALSE]
  /\ store' = IF stage = "collect"
              THEN [t \in Tables |-> IF t \in DOMAIN Pack.content THEN [job |-> 0, rows |-> <<>>]
                                                                  ELSE store[t]]
              ELSE store
  /\ lookup' = IF stage = "preprocess"
               THEN [t \in LookupTables |-> IF t \in DOMAIN Pack.content THEN 0 ELSE lookup[t]]
               ELSE lookup
  /\ UNCHANGED <<host, place, status, stage, phase, attempt, output, origin, tainted, before>>

LoadTable(t) ==
  /\ Loading
  /\ ~Pack.fresh
  /\ t \in Pack.todo
  /\ pending' = [pending EXCEPT ![stage].todo = @ \ {t}]
  /\ store' = IF stage = "collect"
              THEN [store EXCEPT ![t] = [job |-> Pack.job, rows |-> Pack.content[t]]] ELSE store
  /\ lookup' = IF stage = "preprocess" THEN [lookup EXCEPT ![t] = Pack.content[t]] ELSE lookup
  /\ output' = IF stage = "convert" THEN [output EXCEPT ![t] = <<Pack.content[t]>>] ELSE output
  /\ UNCHANGED <<host, place, status, stage, phase, attempt, origin, tainted, before>>

\* The collector's transform makes its table of those that are loaded.  It may
\* fail in DuckDB, which is only logged: what an earlier one has made remains.
Transform == lookup' \in {lookup, [lookup EXCEPT ![Made] = job]}

FinishLoad ==
  /\ Loading
  /\ ~Pack.fresh
  /\ Pack.todo = {}
  /\ pending' = [pending EXCEPT ![stage] = NoPackage]
  /\ IF stage = "preprocess" THEN Transform ELSE UNCHANGED lookup
  /\ Advance
  /\ UNCHANGED <<host, place, store, output, origin, tainted, before>>

---------------------------------------------------------------------------
(* Exceptions. *)

\* Mutant: one attempt too many.
RetriedOnceMore(error) == host.windows /\ error = "rename" /\ attempt <= MaxAttempts

\* Windows locks freshly written files for a moment: the run is repeated.
Retried(error) == host.windows /\ error = "rename" /\ attempt < MaxAttempts

\* Mutant: an error is logged and the next stage begins.
RaisesSwallowed(error) ==
  IF Retried(error)
  THEN /\ attempt' = attempt + 1
       /\ phase' = "begin"
       /\ UNCHANGED <<status, stage, selected, output, origin>>
  ELSE Advance /\ UNCHANGED <<selected, output, origin>>

\* BasePipeline._run gets an error: it repeats the run or raises, and
\* _collect_in_worker removes the output directory.
Raises(error) ==
  IF Retried(error)
  THEN /\ attempt' = attempt + 1
       /\ phase' = "begin"
       /\ UNCHANGED <<status, stage, selected, output, origin>>
  ELSE Gone

\* The source cannot be made, a setting is missing, an asset cannot be made of a
\* row: nothing is committed.
ExtractionRaises ==
  /\ Extracting(stage)
  /\ \E error \in {"config", "extraction", "rename", "other"} : Raises(error)
  /\ UNCHANGED <<host, job, pending, store, lookup, tainted, before>>

\* A table cannot be loaded: the package stays pending, or DLT gives it up.
LoadRaises ==
  /\ Loading
  /\ \E error \in {"rename", "other"} : Raises(error)
  /\ UNCHANGED <<host, job, pending, store, lookup, tainted, before>>

LoadAborted ==
  /\ Loading
  /\ Raises("other")
  /\ pending' = [pending EXCEPT ![stage] = NoPackage]
  /\ UNCHANGED <<host, job, store, lookup, tainted, before>>

Extract == ExtractCollected \/ ExtractPreprocessed \/ ExtractConverted
Load == Truncate \/ (\E t \in Tables : LoadTable(t)) \/ FinishLoad
Next == StartJob \/ Extract \/ Resume \/ Load \/ ExtractionRaises \/ LoadRaises \/ LoadAborted
        \/ Kill

Spec == Init /\ [][Next]_vars

---------------------------------------------------------------------------
(* Properties. *)

RowsYielded(t) == [i \in DOMAIN yielded[t] |-> [job |-> job, table |-> t, n |-> yielded[t][i]]]

\* What is left pending is the business of a job that did not complete.  A job
\* that completes, and either found nothing pending or came after one that
\* completed, hands over what its own source has yielded, which is all there is
\* unless its resource raised: every node and edge once and in order, no row of
\* another job and no table it did not collect, however often a run was repeated.
\* In a table that it collected it has looked up its own rows only, and in one that
\* it did not, what the files of an earlier job still have; of what the transform
\* makes nothing is promised.
DeliversItsOwn ==
  status = "completed" /\ (~tainted \/ before # "failed") =>
    \A t \in Tables :
      IF t \in selected
      THEN /\ Len(output[t]) = 1
           /\ IsGraphOf(output[t][1].graph, RowsYielded(t))
           /\ t \in cut \/ yielded[t] = SourceRows(source)
           /\ host.preprocessor =>
                \A u \in Tables :
                  output[t][1].lookedUp[u] = IF u \in selected THEN job ELSE store[u].job
      ELSE output[t] = <<>>

=============================================================================
