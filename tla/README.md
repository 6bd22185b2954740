# OpenHound: TLA+ models and proofs

OpenHound collects data with DLT pipelines and delivers it to BloodHound Enterprise (BHE). Most of
it is sequential data handling. The part that is hard to get right is the scheduler service, which
runs unattended, talks to a queue over an unreliable network, hands the work to a worker process
and has to survive lost answers, expired leases, rejected uploads, signals and crashes with nothing
but its memory. This directory models that part first and the components around it next.

Paths below are relative to `src/src/openhound/`; `PROJECT.json` maps every definition to its lines.

## 1. Inventory

| Component | Code | State it keeps | Operations | What is hard |
|---|---|---|---|---|
| Managed scheduler | `scheduler/service.py` | pending claim, start and failure; running job; future with its `Result`; exit flag | poll, claim, prepare, start, submit, upload, end, heartbeat, abort, shutdown | every request may be lost before or after it took effect; the lease moves by itself; the worker and signals interleave with the loop |
| BHE queue (external) | used in `core/clients/bloodhound_enterprise.py` | per job: available, claimed, running, ended; lease | discovery, claim, start, heartbeat, ingest, end | repeated calls, other collectors |
| Unmanaged scheduler, support bundles | `scheduler/service.py` | running job, future | discovery, start, end, management operations | lost answers without recovery state |
| OpenGraph file destination | `destinations/opengraph/destination.py` | staging, output and commit directories | write part, publish, mark committed | crash between renames, retries of a load job |
| AWS profile workspaces | `scheduler/aws_profile.py` | directories, three file locks | create, reap, enter, leave, clean up | several schedulers and workers on one directory tree |
| BHE requests | `core/clients/bloodhound*.py`, `bhe_credentials.py`, `src/scheduler.py` | token pair, body position | sign, send, refresh on 401, start-up read of the pair | repeating a partly read body; a pair rotated under the client |
| Secrets Manager client | `core/clients/aws_secrets_manager.py` | values and failures of one call | single and batched retrieval, error classes | partial failure of a batch; SDK messages that echo secrets |
| Logging | `core/logging.py` | worker queue, manager process, listener thread, rotated files | route, close, rotate | order of close and drain, a dead manager, two reasons to rotate |
| BloodHound destinations | `destinations/bloodhound/`, `destinations/bloodhound_enterprise/` | set of existing entries, read once per batch | create, overwrite, permissions, ingest | requests carried out unnoticed, batches begun again |
| Pipelines | `core/pipeline.py`, `resources.py`, `collect.py`, `preproc.py`, `convert.py`, `lookup.py`, `scheduler/dataflow.py` | collected files, lookup database, DLT's pending packages | collect, preprocess, convert, with retries | what one job leaves for the next |
| OpenGraph source | `sources/opengraph/source.py` | edges not yet yielded | pages to batches | batch and page boundaries |
| Managed configuration | `scheduler/configuration.py`, `config.py` | providers of one worker process | install, remove | not modelled: one job per process |
| Framework | `core/app.py`, `manager.py`, `asset.py` | none that changes | guards around collectors, registration | the guards are part of the pipelines' model |
| CLI, docs, data models | `cli/`, `docs/`, models | none that changes | rendering, schemas | not modelled: nothing changes over time |

### How the components interact

The scheduler process polls BHE over HTTP (`client.request`), submits `_subprocess_collect` to a
one-worker `ProcessPoolExecutor`, and reads the worker's `Result` from its future. Worker and
scheduler share the disk: staged output, the AWS profile workspace, and log records over a queue.
The worker runs DLT pipelines, which call the OpenGraph destination for each load job. A managed
scheduler uploads the staged files itself after the worker has returned; an unmanaged worker
delivers its own results. Between jobs an unmanaged scheduler also carries out support-bundle
operations. Signals set one flag that the loop reads between polls.

### What makes each component correct

* Managed scheduler: no claim is lost sight of, one job in hand, one worker and one outcome per
  claim, success only when every file was taken, silence after a lost claim, a stop that ends.
* Unmanaged scheduler: the status BHE has is what the worker did, although `end` names no job; no
  job is collected twice; a started support bundle is ended and a succeeded one is whole.
* OpenGraph destination: a published file is whole and final, a marked job complete, whatever was
  retried.
* AWS workspaces: no reaper removes what somebody uses; credentials are gone before results are
  reported and in the end in any case.
* Requests: a repeated request has the same body, and after a rotation the client comes to use the
  pair in force. Secrets: every requested secret ends as a value or a failure of its own, and what
  is logged repeats nothing the SDK echoes.
* Logging: accepted worker records are handled once, in order and before the close; every
  destination has them; a stop ends; files and backups stay bounded.
* BloodHound destinations: an item is neither left out nor made twice, and public if it should be.
* Pipelines and OpenGraph source: what a completed job hands over is exactly what its own source
  yielded.

## 2. Modules and plan

| Order | Module | Models | Abstract specification | State |
|---|---|---|---|---|
| 1 | `CollectorQueue` | the managed queue (external) | | done |
| 1 | `ManagedScheduler` | managed mode of `Service`, composed with the queue | `JobContract` | done, proved |
| 2 | `AWSProfileWorkspaces` | `scheduler/aws_profile.py` and its use by the service | | done, proved |
| 3 | `OpenGraphDestination` | `destinations/opengraph/destination.py` and its use | `OpenGraphExport` | done, proved |
| 4 | `SupportBundle`, `UnmanagedScheduler` | unmanaged mode of `Service` and the bundle it sends | | done, proved |
| 5 | `LogRotation`, `WorkerLogging` | rotation of a file; worker queue, router, listener, close | `LogChannel` | done, proved |
| 6 | `SecretRetrieval`, `BHEClient` | Secrets Manager client; signing, 401 refresh, rotation of the token pair | | done, proved |
| 7 | `ConfigUpload` | the three destinations that write to BloodHound | | done, proved |
| 8 | `OpenGraphSource`, `ManagedDataflow` | batching of nodes and edges; collect, preprocess and convert of one job after another | reference `IsGraphOf` | done, proved |

*Proved* means: the type invariant, every safety invariant the runs check and the refinement of the
abstract specification. The liveness properties stay with TLC; for most of them the bound or the
order that makes them safe to expect is proved (section 4).

Conventions. `MC` modules give model values and symmetry sets for TLC. A `_proofs` module holds the
theorems of the module it extends. A definition marked *Mutant* is the definition after it with a
plausible bug; no action uses it, and substituting it must break the property it is paired with in
`PROJECT.json`. Variables commented as history record what happened and are read by no guard.

### ManagedScheduler and CollectorQueue

`pc` is the place in the poll (`_poll`, `_poll_managed_jobs`, `_launch_job`,
`_handle_completed_job`, `_shutdown`); `pendingClaim`, `pendingStart`, `pendingFailure`,
`jobRunning` and `future` are the fields of `Service` with those names. Each HTTP request is one
action per outcome: answered, unanswered (carried out by the queue or not), refused. The retry
loops of `claim_managed_job` and `end_managed_job` are the actions that count `attempt`. Steps of
the queue (leases that expire, jobs that are taken back, other collectors), of the worker, signals,
crashes and restarts come between any two requests. `HeartbeatsDisabled` is the switch
`_MANAGED_HEARTBEATS_DISABLED`: one run has it as shipped, the other has heartbeats on. Two calls on
disk may raise wherever they are made. `rmtree` of an output is caught (`_remove_job_output`) or
leaves its directory behind with the exception (`_collect_in_worker`): `abandoned` has the jobs with
such a directory. The removal of the workspace (`workspace`) is not caught by those it interrupts:
`_handle_completed_job` is repeated by the next poll (`BeginCompletion`); after a failed submission
`_clear_running_job` resets nothing, and the job is `Stuck`, in hand without a future
(`ClearRaises`); in an abort the exception leaves `start`, and `_shutdown` begins with the job in
hand (`HeartbeatRefusedRaising`). The queue is
external and modelled as permissively as its use in the client, the service and
`tests/test_bhe_job_scheduling.py` allows.

`JobContract` is what the queue sees of one claim: one worker, files in order with repetitions but
no gap, then one outcome any number of times, and nothing after a refusal. The refinement maps the
contract's variables to the scheduler's history of submissions, accepted uploads, sent outcomes and
refusals.

### AWSProfileWorkspaces

Scheduler processes (`sp`) create, use, erase and reap directories; the worker of a directory
(`wp`) enters it, writes and erases credentials, and leaves. `registry`, `parentLock`, `workerLock`
are the three file locks. Taking a lock and letting go of it are steps; `_reap_orphans` tries the
two locks of a directory (`Examine`), lets go of them, and removes it in a later step (`Remove`).
Processes die at any step and their locks go with them; a removal may fail. The state `"stuck"` is
real: when the cleanup after a failed submission raises, `_clear_running_job` does not get to reset
`job_running`, no future is set, and the scheduler waits for nothing until it is restarted.
The contents of the profile, its validation and redaction are left out. Directory names are reused
once nothing refers to them, which stands for fresh names.

### OpenGraphDestination

Each load job's call is a small process: clear staging, read items, write a part in two steps (a
death in between leaves it torn), move the parts one by one, write the temporary marker, rename it,
sweep. An item is its number, a part the sequence of its items. DLT is external: it calls a job
again after an exception, gives up after one, or resumes after a death. What the worker does with a
load that raised (`_collect_in_worker` removes the directory) and with one that returned (it lists
the files) is part of the module. `OpenGraphExport` is the one-step version of each job; the
refinement maps a marked job to its concatenated parts.

### SupportBundle and UnmanagedScheduler

`SupportBundle` is the sequence start, archive, upload session, parts, complete, end, with the
client's retry loop, the except clause that ends the operation as failed and the finally clause.
`UnmanagedScheduler` extends it and runs its steps between two polls. BHE is external. Assumed of
it: a client has one current job, the last one started; `/api/v2/jobs/end` ends that one and
answers also when there is none; an ended operation stays ended. A session may ask for any number
of parts. Not modelled: which log files an archive has, checksums, the metadata update at start
(its failure is logged and changes nothing).

### LogRotation and WorkerLogging

`LogRotation` is one file of `RotatingFileHandler`. The class adds a size limit to the standard
`TimedRotatingFileHandler`, which is external: it names a backup after the interval, leaves the file
alone when that name exists, and deletes old backups whose names match `extMatch`. Names are pairs
of kind and time. A rename that raises keeps the literal suffix of a size rollover (`RenameFails`);
such a stale suffix can stop rotation for good, which `LiveFileIsBounded` excepts and nothing in the
repository speaks of.

`WorkerLogging` extends it: `queue`, `manager` and `listener` are the fields of `WorkerLogRouter`,
`worker` is the process with its handler, its job and its extension (`_worker_context`,
`_worker_extension`). A record carries what `prepare` adds in the worker. `HandleRecord` is the
whole of `_ParentWorkerHandler.emit`: the handlers of the root and of the record's own logger, the
extension's file if it opens, `seen`, levels, and a custom destination that may raise; the main
file rolls over in the same step, and the record is not in it when the rollover raises. A dead
manager makes `listener.stop` raise before it joins the thread: `close` goes on, and the thread ends
by itself when its next `get` fails. `LogChannel` is the promise: handled is a prefix of accepted, and
the channel closes only when they agree or the manager has died. What redaction does to a record is
left out.

### SecretRetrieval and BHEClient

`SecretRetrieval` has the error classifiers as operators on kinds of errors, a text being the set of
things it says, and `get_secrets` batch by batch. AWS may answer a batch with any mixture of values,
unreadable values, errors and omissions, or raise. When name and ARN of one secret are in one batch,
the value is filed under the name and the ARN counts as missing; `BatchesAreExact` says so. Nothing
in `src/` calls `get_secrets`; the run gives it a caller of its own (role `library`).
`BHEClient` extends it: a request is signed from where its file stands, sent, and repeated once
after a 401 with the pair that is then in the secret. `pair`, `secret` and `bhePair` are the pairs of
the client, the secret and BHE, which somebody rotates one before the other. Reading may stop anywhere in
the body. The messages of failed reads go through `Told`, those of a job's secret through
`Diagnostics`.

### ConfigUpload

One load of `saved_searches`, `privilege_zones` or `ingest`. A container is a zone, a key a name in
it. DLT is external: it begins a batch that raised again from its first item, and fails the load
after some attempts. Every request may raise with or without having been carried out, and another
user may add entries. `Limit` stands for the 999 selectors one request returns. What the code cannot
rule out is named in the properties: two equal keys in one batch, entries beyond the limit, and,
under `skip`, a search whose permissions could not be set.

### OpenGraphSource and ManagedDataflow

`OpenGraphSource` is `_generate_graph_content` as functions that recurse over the rows of a page and
the edges of a row; `IsGraphOf` says what the result must be whatever the pages and batches. A row is
its number, what a source yields a sequence of them. `ManagedDataflow` runs the jobs of one
collector one after another, as `dataflow.pipeline` does in its workers, over what they share:
the collected files in `/tmp/openhound`, `lookup.duckdb`, and DLT's pipeline directories, named
after the collector. DLT (1.26) is external: a run extracts and commits a package, then loads it
table by table; a run that finds a pending package loads that and ignores its own data. A guarded
generator ends with its first exception, so later items are lost although the docstring of its
wrapper (`core/resources.py:49`) has it continue; a guarded transformer or deferred call loses only
the item. Some jobs of a source take fewer resources than the collector has (`selected`), which is
where tables of an earlier job could slip in. A lookup may ask any query of the whole database, so
`LookedUp` is all of it: the tables preprocessing loads, which are those of the collector and not of
the job, and the one a collector's transform makes of them (`Made`). `source` is how many rows there
were, `yielded` what of them the source has yielded, `cut` the tables a raising resource left short.
`DeliversItsOwn` says that a job hands over what was yielded, that this is everything but for `cut`,
and that in the tables the job has collected it has looked up its own rows. It excepts what the code
does not handle: a job that follows a failed one and finds its package pending; lookups in tables
the job has not collected, which have the rows their files still have; and the transform's table,
which an earlier job's stays when the transform fails.

## 3. Runs

| Run | Instance | Question |
|---|---|---|
| `managed_two_jobs` | 2 jobs, 1 file, 2 attempts, heartbeats as shipped, symmetry | tracking of claims, one job in hand |
| `managed_one_job` | 1 job, 2 files, 2 attempts, heartbeats on | delivery before success, output directories, the contract, liveness |
| `aws_workspaces` | 2 schedulers, 4 directories, 2 deaths, symmetry | nobody's directory is removed, credentials accounted for, no waiting while holding the registry |
| `aws_workspaces_live` | 1 scheduler, 3 directories, 2 deaths | credentials are erased in the end |
| `opengraph_destination` | jobs of 5 and 2 items, parts of 2, 3 faults | whole files, complete marked jobs, the refinement, termination |
| `unmanaged_scheduler` | 2 jobs, 1 operation of 2 parts, 2 attempts, 1 death | honest status, reported jobs, whole bundles, shutdown |
| `unmanaged_resume` | the same | expected violation, see Findings |
| `worker_logging` | 2 schedulers, 2 workers of 1 record each, a clock of 2 ticks, files of 1 record, 1 failed rename | `LogChannel`, every destination served, the live file bounded, a stop that ends |
| `log_backups` | days of 3 ticks, 2 backups to keep | expected violation, see Findings |
| `bhe_client` | bodies of 2 chunks, 2 rotations; 3 identifiers of 2 secrets, batches of 2 | whole bodies, healing after a rotation, safe texts, exact batches |
| `config_upload` | 4 items, 2 names in 2 containers, batches of 2, 3 attempts, 1 entry of somebody else, limit 2 | nothing left out, made twice or left private |
| `managed_dataflow` | 3 jobs, 2 tables of up to 2 rows and one the transform makes, 2 attempts, with Windows and a preprocessor or with neither; tables of 5 rows apart | a job hands over its own data |

Why the bounds are enough. Two jobs are needed for a job to be mistaken for another, and the code
keeps at most one in hand, so a third adds no new relation. Two files give an upload a first and a
last one with a failure between them. Two attempts give a retry that succeeds and one that raises.
Two schedulers and two deaths let the scheduler and the worker of one directory both die while
another reaps; `Cardinality(Schedulers) + MaxCrashes` directories are enough that names never run
out (`NamesSuffice` assumes so many, `HolderGoesOn` proves they are enough). Five items in parts of
two have full parts and a last one that is not, two items exactly one full part; three faults reach
an exception during the recovery from a recovery. A session answer of 0 to 3 parts for a bundle of
two covers none, fewer, as many and more.

Two workers of one record each give records of two processes in one queue with a kill between them,
and two schedulers a router that is opened again over the file and backups of the first. One record
per file and two ticks reach both reasons to rotate in one second. Two chunks let a file be read to
its middle before a call and again before a 401; two rotations let a second overtake the refresh
from the first. Three identifiers in batches of two have a full and a partial batch, and name and
ARN of one secret in one batch or in two. Three attempts of a batch of two repeat a create twice;
four items have two batches. Three jobs are a failed one, the one that meets what it left, and one
after that. Two kinds of host are enough: one has every step, a repeated run and a preprocessor, the
other neither, so that conversion follows collection at once. The run's ASSUME `GraphsAreExact`
checks every table of up to five rows for the boundaries of pages and batches, which need no jobs.

The proofs remove the bounds for the properties they cover.

### Fairness

* `ManagedScheduler`: the loop and the worker go on (weak fairness; a `while` loop and a collector
  that returns). A request that is repeated for ever is answered in the end (strong fairness, one
  conjunct per kind of request): BHE is not unreachable for ever. The queue takes back lapsed claims.
  The removal of a finished job's workspace, which every poll tries anew, succeeds in the end; that of
  a job whose submission failed is tried once, and nothing is assumed of it: `JobInHandIsResolved`
  excepts a job that is `Stuck`, and `ShutdownEnds` does not.
  No fairness for heartbeats, crashes, restarts, signals, or other collectors.
* `AWSProfileWorkspaces`: processes run; a file lock that is free again and again is obtained, as
  `FileLock` polls it; removing a directory does not fail for ever; a stuck scheduler is restarted
  and jobs keep arriving, since the next reaper runs when a workspace is made or a process starts.
* `OpenGraphDestination`: calls go on, a load returns, somebody reruns or discards one that did not.
* `WorkerLogging`: threads and processes go on (the listener, the two halves of the close) and a
  worker's job ends, as `executor.shutdown(wait=True)` and `thread.join` rely on. None for the
  manager, the clock, or anything that is logged.
* `BHEClient`: the scheduler polls, so requests are made and signed again and again; a sent request
  ends. Strongly fair are two things outside: a request with a refused pair is answered in the end,
  and a usable secret is read in the end. Otherwise BHE or AWS would be unreachable for ever.
* `UnmanagedScheduler`: the loop and the worker go on, and of reports made again and again one is
  answered. Support-bundle requests need no such assumption: their retries are bounded.

## 4. Proofs

All proofs are checked by TLAPS for every value of the constants under the named assumptions beside
their declarations (the special value is not a member of its set, bounds are numbers, at least one
attempt).

* `ManagedScheduler_proofs`: type correctness, the safety invariants of both runs
  (`HeldJobsAreTracked`, `OneJobInHand`, `SuccessMeansDelivered`, `OutputsAreOwned`) and the
  refinement of `JobContract`; and, stated by no run of its own because the contract implies them
  on the instance, `OutcomeIsStable`, `OneWorkerPerClaim`, `NoWorkAfterOutcome` and
  `LostClaimIsSilent`. The properties are not inductive. That
  one outcome is sent depends on the future keeping its verdict across polls (`RunningInv`), on a
  pending failure being only reported as failed (`FailureInv`), and on the recovery fields
  excluding each other (`HandInv`); that delivery is complete depends on the count in the `Result`
  agreeing with the queue (`ResultInv`); that an output without an owner is one whose process was
  killed or whose `rmtree` raised (`OutputInv`, `OutputsAreOwned`) depends on the future, which alone
  knows of an output. `IInv` is the conjunction; each lemma proves one conjunct
  over all groups of actions, and the calls to `end` have lemmas of their own (`EndEffect`,
  `EndSettles`).
* `AWSProfileWorkspaces_proofs`: type correctness, `InUseIsKept`, `OwnedIsKept`,
  `CredentialsAreAccountedFor`, for any number of schedulers, directories and deaths. The reaper's
  check and its removal are separate steps, so the argument is that a directory found free stays
  free: whoever would lock it needs the registry lock, which the reaper holds (`ReaperInv`,
  `RegistryInv`); a worker's lock outlives its scheduler (`WorkerInv`), and a workspace has one
  owner (`OwnerInv`). `HolderNeverWaits` is stated by the guards of what is done under the registry
  lock. Its hard case is a reaper that has examined everything and needs a new name: `NamesInv`
  counts the directories no scheduler owns that are still in use or were left alone by the reaper
  in hand (`Lost`). There are no more of them than deaths, and the reaper owns none itself, so a
  name is free.
* `UnmanagedScheduler_proofs`: type correctness and the safety properties of the run, and
  `CollectedOnce`, which no run states. The scheduler
  touches a bundle only by `BundleMove`, so the bundle's invariants are proved from the bundle's
  steps alone: parts arrive in order and success is requested only after the last (`BundleInv`,
  `PartArrives`). That `end`, which names no job, ends the right one rests on `CurrentInv`: while a
  job is in hand it is BHE's current job exactly as long as it runs.

* `OpenGraphDestination_proofs`: type correctness, `PublishedIsWhole` and the refinement of
  `OpenGraphExport`, for any number of jobs, items and faults and any size of part. The invariant
  says where a call stands: what it has read is the parts before the one in hand and the batch
  (`WriteInv`, with `Slice` and `Run` for the items of a part and of a stretch); what is on disk is
  whole where it is published, and torn at most where it is staged (`DiskInv`); and nothing is
  acknowledged or listed without a marker (`LoadInv`). For the refinement the parts are joined by
  the lemma that adjacent stretches of items make one (`RunsJoin`): a step that makes a marker whole
  is the export of its job, every other step of a call is none.
* `WorkerLogging_proofs`: type correctness, `LiveFileIsBounded`, the refinement of `LogChannel` and
  `DeliveredAsHandled`, for any number of schedulers, workers and records, any interval and size.
  File, router and destinations touch different variables, so each has an invariant of its own.
  `RotationInv`: while no rename has failed, every backup named after an interval is older than the
  running interval, so that its name is never in the way (arithmetic of `\div` over intervals).
  `DeliveredAsHandled` counts what the main file lacks against the rollovers that failed
  (`LackGrowsByFaults`). `QueueInv`: while the manager lives, what was accepted is what was handled
  and then the queue, and the sentinel comes last; hence what is closed is complete. `RecordsInv`: a
  worker numbers its records, none is put twice, and a record that names an extension was put in its
  job. `RecognizedBackupsAreBounded` and `HourlyBackupsAreBounded` are the other side of the finding
  `log_backups`: of the names `extMatch` recognizes there are never more than `backup_count`
  backups, and with hourly intervals there are no others.
* `BHEClient_proofs`: type correctness of the client and of `SecretRetrieval`, `TakenIsWhole`,
  `ToldIsSafe`, `BatchesAreExact`, for bodies of any length, any number of rotations, any set of
  secrets and any size of batch. `RequestInv` carries the first: a request that may still be sent
  stands where its caller passed it, also when it has been read for a signature that was refused.
  `PairNeverGoesBack`: a client changes its pair only to a newer one, the secret's, and keeps the
  one BHE accepts until the next rotation (`PairsAreOrdered`). `BatchInv` carries the last: what was
  asked for so far is filed, as a value or as a failure, and an identifier without a value gave it
  up to the name of its own secret.
* `ConfigUpload_proofs`: type correctness, `ItemsArriveOnce`, `PublicAsAsked`, for any items,
  batches, attempts, limit and other users. What a batch has read goes stale while it runs, by its
  own creates and by others; `ReadInv` says how far: an entry of this load was read, or was made for
  an item before the one in hand, or is beyond what one request returns. `ArrivedInv` and
  `PublicInv` say what the items that are past have left behind, also after a batch that is begun
  again.
* `ManagedDataflow_proofs`: `ConversionIsExact`, type correctness and `DeliversItsOwn`. The first
  says that `GraphContent` yields each node and each edge of a table once and in order, in batches
  neither empty nor too long, for tables, pages, batches and numbers of edges of any size. It is an
  induction over the rows and the pages; since no induction theorem can be instantiated, it is done
  by hand from the well-foundedness of the naturals (`FirstExists`, `UpTo`), over facts about
  `FlattenSeq` (`FlattenAppend`, `FlattenConcat`) and about adding one edge, one row, one page
  (`EdgeAdded`, `RowAdded`, `PageGraph`). `DeliversItsOwn` says which rows those are, for any jobs,
  rows and attempts: a job passes its stages in order and leaves no package of a stage it has passed
  (`StageInv`), a package has the types of its stage as long as a run may load it (`PackageInv`),
  and a job that found nothing pending has packages, files, lookup and output of its own rows only
  (`OwnInv`); it looks up what its files and its preprocessing have left in the lookup, which for a
  table it collected is its own. That a job after a completed one finds nothing pending is part of
  `StageInv`.

Four theorems are about ends. TLAPS proves no liveness, but it proves that a natural number, the
work that is left, goes down with each step of those who have to act and up with none, or only with
a fault. Together with the fairness of section 3, which says that they act, that is why the runs
find the ends they look for; and it excludes what a run's bounds could hide, a loop that goes on
only for large constants.

| Theorem | What is bounded | What may start it again |
|---|---|---|
| `ManagedScheduler_proofs!ShutdownIsBounded` | the steps of the process that change what it knows, from the signal on | an upload, an end or the removal of the workspace that raises in the loop of `_shutdown`, which has no limit |
| `UnmanagedScheduler_proofs!ShutdownIsBounded` | all steps from the signal on, by the attempts of the bundle in hand | nothing |
| `OpenGraphDestination_proofs!CallsAreBounded` | the steps of a call, by the items and the parts | a fault |
| `WorkerLogging_proofs!StopIsBounded` | the steps of the worker, of `close` and of the listener; one of them can go on, also when the manager is dead, and a listener nobody joined can end | nothing |

They do not say that the work comes to an end: that its steps are taken, and that in the managed
scheduler requests do not raise for ever and a worker that runs returns, is fairness.

Beside the assumptions on bounds, three were named for these proofs: `EdgeCount` gives a number of
edges for each row number (`SourceAssumption`, `DataflowAssumption`), there is at least one
scheduler (`LoggingAssumption`), and there are finitely many schedulers and at least as many names
for directories as schedulers and deaths (`NamesSuffice`; `tempfile.mkdtemp` draws from far more
names than a host ever has directories, and the model uses a name again once it is free).

Only model-checked: liveness, which needs fairness and `ENABLED`: `JobInHandIsResolved`,
`ShutdownEnds`, `SecretsAreErased`, `LoadEnds`, `JobIsReported`, `SignalEnds`, `StopEnds`,
`CredentialsHeal`.

## 5. Findings

`log_backups` (code). `CustomLogger._build_file_handler` sets `extMatch` to a date followed by an
hour (`core/logging.py:660`). The default `rotate_when` is `midnight` (:477), for which the standard
handler names backups by the date alone: no such name matches, so backups by time are never
deleted. The comment (:658) says the expression is to recognize "both default time based rotation
filenames and size based rotation filenames", and the docstring (:324) calls `backupCount` "The
number of backup files to keep". The run lets days pass until there is one backup too many;
`RecognizedBackupsAreBounded` shows that nothing else is at fault.

`unmanaged_resume` (documentation and code disagree). The docstring of `Service.check_jobs`
(`scheduler/service.py:428`) says it looks for jobs that "can either be new jobs or jobs currently
started and not finished/stopped". The code returns a new job or nothing; the part that would
return a started one is commented out (lines 439 to 450). The run starts a job whose answer is lost
and looks again: BHE has a current job and no step takes it up. `CollectedOnce` shows why the code
may prefer this: resuming would collect a job twice.

Recorded without a run of its own; but for the first, nothing in the repository says what should
happen:

* A guarded resource that raises yields nothing more, and its job completes (`cut`): the wrapper asks
  a generator that has ended (`core/resources.py:66` to :75), where its docstring (:49, :84)
  says it "continues even if exceptions are raised".
* A job whose submission failed and whose workspace cannot be removed stays in hand without a future
  (`Stuck`; the state `"stuck"` of `AWSProfileWorkspaces`): polls only watch it, and no other job is
  taken until the process ends.
* With heartbeats on, an abort whose workspace cannot be removed leaves `start`: the scheduler shuts
  down, and may still end the job at BHE, which has refused the heartbeat. `told` in `JobContract`
  counts only aborts that were completed.
* An output directory stays when `rmtree` raises (`scheduler/service.py:957`, :267) or its process was
  killed: the job is cleared and nobody knows the name any more (`abandoned`).
* Claims are left at BHE by a stop, a crash or a failed undo (`orphans`, `lost`). Heartbeats are
  disabled while leases run: the queue takes running jobs back at any step, and every safety
  property holds then.
* A record is dropped from the main file when its rollover raises, and the suffix of that rollover
  can stop rotation for good. The listener's thread is not joined when the manager is dead.
* The pending package a failed job leaves is loaded by the next. Lookups find an earlier job's rows
  in tables the job has not collected, and in the table of a transform that failed.
* Searches stay private after a failed permissions request under `skip`.

## 6. Not modelled

* Command line, documentation generator and data models keep no state that changes over time.
* Of the collector framework only the guards and stages that run in a job; loading of extensions and
  validation of columns happen once.
* Managed configuration: providers are installed before anything is imported, in a worker process
  that serves one job, and removed by one context manager. There is no second actor.
* The redaction filter and the formatters of `core/logging.py`: text processing of one record.
* In `aws_profile.py`, the contents of a profile, their validation and their redaction.
* DLT, boto3, the standard library's handlers and queues, the operating system's processes and
  locks, AWS, BloodHound and BHE are external; what the models assume of them is stated above.
