--------------------------- MODULE WorkerLogging ---------------------------
(***************************************************************************)
(* Worker logging of the scheduler service (core/logging.py): workers put  *)
(* their records on the queue of a manager process, the listener thread of *)
(* the scheduler hands them to the destinations configured there, and the  *)
(* main log file among them rotates (LogRotation).  The scheduler opens    *)
(* the router, replaces workers that were killed, and closes it when its   *)
(* executor is gone (Service.__init__, _reset_executor, _shutdown).        *)
(*                                                                         *)
(* A put is one step: the proxy returns when the manager has the record,   *)
(* and a worker that is killed has either put its record or not.  What     *)
(* handles a record is one step too; the rotation owner of a file is       *)
(* unique because _get_file_handler works under a lock.                    *)
(***************************************************************************)
EXTENDS LogRotation, SequencesExt

CONSTANTS Mode,        \* runtime_mode: "cli", "container" or "service"
          Kinds,       \* the kinds of records workers log: [dlt, error]
          MaxWorkers,  \* bound: workers of one scheduler
          MaxPuts,     \* bound: records of one worker
          MaxServices  \* bound: schedulers, one after another

ASSUME LoggingAssumption == /\ Mode \in {"cli", "container", "service"}
                            /\ Kinds \in SUBSET [dlt : BOOLEAN, error : BOOLEAN]
                            /\ MaxWorkers \in Nat
                            /\ MaxPuts \in Nat
                            /\ MaxServices \in Nat \ {0}

VARIABLES
  service,    \* where the scheduler is in its life
  services,   \* schedulers so far
  manager,    \* the manager process with the queue is alive
  queue,      \* self._queue: records and the sentinel of listener.stop
  listener,   \* the listener thread: "none", "running" or "ended"
  worker,     \* the worker process
  \* History.
  accepted,   \* records put since the scheduler began
  handled,    \* records the listener has taken since then
  delivered,  \* what each destination was given of them
  managerDied \* the manager died under this scheduler

router == <<manager, queue, listener>>
logHistory == <<accepted, handled, delivered, managerDied>>
loggingVars == <<service, services, router, worker, logHistory, rotationVars>>

Services == {"new", "starting", "up", "stopping", "joining", "stopped"}
\* The destinations whose contents matter; the one that may fail is "custom".
Destinations == {"stream", "main", "ext"}

\* A record: its worker and its number there, its kind (of DLT or not, an error
\* or not), and the fields _WorkerQueueHandler.prepare adds to it: the job of
\* the context and, for DLT, the extension.
Records == [worker : 1..MaxWorkers, n : 1..MaxPuts, kind : Kinds,
            job : 0..MaxWorkers, extension : BOOLEAN]
Sentinel == [worker |-> 0]

\* st: "boot" before the context of the job is entered, "job" inside it.
NoWorker == [st |-> "gone", id |-> 0, puts |-> 0, extension |-> FALSE]
Workers == [st : {"boot", "job", "gone"}, id : 0..MaxWorkers, puts : 0..MaxPuts,
            extension : BOOLEAN]

TypeOK ==
  /\ RotationTypeOK
  /\ service \in Services
  /\ services \in 1..MaxServices
  /\ manager \in BOOLEAN
  /\ queue \in Seq(Records \cup {Sentinel})
  /\ listener \in {"none", "running", "ended"}
  /\ worker \in Workers
  /\ accepted \in Seq(Records)
  /\ handled \in Seq(Records)
  /\ delivered \in [Destinations -> Seq(Records)]
  /\ managerDied \in BOOLEAN

Init ==
  /\ RotationInit
  /\ service = "new"
  /\ services = 1
  /\ manager = FALSE
  /\ queue = <<>>
  /\ listener = "none"
  /\ worker = NoWorker
  /\ accepted = <<>>
  /\ handled = <<>>
  /\ delivered = [d \in Destinations |-> <<>>]
  /\ managerDied = FALSE

---------------------------------------------------------------------------
(* Opening the router: the queue property, in _create_executor. *)

\* manager.start succeeds.
StartManager ==
  /\ service = "new"
  /\ service' = "starting"
  /\ manager' = TRUE
  /\ UNCHANGED <<services, queue, listener, worker, logHistory, rotationVars>>

StartListener ==
  /\ service = "starting"
  /\ manager
  /\ service' = "up"
  /\ listener' = "running"
  /\ UNCHANGED <<services, manager, queue, worker, logHistory, rotationVars>>

\* Either of them raises: the except clause closes what there is, and
\* Service.__init__ does so again.
RouterFails ==
  /\ service \in {"new", "starting"}
  /\ service' = "stopped"
  /\ manager' = FALSE
  /\ listener' = "none"
  /\ UNCHANGED <<services, queue, worker, logHistory, rotationVars>>

---------------------------------------------------------------------------
(* Workers. *)

\* The pool has one worker, and each serves one job (max_tasks_per_child); its
\* initializer is configure_worker_logging.
StartWorker ==
  /\ service = "up"
  /\ worker.st = "gone"
  /\ worker.id < MaxWorkers
  /\ worker' = [st |-> "boot", id |-> worker.id + 1, puts |-> 0, extension |-> FALSE]
  /\ UNCHANGED <<service, services, router, logHistory, rotationVars>>

\* worker_log_context sets the job and forgets the extension.
EnterJob ==
  /\ worker.st = "boot"
  /\ worker' = [worker EXCEPT !.st = "job", !.extension = FALSE]
  /\ UNCHANGED <<service, services, router, logHistory, rotationVars>>

\* A pipeline of the job calls set_handler, which in a worker only notes the
\* extension.
SetHandler ==
  /\ worker.st = "job"
  /\ ~worker.extension
  /\ worker' = [worker EXCEPT !.extension = TRUE]
  /\ UNCHANGED <<service, services, router, logHistory, rotationVars>>

\* prepare: the fields of the context are added in the worker, where they are
\* true; the listener could only guess them.
Prepared(kind) ==
  [worker |-> worker.id, n |-> worker.puts + 1, kind |-> kind,
   job |-> IF worker.st = "job" THEN worker.id ELSE 0,
   extension |-> kind.dlt /\ worker.extension]

\* A record is logged.  Without the manager the put raises, and handleError
\* drops the record.
Put(kind) ==
  /\ worker.st \in {"boot", "job"}
  /\ worker.puts < MaxPuts
  /\ worker' = [worker EXCEPT !.puts = @ + 1]
  /\ IF manager
     THEN /\ queue' = Append(queue, Prepared(kind))
          /\ accepted' = Append(accepted, Prepared(kind))
     ELSE UNCHANGED <<queue, accepted>>
  /\ UNCHANGED <<service, services, manager, listener, handled, delivered, managerDied,
                 rotationVars>>

\* The worker returns, or it is killed: by _abort_managed_claim, or abruptly.
WorkerGone ==
  /\ worker.st \in {"boot", "job"}
  /\ worker' = [worker EXCEPT !.st = "gone"]
  /\ UNCHANGED <<service, services, router, logHistory, rotationVars>>

---------------------------------------------------------------------------
(* The listener: _ParentWorkerHandler.emit. *)

\* What setup attaches to the root logger and to the dlt logger, as
\* cli_handlers, container_handlers and service_handlers build it: a stream,
\* which the command line keeps for errors, and the shared handler of a file.
Configured(path) ==
  (CASE Mode = "cli"       -> <<[dest |-> "stream", errorsOnly |-> TRUE]>>
     [] Mode = "container" -> <<[dest |-> "stream", errorsOnly |-> FALSE]>>
     [] Mode = "service"   -> <<>>)
  \o <<[dest |-> path, errorsOnly |-> FALSE]>>

\* The root handlers always, with one that somebody else has added; those of
\* the record's own logger; the file of the extension when it can be opened.
Handlers(r, extOpens) ==
  Configured("main") \o <<[dest |-> "custom", errorsOnly |-> FALSE]>>
  \o (IF r.kind.dlt THEN Configured("main") ELSE <<>>)
  \o (IF r.extension /\ extOpens THEN <<[dest |-> "ext", errorsOnly |-> FALSE]>> ELSE <<>>)

Takes(h, r) == ~h.errorsOnly \/ r.kind.error

\* The handlers that take the record when those of some destinations fail.
Called(hs, failing) == {i \in DOMAIN hs : hs[i].dest \notin failing}

\* Mutant: every handler is called, also a second one of the same destination.
CopiesPerHandler(hs, d, r, called) ==
  Cardinality({i \in called : hs[i].dest = d /\ Takes(hs[i], r)})

\* How often destination d is given the record: seen keeps it to once.
Copies(hs, d, r, called) ==
  IF \E i \in called : hs[i].dest = d /\ Takes(hs[i], r) THEN 1 ELSE 0

Deliver(r, extOpens, failing) ==
  LET hs == Handlers(r, extOpens)
  IN delivered' = [d \in Destinations |->
       delivered[d] \o [i \in 1..Copies(hs, d, r, Called(hs, failing)) |-> r]]

\* One record is taken off the queue and given to every destination.  A custom
\* handler may raise; the main file drops the record whose rollover fails.
HandleRecord ==
  /\ listener = "running"
  /\ manager
  /\ queue # <<>>
  /\ Head(queue) # Sentinel
  /\ queue' = Tail(queue)
  /\ handled' = Append(handled, Head(queue))
  /\ \E extOpens \in BOOLEAN, failing \in SUBSET {"custom", "main"} :
       /\ IF "main" \in failing THEN RenameFails ELSE Written
       /\ Deliver(Head(queue), extOpens, failing)
  /\ UNCHANGED <<service, services, manager, listener, worker, accepted, managerDied, now>>

\* Mutant: the sentinel is handled like a record.
EndListenerHandling ==
  /\ listener = "running"
  /\ \/ /\ manager /\ queue # <<>> /\ Head(queue) = Sentinel
        /\ queue' = Tail(queue)
        /\ handled' = Append(handled, Sentinel)
     \/ ~manager /\ UNCHANGED <<queue, handled>>
  /\ listener' = "ended"
  /\ UNCHANGED <<service, services, manager, worker, accepted, delivered, managerDied,
                 rotationVars>>

\* Mutant: the thread goes on asking a manager that is dead.
EndListenerOnSentinel ==
  /\ listener = "running"
  /\ manager /\ queue # <<>> /\ Head(queue) = Sentinel /\ queue' = Tail(queue)
  /\ listener' = "ended"
  /\ UNCHANGED <<service, services, manager, worker, logHistory, rotationVars>>

\* The sentinel ends the thread, and so does the end of a dead manager's pipe.
EndListener ==
  /\ listener = "running"
  /\ \/ manager /\ queue # <<>> /\ Head(queue) = Sentinel /\ queue' = Tail(queue)
     \/ ~manager /\ UNCHANGED queue
  /\ listener' = "ended"
  /\ UNCHANGED <<service, services, manager, worker, logHistory, rotationVars>>

---------------------------------------------------------------------------
(* Stopping. *)

\* _shutdown waits for the executor.
BeginStop ==
  /\ service = "up"
  /\ service' = "stopping"
  /\ UNCHANGED <<services, router, worker, logHistory, rotationVars>>

\* Mutant: the sentinel is put without waiting for the worker.
ExecutorSignalled == TRUE

\* executor.shutdown(wait=True) has returned.
ExecutorGone == worker.st = "gone"

\* close: listener.stop puts the sentinel and joins the thread.  A dead manager
\* makes the put raise: the thread is not joined, only no longer referred to.
StopListener ==
  /\ service = "stopping"
  /\ ExecutorGone
  /\ IF manager
     THEN /\ queue' = Append(queue, Sentinel)
          /\ service' = "joining"
          /\ UNCHANGED <<manager, listener>>
     ELSE service' = "stopped" /\ UNCHANGED <<queue, manager, listener>>
  /\ UNCHANGED <<services, worker, logHistory, rotationVars>>

\* thread.join has returned.
Joined == listener = "ended"

\* The manager is shut down last.
StopManager ==
  /\ service = "joining"
  /\ Joined
  /\ service' = "stopped"
  /\ listener' = "none"
  /\ manager' = FALSE
  /\ queue' = <<>>
  /\ UNCHANGED <<services, worker, logHistory, rotationVars>>

---------------------------------------------------------------------------
(* The environment. *)

\* The manager process dies, and what is on the queue with it.
ManagerDies ==
  /\ manager
  /\ service \in {"up", "stopping", "joining"}
  /\ manager' = FALSE
  /\ queue' = <<>>
  /\ managerDied' = TRUE
  /\ UNCHANGED <<service, services, listener, worker, accepted, handled, delivered,
                 rotationVars>>

\* Another scheduler is started after the process of the first has ended, and with
\* it what there was of its listener.
Restart ==
  /\ service = "stopped"
  /\ services < MaxServices
  /\ services' = services + 1
  /\ service' = "new"
  /\ worker' = NoWorker
  /\ accepted' = <<>>
  /\ handled' = <<>>
  /\ delivered' = [d \in Destinations |-> <<>>]
  /\ managerDied' = FALSE
  /\ listener' = "none"
  /\ Reopen
  /\ UNCHANGED <<manager, queue>>

\* The scheduler's own records go to the main file directly.
OwnRecord ==
  /\ service = "up"
  /\ LogRecord
  /\ UNCHANGED <<service, services, router, worker, logHistory>>

Time == Tick /\ UNCHANGED <<service, services, router, worker, logHistory>>

Opening == StartManager \/ StartListener \/ RouterFails
Work == \/ StartWorker \/ EnterJob \/ SetHandler \/ WorkerGone
        \/ \E kind \in Kinds : Put(kind)
Listening == HandleRecord \/ EndListener
Stopping == BeginStop \/ StopListener \/ StopManager
Environment == ManagerDies \/ Restart \/ OwnRecord \/ Time

Next == Opening \/ Work \/ Listening \/ Stopping \/ Environment

\* Threads and processes go on, and a worker's job ends.
Fairness == WF_loggingVars(Listening) /\ WF_loggingVars(WorkerGone)
            /\ WF_loggingVars(StopListener) /\ WF_loggingVars(StopManager)

Spec == Init /\ [][Next]_loggingVars /\ Fairness

---------------------------------------------------------------------------
(* Properties. *)

\* The router keeps the promise of LogChannel: accepted records are handled in
\* order and once, and close comes after the last of them ("every completed log
\* submission is already ahead of" the sentinel).
LogOf == INSTANCE LogChannel WITH open <- service # "stopped", broken <- managerDied
KeepsLog == LogOf!Spec

\* What a stream's level lets through.
Shown(r) == Mode = "container" \/ (Mode = "cli" /\ r.kind.error)

\* What s holds, it holds in the order of t.
InOrderOf(t, s) ==
  \A i, k \in DOMAIN s : i < k => \E a, b \in DOMAIN t : a < b /\ s[i] = t[a] /\ s[k] = t[b]

\* The destinations hold what was handled, in that order, each record once
\* although the root and the dlt logger share them: the main file everything but
\* what its failed rollovers have dropped, one record each, a stream what its level
\* lets through, the extension's file DLT records of that job only.  A destination
\* that fails loses nothing for the others.
DeliveredAsHandled ==
  /\ \A d \in Destinations : IsInjective(delivered[d]) /\ InOrderOf(handled, delivered[d])
  /\ ToSet(delivered["main"]) \subseteq ToSet(handled)
  /\ Cardinality(ToSet(handled) \ ToSet(delivered["main"])) <= faults
  /\ ToSet(delivered["stream"]) = {r \in ToSet(handled) : Shown(r)}
  /\ \A r \in ToSet(delivered["ext"]) :
       r \in ToSet(handled) /\ r.kind.dlt /\ r.job = r.worker

\* A scheduler that is stopping comes to its end, also without its manager, and
\* leaves neither a manager process nor, for long, a listener behind.
StopEnds == /\ service = "stopping" ~> (service = "stopped" /\ ~manager)
            /\ service = "stopped" ~> listener # "running"

=============================================================================
