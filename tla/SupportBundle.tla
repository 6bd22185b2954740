---------------------------- MODULE SupportBundle ----------------------------
(***************************************************************************)
(* A support bundle from the request to its end: what                      *)
(* Service._send_support_bundle and the client's retried requests do, and  *)
(* what the management API of BHE, which is not part of this repository,   *)
(* makes of them.  UnmanagedScheduler runs these steps inside its poll.    *)
(*                                                                         *)
(* step is the request or local action that is next:                       *)
(*   "start", "archive", "session", "part", "complete", "succeed"          *)
(*   "fail"     the except clause, after anything raised                   *)
(*   "remove"   the finally clause                                         *)
(*   "none"     no operation                                               *)
(* Every request can be carried out and answered, carried out or not and   *)
(* unanswered (a timeout, 5xx, 429), or fail at once (another error, an    *)
(* answer the client cannot read).                                         *)
(***************************************************************************)
EXTENDS Naturals

CONSTANTS Ops,         \* management operations
          NoOp,
          PartCount,   \* parts of a bundle, cut at the part_size of the session
          MaxAttempts  \* SUPPORT_BUNDLE_MAX_RETRIES + 1

ASSUME NoOpAssumption == NoOp \notin Ops
ASSUME AttemptAssumption == MaxAttempts \in Nat \ {0} /\ PartCount \in Nat \ {0}

VARIABLES
  op,         \* status of each operation at BHE
  received,   \* parts BHE has of each artifact
  completed,  \* operations whose artifact upload was completed
  step, now,  \* next step, operation in hand
  session,    \* part_count of the upload session, as BHE answered it
  part,       \* number of the part in hand
  tries,      \* attempt of the request
  zip,        \* the temporary archive exists
  unended     \* history: operations this process gave up without a confirmed end

remote == <<op, received, completed>>
upload == <<step, now, session, part, tries, zip>>
bundleVars == <<remote, upload, unended>>

Steps == {"none", "start", "archive", "session", "part", "complete", "succeed", "fail",
          "remove"}
Requests == Steps \ {"none", "archive", "remove"}

BundleTypeOK ==
  /\ op \in [Ops -> {"queued", "running", "succeeded", "failed"}]
  /\ received \in [Ops -> SUBSET (1..PartCount)]
  /\ completed \in SUBSET Ops
  /\ step \in Steps /\ now \in Ops \cup {NoOp}
  /\ session \in 0..(PartCount + 1)
  /\ part \in 1..(PartCount + 1)
  /\ tries \in 1..MaxAttempts
  /\ zip \in BOOLEAN
  /\ unended \in SUBSET Ops

BundleInit ==
  /\ op = [o \in Ops |-> "queued"]
  /\ received = [o \in Ops |-> {}]
  /\ completed = {}
  /\ step = "none" /\ now = NoOp /\ session = 0 /\ part = 1 /\ tries = 1
  /\ zip = FALSE
  /\ unended = {}

---------------------------------------------------------------------------
(* What BHE does with a request it carries out. *)

EndAs(o, status) ==
  /\ op' = IF op[o] \in {"queued", "running"} THEN [op EXCEPT ![o] = status] ELSE op
  /\ UNCHANGED <<received, completed>>

CarryOut(o) ==
  CASE step = "start"    -> /\ op' = IF op[o] = "queued" THEN [op EXCEPT ![o] = "running"] ELSE op
                            /\ UNCHANGED <<received, completed>>
    [] step = "session"  -> UNCHANGED remote
    [] step = "part"     -> /\ received' = [received EXCEPT ![o] = @ \cup {part}]
                            /\ UNCHANGED <<op, completed>>
    [] step = "complete" -> /\ completed' = completed \cup {o}
                            /\ UNCHANGED <<op, received>>
    [] step = "succeed"  -> EndAs(o, "succeeded")
    [] step = "fail"     -> EndAs(o, "failed")

---------------------------------------------------------------------------
(* What the client does with an answer. *)

\* Mutant: nobody looks whether the archive has more parts than the session.
AfterAnswerUnchecked ==
  CASE step = "start" -> "archive"
    [] step = "session" -> IF session' = 0 THEN "complete" ELSE "part"
    [] step = "part" -> IF part < session
                          THEN IF part = PartCount THEN "fail" ELSE "part"
                          ELSE "complete"
    [] step = "complete" -> "succeed"
    [] step \in {"succeed", "fail"} -> "remove"

\* The step after an answered request.  upload_support_bundle raises when the
\* archive has fewer or more parts than the session.
AfterAnswer ==
  CASE step = "start" -> "archive"
    [] step = "session" -> IF session' = 0 THEN "fail" ELSE "part"
    [] step = "part" -> IF part < session
                          THEN IF part = PartCount THEN "fail" ELSE "part"
                          ELSE IF part < PartCount THEN "fail" ELSE "complete"
    [] step = "complete" -> "succeed"
    [] step \in {"succeed", "fail"} -> "remove"

\* Mutant: the except clause does not end the operation.
AfterRaiseWithoutEnd == "remove"

\* The step after a request that raised.
AfterRaise == IF step = "fail" THEN "remove" ELSE "fail"

Answered ==
  /\ step \in Requests
  /\ CarryOut(now)
  /\ session' \in IF step = "session" THEN 0..(PartCount + 1) ELSE {session}
  /\ step' = AfterAnswer
  /\ part' = IF step = "part" /\ step' = "part" THEN part + 1 ELSE part
  /\ tries' = 1
  /\ UNCHANGED <<now, zip, unended>>

\* Mutant: one attempt too many.
UnansweredOnceMore ==
  /\ step \in Requests
  /\ CarryOut(now) \/ UNCHANGED remote
  /\ tries' = IF tries <= MaxAttempts THEN tries + 1 ELSE 1
  /\ step' = IF tries <= MaxAttempts THEN step ELSE AfterRaise
  /\ UNCHANGED <<now, session, part, zip, unended>>

\* _retry_support_bundle_request: a transient error is retried, the last raises.
Unanswered ==
  /\ step \in Requests
  /\ CarryOut(now) \/ UNCHANGED remote
  /\ tries' = IF tries < MaxAttempts THEN tries + 1 ELSE 1
  /\ step' = IF tries < MaxAttempts THEN step ELSE AfterRaise
  /\ unended' = IF tries = MaxAttempts /\ step = "fail" THEN unended \cup {now} ELSE unended
  /\ UNCHANGED <<now, session, part, zip>>

\* Any other error, or an answer the client cannot read: nothing is retried.
Rejected ==
  /\ step \in Requests
  /\ CarryOut(now) \/ UNCHANGED remote
  /\ step' = AfterRaise
  /\ tries' = 1
  /\ unended' = IF step = "fail" THEN unended \cup {now} ELSE unended
  /\ UNCHANGED <<now, session, part, zip>>

\* create_support_bundle; it removes what it has written when it raises.
Archive ==
  /\ step = "archive"
  /\ \/ step' = "session" /\ zip' = TRUE
     \/ step' = "fail" /\ UNCHANGED zip
  /\ part' = 1
  /\ UNCHANGED <<remote, now, session, tries, unended>>

\* The operation is over for this process, whatever BHE has it as.
Remove ==
  /\ step = "remove"
  /\ zip' = FALSE
  /\ step' = "none"
  /\ now' = NoOp
  /\ UNCHANGED <<remote, session, part, tries, unended>>

BundleStep == Answered \/ Unanswered \/ Rejected \/ Archive \/ Remove

\* _poll_management has found a queued support-bundle operation.
TakeOperation(o) ==
  /\ op[o] = "queued"
  /\ now' = o
  /\ step' = "start"
  /\ UNCHANGED <<remote, session, part, tries, zip, unended>>

\* The process dies with the operation in hand; its archive stays in the
\* temporary directory, where nothing refers to it.
DropOperation ==
  /\ unended' = IF now = NoOp THEN unended ELSE unended \cup {now}
  /\ step' = "none" /\ now' = NoOp /\ tries' = 1 /\ zip' = FALSE
  /\ UNCHANGED <<remote, session, part>>

---------------------------------------------------------------------------
(* Properties. *)

\* An operation that is succeeded at BHE has delivered every part of its
\* archive and closed the upload, whatever number of parts the session asked for, and whichever
\* requests were repeated or carried out without an answer.
SucceededIsWhole ==
  \A o \in Ops : op[o] = "succeeded" => received[o] = 1..PartCount /\ o \in completed

\* An operation that was started is being handled, or the process was told
\* nothing when it tried to end it.  Nobody handles it later: only queued ones
\* are looked for.
StartedIsEnded == \A o \in Ops : op[o] = "running" => now = o \/ o \in unended

---------------------------------------------------------------------------
(* What the two rest on: parts are sent in order and only the last may      *)
(* complete, and nothing is removed before its end was tried.               *)

BundleInv ==
  /\ step = "none" <=> now = NoOp
  /\ step = "session" => part = 1
  /\ step = "part" => /\ part <= PartCount /\ part <= session
                      /\ 1..(part - 1) \subseteq received[now]
  /\ step \in {"complete", "succeed"} => received[now] = 1..PartCount
  /\ step = "succeed" => now \in completed
  /\ step = "remove" => op[now] # "running" \/ now \in unended
=============================================================================
