--------------------------- MODULE SecretRetrieval ---------------------------
(***************************************************************************)
(* The AWS Secrets Manager client (core/clients/aws_secrets_manager.py):   *)
(* what a failed call is classified as, what is said about it, and         *)
(* get_secrets, which asks for any number of secrets batch by batch.  AWS  *)
(* and its SDK are external: a batch is answered with values, unreadable   *)
(* values and errors, or it raises.                                        *)
(*                                                                         *)
(* A text is the set of the things it says: "fixed" words of the client,   *)
(* names, or what it copies from the SDK.                                  *)
(***************************************************************************)
EXTENDS Naturals, Sequences, SequencesExt

CONSTANTS Secrets,       \* secrets of the account
          MaxBatchSize,  \* MAX_BATCH_SIZE
          MaxIds         \* bound: identifiers of one call

ASSUME SecretsAssumption == MaxBatchSize \in Nat \ {0} /\ MaxIds \in Nat

\* A secret is asked for by its name or by its ARN.
Ids == [secret : Secrets, by : {"Name", "ARN"}]

---------------------------------------------------------------------------
(* Failures. *)

CredentialOperations == {"AssumeRoleWithWebIdentity", "GetRoleCredentials"}
Operations == {"GetSecretValue", "BatchGetSecretValue"} \cup CredentialOperations
Codes == {"ResourceNotFoundException", "AccessDeniedException", "ExpiredTokenException",
          "SignatureDoesNotMatch", "InternalServiceError"}

\* One error for each case the classifiers tell apart.  Those that _classify
\* does not know are "unexpected".
Errors ==
  [kind : {"client"}, what : Codes, op : Operations] \cup
  [kind : {"runtime"}, what : {"expired", "other"}] \cup
  [kind : {"file"}, what : {"access"}] \cup
  [kind : {"provider"}, what : {"metadata", "process", "no region", "no credentials", "other"}] \cup
  [kind : {"transport"}, what : {"validation", "http", "specific"}]
Unexpected == [kind |-> "unexpected", what |-> "other"]

\* What the SDK writes into the message of an error: some messages echo what
\* was sent or received.
SdkText(e) ==
  CASE e.what = "SignatureDoesNotMatch" -> {"canonical request"}
    [] e.kind = "provider" /\ e.what = "metadata" -> {"credential response"}
    [] e.what = "process" -> {"helper output"}
    [] e.what = "validation" -> {"supplied value"}
    [] e.what = "http" -> {"nested exception"}
    [] e.kind \in {"runtime", "unexpected"} -> {"provider output"}
    [] OTHER -> {"explanation"}
Payload == {"canonical request", "credential response", "helper output", "supplied value",
            "nested exception", "provider output"}

\* _classify_client_error: an operation that gets credentials is a matter of
\* configuration whatever its code.
ClientClass(e) ==
  CASE e.op \in CredentialOperations -> "AWSConfigurationError"
    [] e.what = "ResourceNotFoundException" -> "SecretNotFoundError"
    [] e.what = "AccessDeniedException" -> "SecretPermissionError"
    [] e.what \in {"ExpiredTokenException", "SignatureDoesNotMatch"} -> "AWSConfigurationError"
    [] OTHER -> "SecretRequestError"

Class(e) ==
  IF e.kind = "client" THEN ClientClass(e)
  ELSE IF e.kind \in {"file", "provider"} \/ e.what = "expired" THEN "AWSConfigurationError"
  ELSE "SecretRequestError"
Classes == {"AWSConfigurationError", "SecretNotFoundError", "SecretPermissionError",
            "SecretRequestError"}

\* Mutant: the message of a refused signature is kept.
RewordedKeepingSignature(e) ==
  \/ e.kind = "runtime"
  \/ e.kind = "provider" /\ e.what \in {"metadata", "process", "no region"}
  \/ e.kind = "transport" /\ e.what \in {"validation", "http"}

\* The classifiers explain these in words of their own.
Reworded(e) ==
  \/ e.kind = "runtime"
  \/ e.what = "SignatureDoesNotMatch"
  \/ e.kind = "provider" /\ e.what \in {"metadata", "process", "no region"}
  \/ e.kind = "transport" /\ e.what \in {"validation", "http"}

\* str() of the classified error.
Message(e) ==
  {"fixed"} \cup (IF e.kind \in {"client", "file", "transport"} THEN {"secret id", "region"} ELSE {})
            \cup (IF Reworded(e) THEN {} ELSE SdkText(e))

\* _safe_aws_diagnostics: known codes and operations, a region and numbers of
\* the right form; of the message only three kinds.
Diagnostics(e) ==
  IF e.kind = "runtime" \/ e.what \in {"no region", "no credentials"}
  THEN Message(e) ELSE {"fixed"}

---------------------------------------------------------------------------
(* get_secrets. *)

VARIABLES
  batches,  \* "idle", "asking", "returned" or "raised"
  wanted,   \* requested_ids
  asked,    \* how many of them have been asked for
  values,   \* identifiers with their secrets
  failures, \* identifiers with the class of their error
  given     \* history: identifiers that AWS gave a readable value for

secretVars == <<batches, wanted, asked, values, failures, given>>

Nothing == [i \in {} |-> i]

SecretTypeOK ==
  /\ batches \in {"idle", "asking", "returned", "raised"}
  /\ wanted \in Seq(Ids) /\ Len(wanted) <= MaxIds
  /\ asked \in 0..Len(wanted)
  /\ DOMAIN values \subseteq Ids /\ Range(values) \subseteq Secrets
  /\ DOMAIN failures \subseteq Ids /\ Range(failures) \subseteq Classes
  /\ given \subseteq Ids

SecretInit ==
  /\ batches = "idle"
  /\ wanted = <<>>
  /\ asked = 0
  /\ values = Nothing
  /\ failures = Nothing
  /\ given = {}

\* _get_client makes a client, or its error is that of every secret.
GetSecrets(ids) ==
  /\ batches = "idle"
  /\ wanted' = ids
  /\ \/ /\ batches' = "asking"
        /\ UNCHANGED failures
     \/ \E e \in Errors : /\ ids # <<>>
                          /\ batches' = "raised"
                          /\ failures' = [i \in ToSet(ids) |-> Class(e)]
  /\ UNCHANGED <<asked, values, given>>

\* _chunks: the next slice ends at its size or with the list.
ChunkEnd == IF asked + MaxBatchSize < Len(wanted) THEN asked + MaxBatchSize ELSE Len(wanted)
Chunk == SubSeq(wanted, asked + 1, ChunkEnd)

\* The identifier a value is filed under: the name when it was asked for.
FiledUnder(s, ids) ==
  CHOOSE i \in ids : i.secret = s /\ ([secret |-> s, by |-> "Name"] \in ids => i.by = "Name")

\* dict.update.
Updated(old, new) ==
  [i \in DOMAIN new \cup DOMAIN old |-> IF i \in DOMAIN new THEN new[i] ELSE old[i]]

\* AWS answers with the values of some secrets, of which some cannot be read,
\* and with errors for others; every other identifier was left out.
ChunkAnswered ==
  /\ batches = "asking"
  /\ asked < Len(wanted)
  /\ LET ids == ToSet(Chunk)
         secrets == {i.secret : i \in ids}
     IN \E found \in SUBSET secrets : \E unreadable \in SUBSET found :
        \E code \in Codes :
          LET read == {FiledUnder(s, ids) : s \in found \ unreadable}
              refused == {i \in ids : i.secret \notin found}
              error == [kind |-> "client", what |-> code, op |-> "BatchGetSecretValue"]
          IN \E errors \in SUBSET refused :
               /\ values' = Updated(values, [i \in read |-> i.secret])
               /\ failures' = Updated(failures, [i \in ids \ read |->
                                                  IF i \in errors THEN Class(error)
                                                  ELSE "SecretRequestError"])
               /\ given' = given \cup {i \in ids : i.secret \in found \ unreadable}
  /\ asked' = ChunkEnd
  /\ UNCHANGED <<batches, wanted>>

\* Mutant: a batch that raises leaves no failures behind.
ChunkRaisedSilently ==
  /\ batches = "asking"
  /\ asked < Len(wanted)
  /\ asked' = ChunkEnd
  /\ UNCHANGED <<batches, wanted, values, failures, given>>

\* The call raises: its error is that of every secret of the batch, and the next
\* batch is asked for.
ChunkRaised ==
  /\ batches = "asking"
  /\ asked < Len(wanted)
  /\ \E e \in Errors :
       failures' = Updated(failures, [i \in ToSet(Chunk) |-> Class(e)])
  /\ asked' = ChunkEnd
  /\ UNCHANGED <<batches, wanted, values, given>>

FinishBatches ==
  /\ batches = "asking"
  /\ asked = Len(wanted)
  /\ batches' = IF failures = Nothing THEN "returned" ELSE "raised"
  /\ UNCHANGED <<wanted, asked, values, failures, given>>

\* The caller goes on.
TakeSecrets ==
  /\ batches \in {"returned", "raised"}
  /\ batches' = "idle"
  /\ wanted' = <<>>
  /\ asked' = 0
  /\ values' = Nothing
  /\ failures' = Nothing
  /\ given' = {}

SecretNext ==
  \/ \E n \in 0..MaxIds : \E ids \in [1..n -> Ids] : GetSecrets(ids)
  \/ ChunkAnswered \/ ChunkRaised \/ FinishBatches \/ TakeSecrets

---------------------------------------------------------------------------
(* Properties. *)

\* What get_secrets returns is the value of every identifier, each that of its
\* own secret; what it raises names those it has no value for, however the
\* identifiers fall into batches.  A value stands for one identifier only: when
\* name and ARN of one secret are in the same batch, the ARN counts as missing.
BatchesAreExact ==
  /\ batches = "returned" =>
       \A i \in ToSet(wanted) : i \in DOMAIN values /\ values[i] = i.secret
  /\ batches = "raised" => DOMAIN failures # {} /\ DOMAIN failures \subseteq ToSet(wanted)
  /\ batches = "raised" /\ asked = Len(wanted) =>
       \A i \in ToSet(wanted) :
         /\ i \notin given => i \in DOMAIN failures
         /\ i \in given /\ i \notin DOMAIN values =>
              [i EXCEPT !.by = "Name"] \in ToSet(wanted)

=============================================================================
