-------------------------- MODULE BHEClient_proofs --------------------------
(***************************************************************************)
(* Proofs about BHEClient and the SecretRetrieval it reads its pair with,  *)
(* for bodies of any length, any number of rotations, any set of secrets   *)
(* and batches of any size.  The steps of a batch and those of the client  *)
(* touch different variables: each half has its own inductive invariant.   *)
(***************************************************************************)
EXTENDS BHEClient, TLAPS

---------------------------------------------------------------------------
(* Failures. *)

\* The classifiers know no other class than the four of the client.
LEMMA ClassIsKnown ==
  ASSUME NEW e \in Errors
  PROVE  Class(e) \in Classes
BY DEF Class, ClientClass, Classes

\* What a classified error says is the client's own words, names, or an
\* explanation without anything that was sent or received.
LEMMA MessageIsSafe ==
  ASSUME NEW e \in Errors
  PROVE  Message(e) \subseteq {"fixed", "secret id", "region", "explanation"}
<1>1. Reworded(e) \/ SdkText(e) = {"explanation"}
  BY DEF Errors, Reworded, SdkText, Codes, Operations, CredentialOperations
<1> QED BY <1>1 DEF Message

---------------------------------------------------------------------------
(* A request and the pair it is signed with. *)

\* A request that may still be sent stands where its caller passed it, and so
\* does what its signature covers; a refresh happens in a first attempt only.
RequestInv ==
  /\ pc \in {"sign", "send", "refresh"} => body.position = body.start
  /\ pc = "refresh" => attempt = 1
  /\ taken.from = taken.start

ClientTypeOK ==
  /\ role \in Roles
  /\ bhePair \in 1..(MaxRotations + 1)
  /\ secret \in [pair : 1..(MaxRotations + 1), usable : BOOLEAN]
  /\ pair \in 0..(MaxRotations + 1)
  /\ pc \in {"start", "idle", "sign", "send", "refresh"}
  /\ body \in Bodies
  /\ attempt \in 1..2
  /\ sig \in [pair : 0..(MaxRotations + 1), from : 0..BodyLength]
  /\ taken \in [start : 0..BodyLength, from : 0..BodyLength]

ClientInv == ClientTypeOK /\ RequestInv

LEMMA ClientInit ==
  Init => ClientInv
<1> SUFFICES ASSUME Init
             PROVE  ClientInv
  OBVIOUS
<1>1. body \in Bodies /\ taken \in [start : 0..BodyLength, from : 0..BodyLength]
  BY ClientAssumption DEF Init, Bodies
<1>2. sig \in [pair : 0..(MaxRotations + 1), from : 0..BodyLength]
  BY ClientAssumption DEF Init, NoSig
<1>3. secret \in [pair : 1..(MaxRotations + 1), usable : BOOLEAN]
  BY ClientAssumption DEF Init
<1>4. taken.from = taken.start
  BY DEF Init
<1> QED BY <1>1, <1>2, <1>3, <1>4, ClientAssumption DEF Init, ClientInv, ClientTypeOK, RequestInv, Roles

\* Wherever a body is read to, it is a body.
LEMMA BodiesAreRead ==
  ASSUME NEW b \in Bodies
  PROVE  /\ b.start \in 0..BodyLength /\ b.position \in 0..BodyLength
         /\ \A p \in b.position..BodyLength : [b EXCEPT !.position = p] \in Bodies
         /\ [b EXCEPT !.position = b.start] \in Bodies
         /\ [b EXCEPT !.position = b.start].position = [b EXCEPT !.position = b.start].start
<1>1. b.start \in 0..BodyLength /\ b.position \in 0..BodyLength
  BY DEF Bodies
<1>2. \A p \in 0..BodyLength : [b EXCEPT !.position = p] \in Bodies
  BY DEF Bodies
<1>3. \A p \in b.position..BodyLength : p \in 0..BodyLength
  BY <1>1, ClientAssumption
<1>4. [b EXCEPT !.position = b.start].position = [b EXCEPT !.position = b.start].start
  BY DEF Bodies
<1> QED BY <1>1, <1>2, <1>3, <1>4

LEMMA PositionIsBody ==
  ASSUME body \in Bodies
  PROVE  \A p \in body.position..BodyLength : Position(p) \in Bodies
BY BodiesAreRead DEF Position

\* The body a caller passes stands where it stands.
LEMMA CallersBody ==
  ASSUME NEW file \in BOOLEAN, NEW start \in 0..(BodyLength - 1)
  PROVE  [file |-> file, start |-> start, position |-> start] \in Bodies
<1>1. start \in 0..BodyLength
  BY ClientAssumption
<1> QED BY <1>1 DEF Bodies

LEMMA ClientStep ==
  ASSUME ClientInv, [Next]_vars
  PROVE  ClientInv'
<1> USE DEF ClientInv, ClientTypeOK, RequestInv
<1>1. CASE Calls
  <2>1. PICK file \in BOOLEAN, start \in 0..(BodyLength - 1) : Call(file, start)
    BY <1>1 DEF Calls
  <2>2. body' \in Bodies
    BY <2>1, CallersBody DEF Call
  <2>3. body'.position = body'.start
    BY <2>1 DEF Call
  <2> QED BY <2>1, <2>2, <2>3 DEF Call
<1>2. CASE Signed
  BY <1>2, BodiesAreRead DEF Signed
<1>3. CASE SignRaised
  BY <1>3 DEF SignRaised, GivenUp
<1>4. CASE SendRaised
  BY <1>4, PositionIsBody DEF SendRaised, GivenUp
<1>5. CASE Taken
  <2>1. BodyLength \in body.position..BodyLength
    <3>1. body.position \in 0..BodyLength
      BY BodiesAreRead
    <3> QED BY <3>1, ClientAssumption
  <2>2. body' \in Bodies
    BY <2>1, <1>5, PositionIsBody DEF Taken
  <2>3. taken' = [start |-> body.start, from |-> body.start]
    BY <1>5 DEF Taken
  <2>4. taken' \in [start : 0..BodyLength, from : 0..BodyLength] /\ taken'.from = taken'.start
    BY <2>3, BodiesAreRead
  <2> QED BY <2>2, <2>4, <1>5 DEF Taken, GivenUp
<1>6. CASE Unauthorized
  <2>1. body' \in Bodies /\ body'.position = body'.start
    BY <1>6, BodiesAreRead DEF Unauthorized, Rewound
  <2> QED BY <2>1, <1>6 DEF Unauthorized
<1>7. CASE UnauthorizedAgain
  BY <1>7, PositionIsBody DEF UnauthorizedAgain, GivenUp
<1>8. CASE Loaded
  BY <1>8 DEF Loaded, Reading
<1>9. CASE Unusable \/ LoadRaised
  BY <1>9 DEF Unusable, LoadRaised, LoadFailed, Reading
<1>10. CASE JobSecretRaised
  BY <1>10 DEF JobSecretRaised
<1>11. CASE Rotates
  <2>1. CASE RotateSecret
    <3>1. secret.pair + 1 \in 1..(MaxRotations + 1)
      BY <2>1, ClientAssumption DEF RotateSecret
    <3> QED BY <2>1, <3>1 DEF RotateSecret
  <2>2. CASE RepairSecret
    BY <2>2 DEF RepairSecret
  <2>3. CASE RotateBHE
    <3>1. bhePair + 1 \in 1..(MaxRotations + 1)
      BY <2>3, ClientAssumption DEF RotateBHE
    <3> QED BY <2>3, <3>1 DEF RotateBHE
  <2> QED BY <1>11, <2>1, <2>2, <2>3 DEF Rotates
<1>12. CASE Batches \/ UNCHANGED vars
  BY <1>12 DEF Batches, vars, clientVars
<1> QED BY <1>1, <1>2, <1>3, <1>4, <1>5, <1>6, <1>7, <1>8, <1>9, <1>10, <1>11, <1>12
        DEF Next, Sends, Loads

LEMMA ClientIsInvariant ==
  Spec => []ClientInv
BY ClientInit, ClientStep, PTL DEF Spec

\* Whatever a signature, a refused sending or a failed reading has read of a
\* file, what BHE carries out begins where the file stood when its caller passed
\* it (request, body.seek(position)).
THEOREM RequestsAreWhole ==
  Spec => []TakenIsWhole
<1>1. ClientInv => TakenIsWhole
  BY DEF ClientInv, RequestInv, TakenIsWhole
<1> QED BY <1>1, ClientIsInvariant, PTL

---------------------------------------------------------------------------
(* What is said of a failure. *)

\* What a log may say of a failure.
Sayable == {"fixed", "type", "secret id", "region", "explanation"}

\* What is told of a failed retrieval is safe, classified or not.
LEMMA ToldOfErrors ==
  ASSUME NEW e \in Errors \cup {Unexpected}
  PROVE  Told(e) \subseteq Sayable
<1>1. CASE e = Unexpected
  BY <1>1 DEF Told, Sayable
<1>2. CASE e # Unexpected
  BY <1>2, MessageIsSafe DEF Told, Sayable
<1> QED BY <1>1, <1>2

ToldInv == told \subseteq Sayable

\* Every retrieval that fails is told in those words.
LEMMA ToldStep ==
  ASSUME ToldInv, [Next]_vars
  PROVE  ToldInv'
<1> USE DEF ToldInv
<1>1. CASE Unusable
  BY <1>1 DEF Unusable, LoadFailed, Sayable
<1>2. CASE LoadRaised
  BY <1>2, ToldOfErrors DEF LoadRaised, LoadFailed
<1>3. CASE JobSecretRaised
  <2>1. \A e \in Errors : Message(e) \subseteq Sayable /\ Diagnostics(e) \subseteq Sayable
    BY MessageIsSafe DEF Diagnostics, Sayable
  <2> QED BY <2>1, <1>3, ToldOfErrors DEF JobSecretRaised
<1>4. CASE UNCHANGED told
  BY <1>4
<1>5. Unusable \/ LoadRaised \/ JobSecretRaised \/ UNCHANGED told
  BY DEF Next, Calls, Call, Signed, SignRaised, Sends, SendRaised, Taken, Unauthorized,
     UnauthorizedAgain, GivenUp, Loads, Loaded, Rotates, RotateSecret, RepairSecret, RotateBHE,
     Batches, vars, clientVars
<1> QED BY <1>1, <1>2, <1>3, <1>4, <1>5

\* No failure of AWS, of its SDK or of the secret's text makes the client say
\* what was sent or received: the classifiers' words and _safe_aws_diagnostics.
THEOREM FailuresTellNothing ==
  Spec => []ToldIsSafe
<1>1. Init => ToldInv
  BY DEF Init, ToldInv
<1>2. ToldInv => ToldIsSafe
  BY DEF ToldInv, Sayable, ToldIsSafe, Payload
<1> QED BY <1>1, <1>2, ToldStep, PTL DEF Spec

---------------------------------------------------------------------------
(* A batch. *)

\* The identifiers that have been asked for.
Asked == {wanted[k] : k \in 1..asked}

BatchTypeOK ==
  /\ batches \in {"idle", "asking", "returned", "raised"}
  /\ wanted \in Seq(Ids) /\ Len(wanted) <= MaxIds
  /\ asked \in 0..Len(wanted)
  /\ values \in [DOMAIN values -> Secrets]
  /\ failures \in [DOMAIN failures -> Classes]
  /\ DOMAIN values \subseteq Ids

\* Nothing is filed but for what was asked for, and everything that was is
\* filed: a value, or a failure.  An identifier whose secret AWS gave, and that
\* has no value, gave it up to the name of the same secret.
BatchInv ==
  /\ batches = "idle" =>
       wanted = <<>> /\ asked = 0 /\ values = Nothing /\ failures = Nothing /\ given = {}
  /\ DOMAIN failures \subseteq ToSet(wanted)
  /\ given \subseteq Asked
  /\ \A i \in DOMAIN values : values[i] = i.secret
  /\ \A i \in Asked :
       /\ i \in DOMAIN values \/ i \in DOMAIN failures
       /\ i \notin given => i \in DOMAIN failures
       /\ i \in given /\ i \notin DOMAIN values => [i EXCEPT !.by = "Name"] \in ToSet(wanted)
  /\ batches = "returned" => asked = Len(wanted) /\ DOMAIN failures = {}
  /\ batches = "raised" => DOMAIN failures # {}

LEMMA BatchInit ==
  Init => BatchTypeOK /\ BatchInv
BY SecretsAssumption DEF Init, SecretInit, BatchTypeOK, BatchInv, Nothing, Asked, ToSet

\* A chunk is the next identifiers of the list, and brings the asking forward.
LEMMA ChunkIsNext ==
  ASSUME BatchTypeOK, asked < Len(wanted)
  PROVE  /\ ChunkEnd \in (asked + 1)..Len(wanted)
         /\ ToSet(Chunk) = {wanted[k] : k \in (asked + 1)..ChunkEnd}
         /\ ToSet(Chunk) \subseteq ToSet(wanted)
         /\ ToSet(Chunk) \subseteq Ids
         /\ {wanted[k] : k \in 1..ChunkEnd} = Asked \cup ToSet(Chunk)
<1> USE DEF BatchTypeOK
<1>1. asked \in Nat /\ Len(wanted) \in Nat /\ MaxBatchSize \in Nat \ {0}
  BY SecretsAssumption
<1>2. ChunkEnd \in (asked + 1)..Len(wanted)
  BY <1>1 DEF ChunkEnd
<1>3. Chunk = [k \in 1..(ChunkEnd - asked) |-> wanted[asked + k]]
  BY <1>1, <1>2 DEF Chunk
<1>4. ToSet(Chunk) = {wanted[k] : k \in (asked + 1)..ChunkEnd}
  <2>1. ToSet(Chunk) = {wanted[asked + k] : k \in 1..(ChunkEnd - asked)}
    BY <1>3 DEF ToSet
  <2>2. ASSUME NEW k \in 1..(ChunkEnd - asked)
        PROVE  asked + k \in (asked + 1)..ChunkEnd
    BY <1>1, <1>2
  <2>3. ASSUME NEW k \in (asked + 1)..ChunkEnd
        PROVE  k - asked \in 1..(ChunkEnd - asked) /\ asked + (k - asked) = k
    BY <1>1, <1>2
  <2> QED BY <2>1, <2>2, <2>3
<1>5. ToSet(wanted) = {wanted[k] : k \in 1..Len(wanted)} /\ ToSet(wanted) \subseteq Ids
  BY DEF ToSet
<1>6. (asked + 1)..ChunkEnd \subseteq 1..Len(wanted) /\ 1..ChunkEnd = 1..asked \cup (asked + 1)..ChunkEnd
  BY <1>1, <1>2
<1> QED BY <1>2, <1>4, <1>5, <1>6 DEF Asked

\* A value is filed under an identifier of its own secret, by name when the name
\* was asked for.
LEMMA FiledUnderItsOwn ==
  ASSUME NEW ids \in SUBSET Ids, NEW s \in {i.secret : i \in ids}
  PROVE  /\ FiledUnder(s, ids) \in ids
         /\ FiledUnder(s, ids).secret = s
         /\ [secret |-> s, by |-> "Name"] \in ids => FiledUnder(s, ids) = [secret |-> s, by |-> "Name"]
<1> DEFINE name == [secret |-> s, by |-> "Name"]
           Fits(i) == i.secret = s /\ (name \in ids => i.by = "Name")
<1>1. \E i \in ids : Fits(i)
  <2>1. CASE name \in ids
    BY <2>1
  <2>2. CASE name \notin ids
    BY <2>2
  <2> QED BY <2>1, <2>2
<1>2. FiledUnder(s, ids) \in ids /\ Fits(FiledUnder(s, ids))
  BY <1>1 DEF FiledUnder
<1>3. \A i \in ids : i = [secret |-> i.secret, by |-> i.by]
  BY DEF Ids
<1> QED BY <1>2, <1>3

\* What is in the list stays there when it is filed: a new batch adds values and
\* failures for the identifiers of its chunk only.
LEMMA ChunkAnsweredFiles ==
  ASSUME BatchTypeOK, BatchInv, ChunkAnswered
  PROVE  BatchTypeOK' /\ BatchInv'
<1> DEFINE ids == ToSet(Chunk)
           secrets == {i.secret : i \in ids}
           error(code) == [kind |-> "client", what |-> code, op |-> "BatchGetSecretValue"]
<1>1. PICK found \in SUBSET secrets : \E unreadable \in SUBSET found : \E code \in Codes :
        \E errors \in SUBSET {i \in ids : i.secret \notin found} :
          LET read == {FiledUnder(s, ids) : s \in found \ unreadable}
          IN /\ values' = Updated(values, [i \in read |-> i.secret])
             /\ failures' = Updated(failures, [i \in ids \ read |->
                                               IF i \in errors THEN Class(error(code))
                                               ELSE "SecretRequestError"])
             /\ given' = given \cup {i \in ids : i.secret \in found \ unreadable}
  BY DEF ChunkAnswered
<1>2. PICK unreadable \in SUBSET found, code \in Codes,
           errors \in SUBSET {i \in ids : i.secret \notin found} :
          LET read == {FiledUnder(s, ids) : s \in found \ unreadable}
          IN /\ values' = Updated(values, [i \in read |-> i.secret])
             /\ failures' = Updated(failures, [i \in ids \ read |->
                                               IF i \in errors THEN Class(error(code))
                                               ELSE "SecretRequestError"])
             /\ given' = given \cup {i \in ids : i.secret \in found \ unreadable}
  BY <1>1
<1> DEFINE read == {FiledUnder(s, ids) : s \in found \ unreadable}
           refusal(i) == IF i \in errors THEN Class(error(code)) ELSE "SecretRequestError"
<1>3. /\ values' = [i \in read \cup DOMAIN values |-> IF i \in read THEN i.secret ELSE values[i]]
      /\ failures' = [i \in (ids \ read) \cup DOMAIN failures |->
                        IF i \in ids \ read THEN refusal(i) ELSE failures[i]]
      /\ given' = given \cup {i \in ids : i.secret \in found \ unreadable}
  BY <1>2 DEF Updated
<1>4. /\ batches = "asking" /\ batches' = "asking" /\ asked < Len(wanted)
      /\ asked' = ChunkEnd /\ wanted' = wanted
  BY DEF ChunkAnswered
<1>5. /\ ChunkEnd \in (asked + 1)..Len(wanted) /\ ids \subseteq ToSet(wanted) /\ ids \subseteq Ids
      /\ Asked' = Asked \cup ids
  <2>1. /\ ChunkEnd \in (asked + 1)..Len(wanted) /\ ids \subseteq ToSet(wanted) /\ ids \subseteq Ids
        /\ {wanted[k] : k \in 1..ChunkEnd} = Asked \cup ids
    BY <1>4, ChunkIsNext
  <2>2. Asked' = {wanted[k] : k \in 1..ChunkEnd}
    BY <1>4 DEF Asked
  <2> QED BY <2>1, <2>2
<1>6. \A s \in found \ unreadable :
        /\ FiledUnder(s, ids) \in ids /\ FiledUnder(s, ids).secret = s
        /\ [secret |-> s, by |-> "Name"] \in ids => FiledUnder(s, ids) = [secret |-> s, by |-> "Name"]
  BY <1>5, FiledUnderItsOwn
<1>7. read \subseteq ids /\ \A i \in read : i.secret \in found \ unreadable
  BY <1>6
<1>8. ids \subseteq [secret : Secrets, by : {"Name", "ARN"}]
  BY <1>5 DEF Ids
<1>9. \A i \in ids : refusal(i) \in Classes
  <2>1. error(code) \in Errors
    BY DEF Errors, Operations
  <2>2. Class(error(code)) \in Classes /\ "SecretRequestError" \in Classes
    BY <2>1, ClassIsKnown DEF Classes
  <2> QED BY <2>2
<1>10. BatchTypeOK'
  <2>1. asked' \in 0..Len(wanted)
    BY <1>4, <1>5 DEF BatchTypeOK
  <2>2. values' \in [DOMAIN values' -> Secrets] /\ DOMAIN values' \subseteq Ids
    BY <1>3, <1>5, <1>7, <1>8 DEF BatchTypeOK
  <2>3. failures' \in [DOMAIN failures' -> Classes]
    BY <1>3, <1>9 DEF BatchTypeOK
  <2> QED BY <1>4, <2>1, <2>2, <2>3 DEF BatchTypeOK
<1>11. DOMAIN failures' \subseteq ToSet(wanted) /\ given' \subseteq Asked'
  BY <1>3, <1>5 DEF BatchInv
<1>12. \A i \in DOMAIN values' : values'[i] = i.secret
  BY <1>3 DEF BatchInv
<1>13. ASSUME NEW i \in Asked'
       PROVE  /\ i \in DOMAIN values' \/ i \in DOMAIN failures'
              /\ i \notin given' => i \in DOMAIN failures'
              /\ i \in given' /\ i \notin DOMAIN values' => [i EXCEPT !.by = "Name"] \in ToSet(wanted)
  <2>1. DOMAIN values' = read \cup DOMAIN values /\ DOMAIN failures' = (ids \ read) \cup DOMAIN failures
    BY <1>3
  <2>2. CASE i \in ids
    <3>1. i \notin given' => i \notin read
      BY <1>3, <1>7, <2>2
    <3>2. ASSUME i \in given', i \notin DOMAIN values', i.secret \in found \ unreadable
          PROVE  [i EXCEPT !.by = "Name"] \in ToSet(wanted)
      <4>1. FiledUnder(i.secret, ids) \in read /\ FiledUnder(i.secret, ids) # i
        BY <2>1, <3>2
      <4>2. [secret |-> i.secret, by |-> "Name"] = [i EXCEPT !.by = "Name"]
        BY <2>2, <1>8
      <4>3. \A k \in ids : k = [secret |-> k.secret, by |-> k.by] /\ k.by \in {"Name", "ARN"}
        BY <1>8
      <4>4. FiledUnder(i.secret, ids) \in ids /\ FiledUnder(i.secret, ids).secret = i.secret
        BY <1>6, <3>2
      <4>5. [secret |-> i.secret, by |-> "Name"] \in ids
        BY <4>1, <4>3, <4>4, <2>2
      <4> QED BY <4>2, <4>5, <1>5
    <3>3. i \in given' => i \in given \/ i.secret \in found \ unreadable
      BY <1>3
    <3>4. CASE i \in given
      BY <3>4, <3>1, <2>1, <2>2 DEF BatchInv
    <3> QED BY <3>1, <3>2, <3>3, <3>4, <2>1, <2>2
  <2>3. CASE i \notin ids
    BY <1>3, <1>5, <2>1, <2>3 DEF BatchInv
  <2> QED BY <2>2, <2>3
<1> QED BY <1>4, <1>10, <1>11, <1>12, <1>13 DEF BatchInv

LEMMA ChunkRaisedFiles ==
  ASSUME BatchTypeOK, BatchInv, ChunkRaised
  PROVE  BatchTypeOK' /\ BatchInv'
<1> DEFINE ids == ToSet(Chunk)
<1>1. PICK e \in Errors : failures' = Updated(failures, [i \in ids |-> Class(e)])
  BY DEF ChunkRaised
<1>2. failures' = [i \in ids \cup DOMAIN failures |-> IF i \in ids THEN Class(e) ELSE failures[i]]
  BY <1>1 DEF Updated
<1>3. /\ batches = "asking" /\ batches' = "asking" /\ asked < Len(wanted)
      /\ asked' = ChunkEnd /\ wanted' = wanted /\ values' = values /\ given' = given
  BY DEF ChunkRaised
<1>4. /\ ChunkEnd \in (asked + 1)..Len(wanted) /\ ids \subseteq ToSet(wanted)
      /\ Asked' = Asked \cup ids
  BY <1>3, ChunkIsNext DEF Asked
<1>5. BatchTypeOK'
  <2>1. asked' \in 0..Len(wanted)
    BY <1>3, <1>4 DEF BatchTypeOK
  <2>2. failures' \in [DOMAIN failures' -> Classes]
    BY <1>2, ClassIsKnown DEF BatchTypeOK
  <2> QED BY <1>3, <2>1, <2>2 DEF BatchTypeOK
<1>6. DOMAIN failures' = ids \cup DOMAIN failures
  BY <1>2
<1>7. ASSUME NEW i \in Asked'
      PROVE  /\ i \in DOMAIN values \/ i \in DOMAIN failures'
             /\ i \notin given => i \in DOMAIN failures'
             /\ i \in given /\ i \notin DOMAIN values => [i EXCEPT !.by = "Name"] \in ToSet(wanted)
  BY <1>4, <1>6 DEF BatchInv
<1> QED BY <1>3, <1>4, <1>5, <1>6, <1>7 DEF BatchInv

\* A list of identifiers, and what asking for it begins with.
LEMMA GetSecretsFiles ==
  ASSUME BatchTypeOK, BatchInv, NEW n \in 0..MaxIds, NEW ids \in [1..n -> Ids], GetSecrets(ids)
  PROVE  BatchTypeOK' /\ BatchInv'
<1>1. n \in Nat /\ n <= MaxIds
  BY SecretsAssumption
<1>2. ids \in Seq(Ids) /\ Len(ids) = n
  BY <1>1
<1>3. ToSet(ids) = {ids[k] : k \in 1..n}
  BY DEF ToSet
<1>4. ids # <<>> => ToSet(ids) # {}
  BY <1>1, <1>2, <1>3
<1>5. /\ asked = 0 /\ asked' = 0 /\ values = Nothing /\ values' = Nothing /\ given' = {}
      /\ failures = Nothing /\ wanted' = ids /\ batches' \in {"asking", "raised"}
  BY DEF GetSecrets, BatchInv
<1>6. DOMAIN Nothing = {} /\ Asked' = {}
  BY <1>5 DEF Nothing, Asked
<1>7. /\ failures' \in [DOMAIN failures' -> Classes]
      /\ DOMAIN failures' \subseteq ToSet(ids)
      /\ batches' = "raised" => DOMAIN failures' # {}
  <2>1. CASE batches' = "asking" /\ UNCHANGED failures
    BY <2>1, <1>5, <1>6 DEF BatchTypeOK
  <2>2. ASSUME NEW e \in Errors, ids # <<>>, failures' = [i \in ToSet(ids) |-> Class(e)]
        PROVE  <1>7!:
    BY <2>2, <1>4, ClassIsKnown
  <2> QED BY <2>1, <2>2 DEF GetSecrets
<1>8. BatchTypeOK'
  BY <1>1, <1>2, <1>5, <1>6, <1>7 DEF BatchTypeOK
<1> QED BY <1>5, <1>6, <1>7, <1>8 DEF BatchInv

LEMMA BatchStep ==
  ASSUME BatchTypeOK, BatchInv, [Next]_vars
  PROVE  BatchTypeOK' /\ BatchInv'
<1>1. CASE Batches
  <2>1. ASSUME NEW n \in 0..MaxIds, NEW ids \in [1..n -> Ids], GetSecrets(ids)
        PROVE  BatchTypeOK' /\ BatchInv'
    BY <2>1, GetSecretsFiles
  <2>2. CASE FinishBatches
    <3>1. DOMAIN Nothing = {}
      BY DEF Nothing
    <3>2. failures # Nothing => DOMAIN failures # {}
      BY DEF BatchTypeOK, Nothing
    <3>3. Asked' = Asked
      BY <2>2 DEF FinishBatches, Asked
    <3> QED BY <2>2, <3>1, <3>2, <3>3 DEF FinishBatches, BatchTypeOK, BatchInv
  <2>3. CASE TakeSecrets
    <3>1. DOMAIN Nothing = {} /\ ToSet(<<>>) = {} /\ Asked' = {}
      BY <2>3 DEF Nothing, ToSet, Asked, TakeSecrets
    <3>2. wanted' \in Seq(Ids) /\ Len(wanted') = 0
      BY <2>3 DEF TakeSecrets
    <3>3. Nothing \in [{} -> Secrets] /\ Nothing \in [{} -> Classes]
      BY DEF Nothing
    <3> QED BY <2>3, <3>1, <3>2, <3>3, SecretsAssumption DEF TakeSecrets, BatchTypeOK, BatchInv
  <2> QED BY <1>1, <2>1, <2>2, <2>3, ChunkAnsweredFiles, ChunkRaisedFiles DEF Batches, SecretNext
<1>2. CASE UNCHANGED secretVars
  BY <1>2 DEF secretVars, BatchTypeOK, BatchInv, Asked
<1>3. Batches \/ UNCHANGED secretVars
  BY DEF Next, Calls, Call, Signed, SignRaised, Sends, SendRaised, Taken, Unauthorized,
     UnauthorizedAgain, GivenUp, Loads, Loaded, Unusable, LoadRaised, LoadFailed,
     JobSecretRaised, Rotates, RotateSecret, RepairSecret, RotateBHE, vars
<1> QED BY <1>1, <1>2, <1>3

LEMMA BatchIsInvariant ==
  Spec => [](BatchTypeOK /\ BatchInv)
BY BatchInit, BatchStep, PTL DEF Spec

\* However the identifiers fall into batches, whichever of them fail and however
\* often one is repeated: get_secrets returns the value of each, its own, or
\* raises what names each that AWS gave no value for.
THEOREM SecretsAreExact ==
  Spec => []BatchesAreExact
<1>1. BatchTypeOK /\ BatchInv => BatchesAreExact
  <2> SUFFICES ASSUME BatchTypeOK, BatchInv
               PROVE  BatchesAreExact
    OBVIOUS
  <2>1. asked = Len(wanted) => Asked = ToSet(wanted)
    BY DEF Asked, ToSet, BatchTypeOK
  <2> QED BY <2>1 DEF BatchInv, BatchesAreExact
<1> QED BY <1>1, BatchIsInvariant, PTL

\* Every variable of the client, and of the retrieval, keeps its type.
THEOREM ClientIsTyped ==
  Spec => []TypeOK
<1>1. BatchTypeOK /\ BatchInv => SecretTypeOK
  <2> SUFFICES ASSUME BatchTypeOK, BatchInv
               PROVE  SecretTypeOK
    OBVIOUS
  <2>1. ToSet(wanted) \subseteq Ids /\ Asked \subseteq Ids
    BY DEF BatchTypeOK, ToSet, Asked
  <2>2. Range(values) \subseteq Secrets /\ Range(failures) \subseteq Classes
    BY DEF BatchTypeOK, Range
  <2> QED BY <2>1, <2>2 DEF BatchTypeOK, BatchInv, SecretTypeOK
<1>2. ToldInv => told \subseteq {"fixed", "type", "secret id", "region", "explanation"} \cup Payload
  BY DEF ToldInv, Sayable
<1>3. SecretTypeOK /\ ClientInv /\ ToldInv => TypeOK
  BY <1>2 DEF ClientInv, ClientTypeOK, TypeOK
<1>4. Init => ToldInv
  BY DEF Init, ToldInv
<1> QED BY <1>1, <1>3, <1>4, ToldStep, ClientIsInvariant, BatchIsInvariant, PTL DEF Spec

---------------------------------------------------------------------------
(* The pair a scheduler uses, while the secret's and BHE's are rotated.    *)

\* A signature is of no newer pair than the client has, the client has none newer
\* than the secret, and BHE accepts the secret's or the one before it.
PairsAreOrdered ==
  /\ sig.pair <= pair
  /\ pair <= secret.pair
  /\ bhePair <= secret.pair
  /\ secret.pair <= bhePair + 1

\* A client that changes its pair changes it to a newer one, the secret's.
PairGetsNewer == pair' # pair => pair < pair' /\ pair' = secret.pair

\* A client that has the pair BHE accepts, and that the secret keeps, has it until
\* BHE is given another.
HealedStaysHealed ==
  pair = bhePair /\ secret.pair = bhePair => pair' = bhePair

LEMMA PairsInit ==
  Init => PairsAreOrdered
<1> SUFFICES ASSUME Init
             PROVE  PairsAreOrdered
  OBVIOUS
<1>1. secret.pair = 1 /\ bhePair = 1 /\ sig.pair = 0 /\ pair \in {0, 1}
  BY DEF Init, NoSig
<1> QED BY <1>1 DEF PairsAreOrdered

LEMMA PairsStep ==
  ASSUME ClientInv, PairsAreOrdered, [Next]_vars
  PROVE  PairsAreOrdered'
<1>1. /\ secret.pair \in Nat /\ pair \in Nat /\ bhePair \in Nat /\ sig.pair \in Nat
      /\ MaxRotations \in Nat
  BY ClientAssumption DEF ClientInv, ClientTypeOK
<1>2. CASE Signed
  <2>1. sig'.pair = pair /\ pair' = pair /\ secret' = secret /\ bhePair' = bhePair
    BY <1>2 DEF Signed
  <2> QED BY <2>1, <1>1 DEF PairsAreOrdered
<1>3. CASE Loaded
  <2>1. pair' = secret.pair /\ sig' = sig /\ secret' = secret /\ bhePair' = bhePair
    BY <1>3 DEF Loaded
  <2> QED BY <2>1, <1>1 DEF PairsAreOrdered
<1>4. CASE RotateSecret
  <2>1. /\ secret.pair = bhePair /\ secret'.pair = secret.pair + 1
        /\ sig' = sig /\ pair' = pair /\ bhePair' = bhePair
    BY <1>4 DEF RotateSecret
  <2> QED BY <2>1, <1>1 DEF PairsAreOrdered
<1>5. CASE RepairSecret
  <2>1. secret'.pair = secret.pair /\ sig' = sig /\ pair' = pair /\ bhePair' = bhePair
    BY <1>5 DEF RepairSecret, ClientInv, ClientTypeOK
  <2> QED BY <2>1 DEF PairsAreOrdered
<1>6. CASE RotateBHE
  <2>1. /\ bhePair < secret.pair /\ bhePair' = bhePair + 1
        /\ sig' = sig /\ pair' = pair /\ secret' = secret
    BY <1>6 DEF RotateBHE
  <2> QED BY <2>1, <1>1 DEF PairsAreOrdered
<1>7. CASE UNCHANGED <<sig, pair, secret, bhePair>>
  BY <1>7 DEF PairsAreOrdered
<1> QED
  BY <1>2, <1>3, <1>4, <1>5, <1>6, <1>7
  DEF Next, Calls, Call, SignRaised, Sends, SendRaised, Taken, Unauthorized, UnauthorizedAgain,
      GivenUp, Loads, Unusable, LoadRaised, LoadFailed, JobSecretRaised, Rotates, Batches,
      clientVars, vars

LEMMA PairsAction ==
  ASSUME ClientInv, PairsAreOrdered, [Next]_vars
  PROVE  PairGetsNewer /\ HealedStaysHealed
<1>1. secret.pair \in Nat /\ pair \in Nat /\ bhePair \in Nat
  BY DEF ClientInv, ClientTypeOK
<1>2. pair' = pair \/ pair' = secret.pair
  BY DEF Next, Calls, Call, Signed, SignRaised, Sends, SendRaised, Taken, Unauthorized,
     UnauthorizedAgain, GivenUp, Loads, Loaded, Unusable, LoadRaised, LoadFailed,
     JobSecretRaised, Rotates, RotateSecret, RepairSecret, RotateBHE, Batches, clientVars, vars
<1> QED BY <1>1, <1>2 DEF PairsAreOrdered, PairGetsNewer, HealedStaysHealed

\* The safety half of CredentialsHeal: whatever fails, however reads of the secret
\* and requests fall between the rotations, a client never goes back to an older
\* pair, and once it has the one BHE accepts it keeps it until the next rotation.
THEOREM PairNeverGoesBack ==
  Spec => []PairsAreOrdered /\ [][PairGetsNewer /\ HealedStaysHealed]_vars
<1>1. Spec => []PairsAreOrdered
  BY PairsInit, PairsStep, ClientIsInvariant, PTL DEF Spec
<1>2. ClientInv /\ PairsAreOrdered /\ [Next]_vars => [PairGetsNewer /\ HealedStaysHealed]_vars
  BY PairsAction
<1> QED BY <1>1, <1>2, ClientIsInvariant, PTL DEF Spec

=============================================================================
