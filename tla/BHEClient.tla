----------------------------- MODULE BHEClient -----------------------------
(***************************************************************************)
(* The BloodHound Enterprise client of the scheduler: one request          *)
(* (core/clients/bloodhound.py, BloodHoundEnterprise.request), the token   *)
(* pair it is signed with, and the secret that pair is read from           *)
(* (bhe_credentials.py, by way of SecretRetrieval).  A managed scheduler   *)
(* reads the pair at its start until it can, and once more in a request    *)
(* that BHE answers with 401.                                              *)
(*                                                                         *)
(* BHE and whoever rotates the pair are external.  A body is as long as    *)
(* the chunks of BodyLength; a file is read from where it stands, by the   *)
(* signature and by the sending, of which BHE may take only a part.        *)
(***************************************************************************)
EXTENDS SecretRetrieval

CONSTANTS BodyLength,   \* chunks in a body
          MaxRotations  \* bound: times the pair is rotated

ASSUME ClientAssumption == BodyLength \in Nat \ {0} /\ MaxRotations \in Nat

VARIABLES
  role,     \* "managed" (a scheduler with a credential_refresh), "unmanaged"
            \* (one without), or a "library" that calls get_secrets
  bhePair,  \* the pair BHE accepts, counted from 1
  secret,   \* the secret: [pair, usable]
  pair,     \* self.token_key and self.token_id, 0 before there are any
  pc,       \* "start", "idle", "sign", "send" or "refresh"
  body,     \* the body of the request: [file, start, position]
  attempt,  \* 1, or 2 after a refresh
  sig,      \* the signature: [pair, from], the pair and the content it covers
  \* History.
  taken,    \* the last request BHE carried out: [start, from]
  told      \* what the last failed retrieval said in a log at a normal level

clientVars == <<role, bhePair, secret, pair, pc, body, attempt, sig, taken, told>>
vars == <<clientVars, secretVars>>

Roles == {"managed", "unmanaged", "library"}
Bodies == [file : BOOLEAN, start : 0..BodyLength, position : 0..BodyLength]
NoSig == [pair |-> 0, from |-> 0]

TypeOK ==
  /\ SecretTypeOK
  /\ role \in Roles
  /\ bhePair \in 1..(MaxRotations + 1)
  /\ secret \in [pair : 1..(MaxRotations + 1), usable : BOOLEAN]
  /\ pair \in 0..(MaxRotations + 1)
  /\ pc \in {"start", "idle", "sign", "send", "refresh"}
  /\ body \in Bodies
  /\ attempt \in 1..2
  /\ sig \in [pair : 0..(MaxRotations + 1), from : 0..BodyLength]
  /\ taken \in [start : 0..BodyLength, from : 0..BodyLength]
  /\ told \subseteq {"fixed", "type", "secret id", "region", "explanation"} \cup Payload

Init ==
  /\ SecretInit
  /\ role \in Roles
  /\ bhePair = 1
  /\ secret \in [pair : {1}, usable : BOOLEAN]
  /\ pair = IF role = "managed" THEN 0 ELSE 1
  /\ pc = IF role = "managed" THEN "start" ELSE "idle"
  /\ body = [file |-> FALSE, start |-> 0, position |-> 0]
  /\ attempt = 1
  /\ sig = NoSig
  /\ taken = [start |-> 0, from |-> 0]
  /\ told = {}

---------------------------------------------------------------------------
(* Reading the pair: AWSBHECredentials._load_credentials. *)

Reading == pc \in {"start", "refresh"}

\* What refresh and poll_until_available log: a classified error's message, of
\* other exceptions their type.
Told(e) == IF e = Unexpected THEN {"type"} ELSE Message(e)

\* Mutant: the credentials that were read are not kept.
LoadedUnkept ==
  /\ Reading
  /\ secret.usable
  /\ pair' = IF pc = "start" THEN secret.pair ELSE pair
  /\ pc' = IF pc = "start" THEN "idle" ELSE "sign"
  /\ attempt' = IF pc = "start" THEN attempt ELSE attempt + 1
  /\ UNCHANGED <<role, bhePair, secret, body, sig, taken, told, secretVars>>

\* A document with a valid token_id and a token_key.
Loaded ==
  /\ Reading
  /\ secret.usable
  /\ pair' = secret.pair
  /\ pc' = IF pc = "start" THEN "idle" ELSE "sign"
  /\ attempt' = IF pc = "start" THEN attempt ELSE attempt + 1
  /\ UNCHANGED <<role, bhePair, secret, body, sig, taken, told, secretVars>>

\* A start tries again after a while, a request passes the exception on.
LoadFailed(text) ==
  /\ Reading
  /\ told' = text
  /\ pc' = IF pc = "start" THEN "start" ELSE "idle"
  /\ UNCHANGED <<role, bhePair, secret, pair, body, attempt, sig, taken, secretVars>>

\* InvalidBHECredentialsSecret: not an object, or without a valid pair.
Unusable == ~secret.usable /\ LoadFailed({"fixed"})
LoadRaised == \E e \in Errors \cup {Unexpected} : LoadFailed(Told(e))

\* The secret of a managed job cannot be read (_load_managed_credentials): for
\* AWS only the diagnostics are used (prepare_aws_credentials).
JobSecretRaised ==
  /\ role = "managed"
  /\ pc = "idle"
  /\ \/ \E e \in Errors : told' = Message(e) \/ told' = Diagnostics(e)
     \/ told' = Told(Unexpected)
  /\ UNCHANGED <<role, bhePair, secret, pair, pc, body, attempt, sig, taken, secretVars>>

---------------------------------------------------------------------------
(* A request. *)

\* A client method is called.  Its body is bytes, or a file somebody may have
\* read a part of.
Call(file, start) ==
  /\ pc = "idle"
  /\ role # "library"
  /\ pc' = "sign"
  /\ attempt' = 1
  /\ body' = [file |-> file, start |-> start, position |-> start]
  /\ UNCHANGED <<role, bhePair, secret, pair, sig, taken, told, secretVars>>

\* The signature covers the file from where it stands, and puts it back there.
Signed ==
  /\ pc = "sign"
  /\ sig' = [pair |-> pair, from |-> body.position]
  /\ pc' = "send"
  /\ UNCHANGED <<role, bhePair, secret, pair, body, attempt, taken, told, secretVars>>

\* Reading the file raises, or nothing was sent, or its answer is lost.
GivenUp ==
  /\ pc' = "idle"
  /\ UNCHANGED <<role, bhePair, secret, pair, attempt, sig, told, secretVars>>

\* requests reads a file up to here; bytes have no position.
Position(p) == IF body.file THEN [body EXCEPT !.position = p] ELSE body

SignRaised == pc = "sign" /\ GivenUp /\ UNCHANGED <<body, taken>>

SendRaised ==
  /\ pc = "send"
  /\ \E p \in body.position..BodyLength : body' = Position(p)
  /\ GivenUp
  /\ UNCHANGED taken

\* BHE takes what is signed with its pair and is what the signature covers.
Valid == sig.pair = bhePair /\ sig.from = body.position

\* The request is carried out, and answered or not; another answer than 401 is
\* the caller's.
Taken ==
  /\ pc = "send"
  /\ Valid
  /\ taken' = [start |-> body.start, from |-> body.position]
  /\ body' = Position(BodyLength)
  /\ GivenUp

\* Mutant: the file is not put back.
RewoundNot(p) == Position(p)

\* body.seek(position) before the refresh.
Rewound(p) == [body EXCEPT !.position = body.start]

\* Mutant: every 401 leads to a refresh.
UnauthorizedAlways ==
  /\ pc = "send"
  /\ role = "managed"
  /\ \E p \in body.position..BodyLength : body' = Rewound(p)
  /\ pc' = "refresh"
  /\ UNCHANGED <<role, bhePair, secret, pair, attempt, sig, taken, told, secretVars>>

\* 401: the pair is refreshed, once, and the request is made again.
Unauthorized ==
  /\ pc = "send"
  /\ role = "managed"
  /\ attempt = 1
  /\ \E p \in body.position..BodyLength : body' = Rewound(p)
  /\ pc' = "refresh"
  /\ UNCHANGED <<role, bhePair, secret, pair, attempt, sig, taken, told, secretVars>>

\* 401 for the second time, or for a pair that was configured, is raised.
UnauthorizedAgain ==
  /\ pc = "send"
  /\ role = "unmanaged" \/ attempt = 2
  /\ \E p \in body.position..BodyLength : body' = Position(p)
  /\ GivenUp
  /\ UNCHANGED taken

---------------------------------------------------------------------------
(* The environment: the pair is rotated, in the secret first or at BHE first. *)

RotateSecret ==
  /\ secret.pair = bhePair
  /\ secret.pair <= MaxRotations
  /\ \E usable \in BOOLEAN : secret' = [pair |-> secret.pair + 1, usable |-> usable]
  /\ UNCHANGED <<role, bhePair, pair, pc, body, attempt, sig, taken, told, secretVars>>

RepairSecret ==
  /\ ~secret.usable
  /\ secret' = [secret EXCEPT !.usable = TRUE]
  /\ UNCHANGED <<role, bhePair, pair, pc, body, attempt, sig, taken, told, secretVars>>

RotateBHE ==
  /\ bhePair < secret.pair
  /\ bhePair' = bhePair + 1
  /\ UNCHANGED <<role, secret, pair, pc, body, attempt, sig, taken, told, secretVars>>

Calls == \E file \in BOOLEAN, start \in 0..(BodyLength - 1) :
           (~file => start = 0) /\ Call(file, start)
Sends == SendRaised \/ Taken \/ Unauthorized \/ UnauthorizedAgain
Loads == Loaded \/ Unusable \/ LoadRaised \/ JobSecretRaised
Rotates == RotateSecret \/ RepairSecret \/ RotateBHE

\* No scheduler calls get_secrets.
Batches == role = "library" /\ SecretNext /\ UNCHANGED clientVars

Next == Calls \/ Signed \/ SignRaised \/ Sends \/ Loads \/ Rotates \/ Batches

\* The scheduler polls, so calls are made again and again; a batch ends.  Of the
\* outside: a request whose pair is refused is answered at last, and a usable
\* secret is read at last.
Fairness ==
  /\ SF_vars(Calls) /\ SF_vars(Signed) /\ WF_vars(Sends)
  /\ WF_vars(batches # "idle" /\ Batches)
  /\ SF_vars(~Valid /\ Unauthorized) /\ SF_vars(Loaded)

Spec == Init /\ [][Next]_vars
FairSpec == Spec /\ Fairness

---------------------------------------------------------------------------
(* Properties. *)

\* What BHE has carried out is the whole body the caller passed, from where the
\* file stood then, although the signature and a refused first sending have
\* read it before.
TakenIsWhole == taken.from = taken.start

\* What the scheduler logs of a failed retrieval repeats nothing that was sent
\* or received ("payload-free retrieval exceptions").
ToldIsSafe == told \cap Payload = {}

\* A scheduler that goes on making requests comes to use the pair that BHE
\* accepts, once the secret keeps it: whatever failed in between.
CredentialsHeal ==
  <>[](role = "managed" /\ secret.usable /\ secret.pair = bhePair) => <>[](pair = bhePair)

=============================================================================
