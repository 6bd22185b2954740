------------------------ MODULE ConfigUpload_proofs ------------------------
(***************************************************************************)
(* Proofs about ConfigUpload, for any names and containers, any size of a  *)
(* batch and of a load, any number of attempts and of other users' entries *)
(* and any limit of one request.  The inductive invariant follows the item *)
(* that is processed: what is done of the load, what the batch has read,   *)
(* and what is still to be made public.                                    *)
(***************************************************************************)
EXTENDS ConfigUpload, FiniteSetTheorems, WellFoundedInduction, TLAPS

\* The last item whose entry is written.
Past == CASE pc = "items"  -> item - 1
          [] pc = "permit" -> item
          [] OTHER         -> sent

InBatch == pc \in {"items", "permit"}
BatchContainers == tags \cap {items[i].container : i \in (sent + 1)..BatchEnd}

TypeInv ==
  /\ config \in Configs
  /\ items \in Seq(Keys) /\ Len(items) <= MaxItems
  /\ tags \subseteq Containers
  /\ entries \in Seq(Entries)
  /\ pc \in {"load", "items", "permit", "returned", "failed"}
  /\ sent \in 0..Len(items)
  /\ created \in 0..Len(entries)
  /\ attempt \in 1..MaxAttempts
  /\ own \subseteq DOMAIN entries
  /\ denied \subseteq own
  /\ ingested \subseteq DOMAIN items

\* Where a load stands in its batches.
PlaceInv ==
  /\ InBatch => /\ config.dest # "ingest" /\ sent < Len(items)
                /\ item \in (sent + 1)..(BatchEnd + 1)
  /\ ~InBatch => item = sent
  /\ pc = "permit" => /\ item <= BatchEnd
                      /\ created \in DOMAIN entries /\ entries[created].key = items[item]
  /\ pc = "returned" => sent = Len(items)
  /\ sent # Len(items) => sent = (sent \div BatchSize) * BatchSize

\* The choices of Init.
ConfigInv ==
  /\ config.public => config.dest = "saved_searches"
  /\ config.dest = "saved_searches" =>
       \E c \in Containers : tags = {c} /\ \A i \in DOMAIN items : items[i].container = c

\* The request for the entries of its container does not return entry e.
Hidden(e) == e \notin Visible(entries[e].key.container)

\* What was read still has the keys it was read under.  An entry of this load
\* was read, or made in this attempt for an item before the one that is
\* processed, or is out of this batch's reach.
ReadInv ==
  /\ ~InBatch => existing = NoneRead
  /\ DOMAIN existing \subseteq Keys
  /\ \A k \in DOMAIN existing : existing[k] \in DOMAIN entries /\ entries[existing[k]].key = k
  /\ InBatch =>
       \A e \in own :
         \/ entries[e].key \in DOMAIN existing
         \/ Hidden(e)
         \/ \E j \in (sent + 1)..Past : items[j] = entries[e].key
         \/ entries[e].key.container \notin BatchContainers

\* Item i has an entry, with its content or that of a later item of its key.
Arrived(i) ==
  \E e \in DOMAIN entries :
    /\ entries[e].key = items[i]
    /\ config.strategy = "overwrite" =>
         \E j \in i..Len(items) : items[j] = items[i] /\ entries[e].content = j

ArrivedInv ==
  IF config.dest = "ingest" THEN 1..sent \subseteq ingested
  ELSE \A i \in 1..Past : items[i].container \in tags => Arrived(i)

\* An entry of this load is public, or shares its key, or is just being made
\* public, or its permissions were denied: then it stays so under skip, and is
\* read and written again for an item to come under overwrite.
Shared(e) == \E f \in DOMAIN entries \ {e} : entries[f].key = entries[e].key
ToBePermitted(e) ==
  \E i \in (Past + 1)..Len(items) :
    items[i] = entries[e].key /\ (InBatch => items[i] \in DOMAIN existing /\ existing[items[i]] = e)

PublicInv ==
  config.public /\ pc # "failed" =>
    \A e \in own : \/ entries[e].public
                   \/ Shared(e)
                   \/ pc = "permit" /\ created = e
                   \/ config.strategy = "skip" /\ e \in denied
                   \/ config.strategy = "overwrite" /\ ToBePermitted(e)

UploadInv == /\ TypeInv /\ PlaceInv /\ ConfigInv /\ ReadInv
             /\ CreatedOnce /\ ArrivedInv /\ PublicInv

---------------------------------------------------------------------------
(* Entries: none is removed, and none changes its key. *)

Keeps(es) ==
  /\ es \in Seq(Entries)
  /\ Len(entries) <= Len(es)
  /\ \A e \in DOMAIN entries : /\ e \in DOMAIN es
                               /\ es[e].key = entries[e].key
                               /\ entries[e].public => es[e].public

\* Nothing is written but the item in hand, in an entry of its key.
Writes(es) ==
  \A e \in DOMAIN entries :
    \/ es[e].content = entries[e].content
    \/ item \in DOMAIN items /\ items[item] = entries[e].key /\ es[e].content = item

LEMMA NoneChanged ==
  ASSUME TypeInv
  PROVE  Keeps(entries) /\ Writes(entries)
BY DEF TypeInv, Keeps, Writes

LEMMA OneAppended ==
  ASSUME TypeInv, NEW r \in Entries
  PROVE  /\ Keeps(Append(entries, r)) /\ Writes(Append(entries, r))
         /\ Len(Append(entries, r)) = Len(entries) + 1
         /\ Append(entries, r)[Len(entries) + 1] = r
         /\ DOMAIN Append(entries, r) = 1..(Len(entries) + 1)
         /\ \A e \in DOMAIN entries : Append(entries, r)[e] = entries[e]
BY DEF TypeInv, Keeps, Writes

LEMMA OneReplaced ==
  ASSUME TypeInv, NEW id \in DOMAIN entries, NEW r \in Entries
  PROVE  LET es == [entries EXCEPT ![id] = r]
         IN /\ es \in Seq(Entries) /\ Len(es) = Len(entries) /\ DOMAIN es = DOMAIN entries
            /\ es[id] = r
            /\ \A e \in DOMAIN entries : e # id => es[e] = entries[e]
BY DEF TypeInv

LEMMA OneWritten ==
  ASSUME TypeInv, NEW id \in DOMAIN entries, item \in DOMAIN items, items[item] = entries[id].key
  PROVE  /\ Keeps(Written(id)) /\ Writes(Written(id))
         /\ Len(Written(id)) = Len(entries) /\ DOMAIN Written(id) = DOMAIN entries
         /\ Written(id)[id].content = item
<1> DEFINE r == [entries[id] EXCEPT !.content = item]
           es == [entries EXCEPT ![id] = r]
<1>1. item \in 0..MaxItems
  BY UploadAssumption DEF TypeInv
<1>2. entries[id] \in Entries
  BY DEF TypeInv
<1>3. r \in Entries
  BY <1>1, <1>2 DEF Entries
<1>4. r.key = entries[id].key /\ r.public = entries[id].public /\ r.content = item
  BY <1>2 DEF Entries
<1>5. Written(id) = es
  BY DEF Written
<1> HIDE DEF r
<1>6. /\ es \in Seq(Entries) /\ Len(es) = Len(entries) /\ DOMAIN es = DOMAIN entries
      /\ es[id] = r
      /\ \A e \in DOMAIN entries : e # id => es[e] = entries[e]
  BY <1>3, OneReplaced
<1>7. Len(entries) \in Nat
  BY DEF TypeInv
<1> HIDE DEF es
<1>8. Keeps(es) /\ Writes(es) /\ es[id].content = item
  BY <1>4, <1>6, <1>7 DEF Keeps, Writes
<1> QED BY <1>5, <1>6, <1>8

LEMMA OnePermitted ==
  ASSUME TypeInv, created \in DOMAIN entries
  PROVE  /\ Keeps(Permitted) /\ Writes(Permitted)
         /\ Len(Permitted) = Len(entries) /\ DOMAIN Permitted = DOMAIN entries
         /\ Permitted[created].public = TRUE
<1> DEFINE r == [entries[created] EXCEPT !.public = TRUE]
           es == [entries EXCEPT ![created] = r]
<1>2. entries[created] \in Entries
  BY DEF TypeInv
<1>3. r \in Entries
  BY <1>2 DEF Entries
<1>4. r.key = entries[created].key /\ r.public = TRUE /\ r.content = entries[created].content
  BY <1>2 DEF Entries
<1>5. Permitted = es
  BY DEF Permitted
<1> HIDE DEF r
<1>6. /\ es \in Seq(Entries) /\ Len(es) = Len(entries) /\ DOMAIN es = DOMAIN entries
      /\ es[created] = r
      /\ \A e \in DOMAIN entries : e # created => es[e] = entries[e]
  BY <1>3, OneReplaced
<1>7. Len(entries) \in Nat
  BY DEF TypeInv
<1> HIDE DEF es
<1>8. Keeps(es) /\ Writes(es) /\ es[created].public = TRUE
  BY <1>4, <1>6, <1>7 DEF Keeps, Writes
<1> QED BY <1>5, <1>6, <1>8

Grown == TypeInv /\ Keeps(entries') /\ UNCHANGED <<config, items, tags>>

\* What comes later does not change which entries a request returns of those
\* that are there.
LEMMA HiddenStays ==
  ASSUME Grown, NEW e \in DOMAIN entries, Hidden(e)
  PROVE  Hidden(e)'
<1> DEFINE c == entries[e].key.container
           Before == {f \in 1..e : entries[f].key.container = c}
<1>1. /\ e \in 1..Len(entries) /\ Len(entries) \in Nat /\ DOMAIN entries = 1..Len(entries)
      /\ \A f \in DOMAIN entries : entries'[f].key = entries[f].key
      /\ config' = config
  BY DEF Grown, TypeInv, Keeps
<1>2. config.dest = "privilege_zones" /\ ~(Cardinality(Before) <= Limit)
  BY DEF Hidden, Visible
<1>3. \A f \in 1..e : entries'[f].key = entries[f].key
  BY <1>1
<1>4. entries'[e].key.container = c
  BY <1>1
<1>5. Before = {f \in 1..e : entries'[f].key.container = c}
  BY <1>3
<1>6. e \notin {x \in DOMAIN entries' :
                 /\ entries'[x].key.container = c
                 /\ config'.dest = "privilege_zones" =>
                      Cardinality({f \in 1..x : entries'[f].key.container = c}) <= Limit}
  BY <1>1, <1>2, <1>5
<1> QED BY ONLY <1>4, <1>6 DEF Hidden, Visible

LEMMA SharedStays ==
  ASSUME Grown, NEW e \in DOMAIN entries, Shared(e)
  PROVE  Shared(e)'
<1>1. PICK f \in DOMAIN entries \ {e} : entries[f].key = entries[e].key
  BY DEF Shared
<1>2. f \in DOMAIN entries' \ {e} /\ entries'[f].key = entries'[e].key
  BY <1>1 DEF Grown, Keeps
<1> QED BY <1>2 DEF Shared

LEMMA ArrivedStays ==
  ASSUME Grown, Writes(entries'), NEW i \in DOMAIN items, i <= item, Arrived(i)
  PROVE  Arrived(i)'
<1>1. PICK e \in DOMAIN entries : /\ entries[e].key = items[i]
                                  /\ config.strategy = "overwrite" =>
                                       \E j \in i..Len(items) : items[j] = items[i]
                                                                /\ entries[e].content = j
  BY DEF Arrived
<1>2. e \in DOMAIN entries' /\ entries'[e].key = items'[i]
  BY <1>1 DEF Grown, Keeps
<1>3. ASSUME config'.strategy = "overwrite"
      PROVE  \E j \in i..Len(items') : items'[j] = items'[i] /\ entries'[e].content = j
  <2>1. CASE entries'[e].content = entries[e].content
    BY <1>1, <1>3, <2>1 DEF Grown
  <2>2. CASE item \in DOMAIN items /\ items[item] = entries[e].key /\ entries'[e].content = item
    <3>1. item \in i..Len(items)
      BY <2>2 DEF Grown, TypeInv
    <3> QED BY <1>1, <2>2, <3>1 DEF Grown
  <2> QED BY <2>1, <2>2, <1>1 DEF Writes
<1> QED BY <1>2, <1>3 DEF Arrived

---------------------------------------------------------------------------
(* One entry for a key. *)

TwiceInBatch(k) == \E i, j \in DOMAIN items : i # j /\ SameBatch(i, j) /\ items[i] = items[j]
                                              /\ items[i] = k
OnceOrReason == \A e, f \in own : e < f /\ entries[e].key = entries[f].key =>
                                    TwiceInBatch(entries[e].key) \/ Hidden(e)

LEMMA OnceIsOnceOrReason ==
  (CreatedOnce <=> OnceOrReason) /\ (CreatedOnce' <=> OnceOrReason')
BY DEF CreatedOnce, OnceOrReason, TwiceInBatch, Hidden, SameBatch

LEMMA TwiceStays ==
  ASSUME UNCHANGED items, NEW k, TwiceInBatch(k)
  PROVE  TwiceInBatch(k)'
BY DEF TwiceInBatch, SameBatch

LEMMA OnceStays ==
  ASSUME Grown, CreatedOnce, UNCHANGED own
  PROVE  CreatedOnce'
<1>1. ASSUME NEW e \in own', NEW f \in own', e < f, entries'[e].key = entries'[f].key
      PROVE  TwiceInBatch(entries[e].key)' \/ Hidden(e)'
  <2>1. e \in DOMAIN entries /\ f \in DOMAIN entries /\ e \in own /\ f \in own
    BY DEF Grown, TypeInv
  <2>2. entries[e].key = entries[f].key /\ entries'[e].key = entries[e].key
    BY <1>1, <2>1 DEF Grown, Keeps
  <2>3. TwiceInBatch(entries[e].key) \/ Hidden(e)
    BY <1>1, <2>1, <2>2, OnceIsOnceOrReason DEF OnceOrReason
  <2>4. TwiceInBatch(entries[e].key) => TwiceInBatch(entries[e].key)'
    <3>1. UNCHANGED items
      BY DEF Grown
    <3>2. \A k : TwiceInBatch(k) =>
            \E i, j \in DOMAIN items' : i # j /\ SameBatch(i, j) /\ items'[i] = items'[j] /\ items'[i] = k
      BY <3>1 DEF TwiceInBatch
    <3> QED BY <2>2, <3>2 DEF TwiceInBatch, SameBatch
  <2> QED BY <2>1, <2>3, <2>4, HiddenStays
<1>2. OnceOrReason'
  BY <1>1 DEF OnceOrReason
<1> QED BY <1>2, OnceIsOnceOrReason

\* Where the items of a batch are in the whole load.
LEMMA BatchHasPlace ==
  ASSUME TypeInv, PlaceInv
  PROVE  /\ BatchEnd \in sent..Len(items) /\ BatchEnd <= sent + BatchSize
         /\ sent # Len(items) => BatchEnd \in (sent + 1)..Len(items)
         /\ BatchEnd # Len(items) => BatchEnd = (BatchEnd \div BatchSize) * BatchSize
<1>1. Len(items) \in Nat /\ sent \in Nat /\ sent <= Len(items) /\ BatchSize \in Nat \ {0}
  BY UploadAssumption DEF TypeInv
<1>2. /\ BatchEnd \in sent..Len(items) /\ BatchEnd <= sent + BatchSize
      /\ sent # Len(items) => BatchEnd \in (sent + 1)..Len(items)
  BY <1>1 DEF BatchEnd
<1>3. ASSUME BatchEnd # Len(items)
      PROVE  BatchEnd = (BatchEnd \div BatchSize) * BatchSize
  <2>1. BatchEnd = sent + BatchSize /\ sent # Len(items)
    BY <1>1, <1>3 DEF BatchEnd
  <2> DEFINE q == sent \div BatchSize
  <2>2. q \in Nat
    BY <1>1
  <2>3. sent = q * BatchSize
    BY <2>1 DEF PlaceInv
  <2>4. sent + BatchSize = (q + 1) * BatchSize
    BY <1>1, <2>2, <2>3
  <2> HIDE DEF q
  <2>5. ((q + 1) * BatchSize) \div BatchSize = q + 1
    BY <1>1, <2>2
  <2> QED BY <2>1, <2>4, <2>5
<1> QED BY <1>2, <1>3

LEMMA ItemsOfABatch ==
  ASSUME TypeInv, PlaceInv, sent < Len(items),
         NEW i \in (sent + 1)..BatchEnd, NEW j \in (sent + 1)..BatchEnd
  PROVE  SameBatch(i, j)
<1> DEFINE q == sent \div BatchSize
<1>1. Len(items) \in Nat /\ sent \in Nat /\ BatchSize \in Nat \ {0}
  BY UploadAssumption DEF TypeInv
<1>2. q \in Nat /\ sent = q * BatchSize
  BY <1>1 DEF PlaceInv
<1>3. BatchEnd \in Nat /\ BatchEnd <= sent + BatchSize
  BY <1>1, BatchHasPlace
<1> HIDE DEF q
<1>4. \A n \in 0..(BatchSize - 1) : (q * BatchSize + n) \div BatchSize = q
  BY <1>1, <1>2
<1>5. i - 1 - sent \in 0..(BatchSize - 1) /\ j - 1 - sent \in 0..(BatchSize - 1)
  BY <1>1, <1>3
<1>6. i - 1 = q * BatchSize + (i - 1 - sent) /\ j - 1 = q * BatchSize + (j - 1 - sent)
  BY <1>1, <1>2, <1>3
<1> QED BY <1>4, <1>5, <1>6 DEF SameBatch

\* The item in hand, in a batch.
LEMMA ItemInHand ==
  ASSUME TypeInv, PlaceInv, Processing
  PROVE  /\ sent < Len(items) /\ item \in (sent + 1)..BatchEnd /\ item \in (sent + 1)..Len(items)
         /\ item \in DOMAIN items /\ Key \in Keys /\ InBatch
         /\ Past = item - 1 /\ Past >= sent /\ config.dest # "ingest"
         /\ [key |-> Key, content |-> item, public |-> FALSE] \in Entries
<1>1. /\ Len(items) \in Nat /\ sent \in Nat /\ DOMAIN items = 1..Len(items)
      /\ BatchEnd \in sent..Len(items)
  BY BatchHasPlace DEF TypeInv
<1>2. InBatch /\ Past = item - 1
  BY DEF Processing, InBatch, Past
<1>3. config.dest # "ingest" /\ sent < Len(items) /\ item \in (sent + 1)..(BatchEnd + 1)
  BY <1>2 DEF PlaceInv
<1>4. item <= BatchEnd
  BY DEF Processing
<1>5. item \in (sent + 1)..BatchEnd /\ item \in (sent + 1)..Len(items) /\ item \in DOMAIN items
      /\ item - 1 >= sent
  BY <1>1, <1>3, <1>4
<1>6. Key \in Keys
  BY <1>5 DEF Key, TypeInv
<1>7. item \in 0..MaxItems
  BY <1>1, <1>5, UploadAssumption DEF TypeInv
<1>8. [key |-> Key, content |-> item, public |-> FALSE] \in Entries
  BY <1>6, <1>7 DEF Entries
<1> QED BY <1>2, <1>3, <1>6, <1>5, <1>8

LEMMA NewIsAppended ==
  ASSUME TypeInv, PlaceInv, Processing
  PROVE  /\ Keeps(New) /\ Writes(New) /\ Len(New) = Len(entries) + 1
         /\ Len(New) \in DOMAIN New /\ Len(New) \notin DOMAIN entries
         /\ New[Len(New)].key = items[item] /\ New[Len(New)].content = item
         /\ \A e \in DOMAIN entries : e \in DOMAIN New /\ New[e] = entries[e]
<1> DEFINE r == [key |-> Key, content |-> item, public |-> FALSE]
<1>1. r \in Entries
  BY ItemInHand
<1>2. r.key = items[item] /\ r.content = item
  BY DEF Key
<1>3. New = Append(entries, r)
  BY DEF New
<1> HIDE DEF r
<1>4. /\ Keeps(New) /\ Writes(New) /\ Len(New) = Len(entries) + 1
      /\ New[Len(entries) + 1] = r
      /\ DOMAIN New = 1..(Len(entries) + 1)
      /\ \A e \in DOMAIN entries : New[e] = entries[e]
  BY <1>1, <1>3, OneAppended
<1>5. Len(entries) \in Nat /\ DOMAIN entries = 1..Len(entries)
  BY DEF TypeInv
<1> QED BY <1>2, <1>4, <1>5

\* A key that is not among what was read is new, or comes twice in this batch,
\* or is out of the reach of one request.
LEMMA OnceAfterCreate ==
  ASSUME TypeInv, PlaceInv, ReadInv, CreatedOnce, Processing, HasContainer, ~Exists,
         UNCHANGED <<config, items, tags>>, entries' = New, own' = own \cup {Len(New)}
  PROVE  CreatedOnce'
<1>1. Grown
  BY NewIsAppended DEF Grown
<1>2. /\ sent < Len(items) /\ item \in (sent + 1)..BatchEnd /\ Past = item - 1 /\ InBatch
      /\ item \in DOMAIN items
  BY ItemInHand
<1>3. ASSUME NEW e \in own, entries[e].key = Key
      PROVE  TwiceInBatch(Key) \/ Hidden(e)'
  <2>1. Key \notin DOMAIN existing
    BY DEF Exists
  <2>2. Key.container \in BatchContainers
    BY <1>2 DEF BatchContainers, HasContainer, Key
  <2>3. CASE Hidden(e)
    <3>1. e \in DOMAIN entries
      BY DEF TypeInv
    <3> QED BY <1>1, <2>3, <3>1, HiddenStays
  <2>4. CASE \E j \in (sent + 1)..Past : items[j] = entries[e].key
    <3>1. PICK j \in (sent + 1)..Past : items[j] = entries[e].key
      BY <2>4
    <3>2. sent \in Nat /\ Len(items) \in Nat /\ BatchEnd \in sent..Len(items)
          /\ DOMAIN items = 1..Len(items)
      BY BatchHasPlace DEF TypeInv
    <3>3. j \in (sent + 1)..BatchEnd /\ j # item /\ j \in DOMAIN items
      BY <1>2, <3>1, <3>2
    <3>4. SameBatch(j, item)
      BY <1>2, <3>3, ItemsOfABatch
    <3>5. TwiceInBatch(Key)
      BY <1>2, <1>3, <3>1, <3>3, <3>4 DEF TwiceInBatch, Key
    <3> QED BY <3>5
  <2> QED BY <1>2, <1>3, <2>1, <2>2, <2>3, <2>4 DEF ReadInv

<1>4. ASSUME NEW e \in own', NEW f \in own', e < f, entries'[e].key = entries'[f].key
      PROVE  TwiceInBatch(entries'[e].key) \/ Hidden(e)'
  <2>1. \A g \in own : g \in DOMAIN entries /\ entries'[g].key = entries[g].key
    BY NewIsAppended DEF TypeInv
  <2>2. entries'[Len(New)].key = Key
    BY NewIsAppended DEF Key
  <2>3. CASE f \in own
    <3>1. e \in own
      <4>1. Len(entries) \in Nat /\ f \in 1..Len(entries) /\ Len(New) = Len(entries) + 1
        BY <2>1, <2>3, NewIsAppended DEF TypeInv
      <4> QED BY <1>4, <4>1
    <3>2. TwiceInBatch(entries[e].key) \/ Hidden(e)
      BY <1>4, <2>1, <2>3, <3>1, OnceIsOnceOrReason DEF OnceOrReason
    <3> QED BY <1>1, <2>1, <3>1, <3>2, HiddenStays
  <2>4. CASE f = Len(New)
    <3>1. e \in own
      <4>1. Len(New) \in Nat
        BY NewIsAppended DEF TypeInv
      <4> QED BY <1>4, <2>4, <4>1
    <3> QED BY <1>3, <1>4, <2>1, <2>2, <2>4, <3>1
  <2> QED BY <2>3, <2>4
<1>5. ASSUME NEW k, TwiceInBatch(k)
      PROVE  \E i, j \in DOMAIN items' : i # j /\ SameBatch(i, j) /\ items'[i] = items'[j]
                                         /\ items'[i] = k
  BY <1>5 DEF TwiceInBatch
<1>6. \A e, f \in own' : e < f /\ entries'[e].key = entries'[f].key =>
        TwiceInBatch(entries[e].key)' \/ Hidden(e)'
  BY <1>4, <1>5 DEF TwiceInBatch, SameBatch
<1> QED BY <1>6, OnceIsOnceOrReason DEF OnceOrReason

---------------------------------------------------------------------------
(* A request that raises. *)

LEMMA RaisedKeepsInv ==
  ASSUME UploadInv, NEW es, NEW own2, NEW denied2, Raised(es, own2, denied2),
         Keeps(es), Writes(es), pc \in {"load", "items", "permit"},
         own \subseteq own2, own2 \subseteq DOMAIN es,
         denied \subseteq denied2, denied2 \subseteq own2, CreatedOnce',
         \A e \in own2 \ own : e \in denied2 /\ item \in (sent + 1)..Len(items)
                               /\ es[e].key = items[item],
         pc = "permit" /\ created \in own => es[created].public \/ created \in denied2
  PROVE  UploadInv'
<1> USE DEF UploadInv
<1>1. Grown /\ Writes(entries')
  BY DEF Grown, Raised
<1>2. /\ pc' \in {"load", "failed"} /\ ~InBatch' /\ Past' = sent /\ sent' = sent /\ item' = sent
      /\ existing' = NoneRead /\ entries' = es /\ own' = own2 /\ denied' = denied2 /\ created' = 0
      /\ config' = config /\ items' = items /\ tags' = tags /\ ingested' = ingested
  BY DEF Raised, InBatch, Past
<1>3. sent \in Nat /\ Len(items) \in Nat /\ sent <= Len(items) /\ DOMAIN items = 1..Len(items)
  BY DEF TypeInv
<1>4. Past \in Nat /\ sent <= Past /\ sent <= item /\ item \in Nat
      /\ (pc = "permit" => item \in (sent + 1)..Len(items) /\ item = Past)
  BY <1>3, BatchHasPlace DEF PlaceInv, Past, InBatch
<1>5. TypeInv'
  <2>1. attempt' \in 1..MaxAttempts
    BY UploadAssumption DEF TypeInv, Raised
  <2>2. entries' \in Seq(Entries) /\ 0 \in 0..Len(entries')
    BY <1>2 DEF Keeps
  <2> QED BY <1>2, <2>1, <2>2 DEF TypeInv
<1>6. PlaceInv'
  BY <1>2 DEF PlaceInv, InBatch
<1>7. ConfigInv'
  BY <1>2 DEF ConfigInv
<1>8. ReadInv'
  BY <1>2 DEF ReadInv, NoneRead
<1>9. ArrivedInv'
  <2>1. CASE config.dest = "ingest"
    BY <1>2, <2>1 DEF ArrivedInv
  <2>2. CASE config.dest # "ingest"
    <3>1. ASSUME NEW i \in 1..sent, items[i].container \in tags
          PROVE  Arrived(i)'
      <4>1. i \in 1..Past /\ i \in DOMAIN items /\ i <= item
        BY <1>3, <1>4
      <4>2. Arrived(i)
        BY <2>2, <3>1, <4>1 DEF ArrivedInv
      <4> QED BY <1>1, <4>1, <4>2, ArrivedStays
    <3> QED BY <1>2, <2>2, <3>1 DEF ArrivedInv
  <2> QED BY <2>1, <2>2
<1>10. PublicInv'
  <2> SUFFICES ASSUME config.public, pc' # "failed", NEW e \in own2
               PROVE  \/ es[e].public
                      \/ Shared(e)'
                      \/ config.strategy = "skip" /\ e \in denied2
                      \/ config.strategy = "overwrite" /\ ToBePermitted(e)'
    BY <1>2 DEF PublicInv
  <2>1. config.strategy \in {"skip", "overwrite"}
    BY DEF TypeInv, Configs
  <2>2. ASSUME NEW i \in (sent + 1)..Len(items), items[i] = es[e].key
        PROVE  ToBePermitted(e)'
    BY <1>2, <1>3, <2>2 DEF ToBePermitted
  <2>3. CASE e \notin own
    BY <2>1, <2>2, <2>3
  <2>4. CASE e \in own
    <3>1. e \in DOMAIN entries /\ es[e].key = entries[e].key /\ (entries[e].public => es[e].public)
      BY <2>4 DEF Keeps, TypeInv
    <3>2. CASE entries[e].public
      BY <3>1, <3>2
    <3>3. CASE Shared(e)
      BY <1>1, <3>1, <3>3, SharedStays
    <3>4. CASE pc = "permit" /\ created = e
      <4>1. items[item] = es[e].key
        BY <3>1, <3>4 DEF PlaceInv
      <4> QED BY <1>4, <2>1, <2>2, <2>4, <3>4, <4>1
    <3>5. CASE config.strategy = "skip" /\ e \in denied
      BY <3>5
    <3>6. CASE config.strategy = "overwrite" /\ ToBePermitted(e)
      <4>1. PICK i \in (Past + 1)..Len(items) : items[i] = entries[e].key
        BY <3>6 DEF ToBePermitted
      <4>2. i \in (sent + 1)..Len(items)
        BY <1>3, <1>4
      <4> QED BY <2>2, <3>1, <3>6, <4>1, <4>2
    <3> QED BY <2>4, <3>2, <3>3, <3>4, <3>5, <3>6 DEF PublicInv
  <2> QED BY <2>3, <2>4
<1> QED BY <1>5, <1>6, <1>7, <1>8, <1>9, <1>10

---------------------------------------------------------------------------
(* What a batch reads. *)

\* A bounded set of naturals has a last one.
LEMMA LastExists ==
  ASSUME NEW n \in Nat, NEW S \in SUBSET (0..n), S # {}
  PROVE  \E e \in S : \A f \in S : f <= e
<1> DEFINE Less == {ss \in Nat \X Nat : ss[1] < ss[2]}
           T == {n - x : x \in S}
<1>1. IsWellFoundedOn(Less, Nat)
  BY NatLessThanWellFounded DEF OpToRel
<1>2. T \subseteq Nat /\ T # {}
  <2>1. \A x \in S : n - x \in Nat
    OBVIOUS
  <2>2. PICK x \in S : TRUE
    OBVIOUS
  <2>3. n - x \in T
    OBVIOUS
  <2> QED BY <2>1, <2>3
<1>3. PICK t \in T : \A u \in T : <<u, t>> \notin Less
  BY <1>1, <1>2, WFMin
<1>4. PICK e \in S : t = n - e
  OBVIOUS
<1>5. ASSUME NEW f \in S
      PROVE  f <= e
  <2>1. n - f \in T /\ n - f \in Nat /\ n - e \in Nat
    BY <1>2, <1>4
  <2>2. ~(n - f < n - e)
    BY <1>3, <1>4, <2>1
  <2> QED BY <2>2
<1> QED BY <1>4, <1>5

Seen == UNION {Visible(c) : c \in BatchContainers}

LEMMA SeenIsVisible ==
  ASSUME TypeInv
  PROVE  /\ Seen \subseteq DOMAIN entries
         /\ \A e \in DOMAIN entries :
              entries[e].key.container \in BatchContainers =>
                e \in Seen \/ (config.dest = "privilege_zones" /\ Hidden(e))
<1>1. Seen \subseteq DOMAIN entries
  BY DEF Seen, Visible
<1>2. ASSUME NEW e \in DOMAIN entries, entries[e].key.container \in BatchContainers, e \notin Seen
      PROVE  config.dest = "privilege_zones" /\ Hidden(e)
  <2>1. e \notin Visible(entries[e].key.container)
    BY <1>2 DEF Seen
  <2>2. config.dest = "privilege_zones"
    BY <2>1 DEF Visible
  <2> QED BY <2>1, <2>2 DEF Hidden
<1> QED BY <1>1, <1>2

LEMMA WhatIsRead ==
  ASSUME TypeInv, PlaceInv, ReadExisting
  PROVE  /\ DOMAIN existing' = {entries[e].key : e \in Seen}
         /\ \A k \in DOMAIN existing' : existing'[k] \in Seen /\ entries[existing'[k]].key = k
<1> DEFINE keys == {entries[e].key : e \in Seen}
           last(k) == CHOOSE e \in Seen : entries[e].key = k
                                          /\ \A f \in Seen : entries[f].key = k => f <= e
<1>1. existing' = [k \in keys |-> last(k)]
  BY DEF ReadExisting, Seen, BatchContainers
<1>2. ASSUME NEW k \in keys
      PROVE  last(k) \in Seen /\ entries[last(k)].key = k
  <2> DEFINE S == {e \in Seen : entries[e].key = k}
  <2>1. DOMAIN entries = 1..Len(entries) /\ Len(entries) \in Nat
    BY DEF TypeInv
  <2>2. S \subseteq 0..Len(entries)
    BY <2>1, SeenIsVisible
  <2>3. S # {}
    <3>1. PICK e \in Seen : entries[e].key = k
      BY <1>2
    <3>2. e \in S
      BY <3>1
    <3> QED BY <3>2
  <2>4. PICK e \in S : \A f \in S : f <= e
    BY <2>1, <2>2, <2>3, LastExists
  <2>5. e \in Seen /\ entries[e].key = k /\ \A f \in Seen : entries[f].key = k => f <= e
    BY <2>4
  <2> QED BY <2>5
<1> QED BY <1>1, <1>2

---------------------------------------------------------------------------
(* Every step keeps the invariant. *)

LEMMA ReadExistingKeepsInv ==
  ASSUME UploadInv, ReadExisting
  PROVE  UploadInv'
<1> USE DEF UploadInv
<1>1. /\ InBatch' /\ ~InBatch /\ Past' = sent /\ Past = sent /\ pc' = "items" /\ pc = "load"
      /\ sent < Len(items) /\ config.dest # "ingest" /\ item' = sent + 1
      /\ UNCHANGED <<config, items, tags, entries, sent, created, attempt, own, denied, ingested>>
  <2>1. sent \in Nat
    BY DEF TypeInv
  <2> QED BY <2>1 DEF ReadExisting, InBatch, Past
<1>2. Grown
  BY <1>1, NoneChanged DEF Grown
<1>3. TypeInv'
  BY <1>1 DEF TypeInv
<1>4. BatchEnd' = BatchEnd /\ BatchContainers' = BatchContainers
  BY <1>1 DEF BatchEnd, BatchContainers
<1>5. sent \in Nat /\ Len(items) \in Nat /\ BatchEnd \in (sent + 1)..Len(items)
      /\ DOMAIN items = 1..Len(items)
  BY <1>1, BatchHasPlace DEF TypeInv
<1>6. PlaceInv'
  <2>1. item' \in (sent + 1)..(BatchEnd + 1)
    BY <1>1, <1>5
  <2>2. sent' # Len(items') => sent' = (sent' \div BatchSize) * BatchSize
    BY <1>1 DEF PlaceInv
  <2> QED BY <1>1, <1>4, <2>1, <2>2 DEF PlaceInv
<1>7. ConfigInv'
  BY <1>1 DEF ConfigInv
<1>8. ReadInv'
  <2>1. DOMAIN existing' \subseteq Keys
    <3>1. \A e \in DOMAIN entries : entries[e].key \in Keys
      <4>1. \A e \in DOMAIN entries : entries[e] \in Entries
        BY DEF TypeInv
      <4> QED BY <4>1 DEF Entries
    <3>2. Seen \subseteq DOMAIN entries
      BY SeenIsVisible
    <3>3. DOMAIN existing' = {entries[e].key : e \in Seen}
      BY WhatIsRead
    <3> QED BY <3>1, <3>2, <3>3
  <2>2. \A k \in DOMAIN existing' : existing'[k] \in DOMAIN entries /\ entries[existing'[k]].key = k
    BY WhatIsRead, SeenIsVisible
  <2>3. ASSUME NEW e \in own
        PROVE  \/ entries[e].key \in DOMAIN existing' \/ Hidden(e)'
               \/ entries[e].key.container \notin BatchContainers'
    <3>1. e \in DOMAIN entries
      BY DEF TypeInv
    <3>2. e \in Seen => entries[e].key \in DOMAIN existing'
      BY WhatIsRead
    <3>3. entries[e].key.container \in BatchContainers => e \in Seen \/ Hidden(e)
      BY <3>1, SeenIsVisible
    <3> QED BY <3>1, <3>2, <3>3, <1>2, <1>4, HiddenStays
  <2> QED BY <1>1, <2>1, <2>2, <2>3 DEF ReadInv
<1>9. CreatedOnce'
  BY <1>1, <1>2, OnceStays
<1>10. ArrivedInv'
  BY <1>1 DEF ArrivedInv, Arrived
<1>11. PublicInv'
  <2> SUFFICES ASSUME config.public, NEW e \in own
               PROVE  \/ entries[e].public \/ Shared(e)
                      \/ config.strategy = "skip" /\ e \in denied
                      \/ config.strategy = "overwrite" /\ ToBePermitted(e)'
    BY <1>1 DEF PublicInv, Shared
  <2>1. e \in DOMAIN entries
    BY DEF TypeInv
  <2>2. CASE config.strategy = "overwrite" /\ ToBePermitted(e)
    <3>1. PICK i \in (sent + 1)..Len(items) : items[i] = entries[e].key
      BY <1>1, <2>2 DEF ToBePermitted
    <3>2. PICK c \in Containers : tags = {c} /\ \A j \in DOMAIN items : items[j].container = c
      BY DEF ConfigInv
    <3>3. i \in DOMAIN items /\ sent + 1 \in DOMAIN items /\ sent + 1 \in (sent + 1)..BatchEnd
      BY <1>5
    <3>4. entries[e].key.container \in BatchContainers
      BY <3>1, <3>2, <3>3 DEF BatchContainers
    <3>5. e \in Seen
      BY <2>1, <3>4, SeenIsVisible DEF ConfigInv
    <3>6. items[i] \in DOMAIN existing' /\ existing'[items[i]] \in DOMAIN entries
          /\ entries[existing'[items[i]]].key = items[i]
      BY <3>1, <3>5, WhatIsRead, SeenIsVisible
    <3>7. existing'[items[i]] = e \/ Shared(e)
      BY <3>1, <3>6 DEF Shared
    <3> QED BY <1>1, <2>2, <3>1, <3>6, <3>7 DEF ToBePermitted
  <2> QED BY <1>1, <2>2 DEF PublicInv
<1> QED BY <1>3, <1>6, <1>7, <1>8, <1>9, <1>10, <1>11

\* The steps that carry the item in hand on have this in common.
Onward ==
  /\ InBatch /\ item <= BatchEnd
  /\ Keeps(entries') /\ Writes(entries')
  /\ UNCHANGED <<config, items, tags, sent, existing, attempt, ingested>>
  /\ own \subseteq own' /\ own' \subseteq DOMAIN entries' /\ denied' \subseteq own'
  /\ \/ pc' = "items" /\ item' = item + 1 /\ created' = 0
     \/ /\ pc' = "permit" /\ item' = item /\ created' \in DOMAIN entries'
        /\ entries'[created'].key = items[item]

\* Nobody is forgotten on the way.
LooksAfter(e) ==
  \/ entries'[e].public
  \/ pc' = "permit" /\ created' = e

LEMMA OnwardKeepsInv ==
  ASSUME UploadInv, Onward, CreatedOnce',
         \A i : i = item /\ items[i].container \in tags => Arrived(i)',
         \A e \in own' \ own : /\ entries'[e].key = items[item]
                               /\ config.public => LooksAfter(e),
         \A e \in own : \/ ~config.public
                        \/ LooksAfter(e)
                        \/ /\ e \in denied => e \in denied'
                           /\ ~(pc = "permit" /\ created = e)
                           /\ ~(/\ config.strategy = "overwrite" /\ pc = "items"
                                /\ items[item] \in DOMAIN existing /\ existing[items[item]] = e)
  PROVE  UploadInv'
<1> USE DEF UploadInv
<1>1. Grown /\ Writes(entries')
  BY DEF Grown, Onward
<1>2. /\ InBatch' /\ sent' = sent /\ existing' = existing /\ config' = config /\ items' = items
      /\ tags' = tags /\ ingested' = ingested /\ attempt' = attempt /\ own \subseteq own'
      /\ BatchEnd' = BatchEnd /\ BatchContainers' = BatchContainers
  BY DEF Onward, InBatch, BatchEnd, BatchContainers
<1>3. sent \in Nat /\ Len(items) \in Nat /\ sent < Len(items) /\ DOMAIN items = 1..Len(items)
      /\ BatchEnd \in (sent + 1)..Len(items) /\ config.dest # "ingest"
  <2>1. sent < Len(items) /\ config.dest # "ingest"
    BY DEF Onward, PlaceInv
  <2>2. sent \in Nat /\ Len(items) \in Nat /\ DOMAIN items = 1..Len(items)
    BY DEF TypeInv
  <2> QED BY <2>1, <2>2, BatchHasPlace
<1>4. item \in (sent + 1)..BatchEnd /\ item \in (sent + 1)..Len(items) /\ item \in DOMAIN items
  <2>1. item \in (sent + 1)..(BatchEnd + 1) /\ item <= BatchEnd
    BY DEF Onward, PlaceInv
  <2> QED BY <1>3, <2>1
<1>5. Past' = item /\ Past \in {item - 1, item} /\ (pc = "items" <=> Past = item - 1)
  <2>1. Past' = item
    BY <1>4 DEF Onward, Past
  <2>2. (pc = "items" /\ Past = item - 1) \/ (pc = "permit" /\ Past = item)
    BY DEF Onward, Past, InBatch
  <2> QED BY <1>4, <2>1, <2>2
<1>6. TypeInv'
  <2>1. entries' \in Seq(Entries) /\ created' \in 0..Len(entries') /\ pc' \in {"items", "permit"}
    BY DEF Onward, Keeps
  <2>2. own' \subseteq DOMAIN entries' /\ denied' \subseteq own'
    BY DEF Onward
  <2> QED BY <1>2, <2>1, <2>2 DEF TypeInv
<1>7. PlaceInv'
  <2>1. item' \in (sent + 1)..(BatchEnd + 1)
    BY <1>3, <1>4 DEF Onward
  <2>2. sent' # Len(items') => sent' = (sent' \div BatchSize) * BatchSize
    BY <1>2 DEF PlaceInv
  <2>3. pc' = "permit" => /\ item' <= BatchEnd /\ created' \in DOMAIN entries'
                          /\ entries'[created'].key = items[item']
    BY DEF Onward
  <2>4. pc' # "returned"
    BY DEF Onward
  <2> QED BY <1>2, <1>3, <2>1, <2>2, <2>3, <2>4 DEF PlaceInv
<1>8. ConfigInv'
  BY <1>2 DEF ConfigInv
<1>9. ReadInv'
  <2>1. /\ DOMAIN existing' \subseteq Keys
        /\ \A k \in DOMAIN existing' : existing'[k] \in DOMAIN entries' /\ entries'[existing'[k]].key = k
    BY <1>1, <1>2 DEF ReadInv, Grown, Keeps
  <2>2. ASSUME NEW e \in own'
        PROVE  \/ entries'[e].key \in DOMAIN existing'
               \/ Hidden(e)'
               \/ \E j \in (sent' + 1)..Past' : items'[j] = entries'[e].key
               \/ entries'[e].key.container \notin BatchContainers'
    <3>1. CASE e \in own
      <4>1. e \in DOMAIN entries /\ entries'[e].key = entries[e].key
        BY <1>1, <3>1 DEF TypeInv, Grown, Keeps
      <4>2. \A j \in (sent + 1)..Past : j \in (sent' + 1)..Past'
        BY <1>2, <1>3, <1>4, <1>5
      <4>3. InBatch
        BY DEF Onward
      <4> QED BY <1>1, <1>2, <3>1, <4>1, <4>2, <4>3, HiddenStays DEF ReadInv
    <3>2. CASE e \notin own
      <4>1. item \in (sent' + 1)..Past'
        BY <1>2, <1>3, <1>4, <1>5
      <4> QED BY <1>2, <3>2, <4>1
    <3> QED BY <3>1, <3>2
  <2> QED BY <1>2, <2>1, <2>2 DEF ReadInv
<1>10. ArrivedInv'
  <2>1. ASSUME NEW i \in 1..Past', items'[i].container \in tags'
        PROVE  Arrived(i)'
    <3>1. CASE i = item
      BY <1>2, <2>1, <3>1
    <3>2. CASE i # item
      <4>1. i \in 1..Past /\ i \in DOMAIN items /\ i <= item
        BY <1>3, <1>4, <1>5, <3>2
      <4>2. Arrived(i)
        BY <1>2, <1>3, <2>1, <4>1 DEF ArrivedInv
      <4> QED BY <1>1, <4>1, <4>2, ArrivedStays
    <3> QED BY <3>1, <3>2
  <2> QED BY <1>2, <1>3, <2>1 DEF ArrivedInv
<1>11. PublicInv'
  <2> SUFFICES ASSUME config.public, NEW e \in own'
               PROVE  \/ LooksAfter(e)
                      \/ Shared(e)'
                      \/ config.strategy = "skip" /\ e \in denied'
                      \/ config.strategy = "overwrite" /\ ToBePermitted(e)'
    BY <1>2 DEF PublicInv, LooksAfter
  <2>1. CASE e \notin own
    BY <2>1
  <2>2. CASE e \in own
    <3> SUFFICES ASSUME ~LooksAfter(e)
                 PROVE  \/ Shared(e)'
                        \/ config.strategy = "skip" /\ e \in denied'
                        \/ config.strategy = "overwrite" /\ ToBePermitted(e)'
      OBVIOUS
    <3>1. e \in DOMAIN entries /\ entries'[e].key = entries[e].key
          /\ (entries[e].public => entries'[e].public)
      <4>1. e \in DOMAIN entries
        BY <2>2 DEF TypeInv
      <4> QED BY <1>1, <4>1 DEF Grown, Keeps
    <3>2. ~entries[e].public /\ ~(pc = "permit" /\ created = e)
      BY <2>2, <3>1 DEF LooksAfter
    <3>3. CASE Shared(e)
      BY <1>1, <3>1, <3>3, SharedStays
    <3>4. CASE config.strategy = "skip" /\ e \in denied
      BY <2>2, <3>4
    <3>5. CASE config.strategy = "overwrite" /\ ToBePermitted(e)
      <4>1. InBatch
        BY DEF Onward
      <4>2. PICK i \in (Past + 1)..Len(items) : items[i] = entries[e].key
                                                /\ items[i] \in DOMAIN existing
                                                /\ existing[items[i]] = e
        BY <3>5, <4>1 DEF ToBePermitted
      <4>3. i # item
        <5>1. pc = "items" => i # item
          BY <2>2, <3>5, <4>2
        <5>2. pc # "items" => i >= item + 1
          BY <1>4, <1>5, <4>2
        <5> QED BY <1>4, <5>1, <5>2
      <4>4. i \in (Past' + 1)..Len(items)
        BY <1>3, <1>4, <1>5, <4>2, <4>3
      <4> QED BY <1>2, <3>1, <3>5, <4>2, <4>4 DEF ToBePermitted
    <3> QED BY <2>2, <3>2, <3>3, <3>4, <3>5 DEF PublicInv, Onward, InBatch
  <2> QED BY <2>1, <2>2
<1> QED BY <1>6, <1>7, <1>8, <1>9, <1>10, <1>11

LEMMA SkipKeepsInv ==
  ASSUME UploadInv, Skip
  PROVE  UploadInv'
<1> USE DEF UploadInv
<1>1. /\ entries' = entries /\ own' = own /\ denied' = denied /\ pc' = "items" /\ item' = item + 1
      /\ created' = 0 /\ UNCHANGED <<config, items, tags, sent, existing, attempt, ingested>>
  BY DEF Skip, Pass
<1>2. InBatch /\ item <= BatchEnd /\ pc = "items" /\ item \in DOMAIN items
  BY ItemInHand DEF Skip, Processing
<1>3. Keeps(entries') /\ Writes(entries')
  BY <1>1, NoneChanged
<1>4. own' \subseteq DOMAIN entries' /\ denied' \subseteq own'
  BY <1>1 DEF TypeInv
<1>5. Onward
  BY <1>1, <1>2, <1>3, <1>4 DEF Onward
<1>6. CreatedOnce'
  BY <1>1, <1>3, OnceStays DEF Grown
<1>7. ASSUME NEW i, i = item, items[i].container \in tags
      PROVE  Arrived(i)'
  <2>1. items[item] \in DOMAIN existing /\ config.strategy = "skip"
    BY <1>7 DEF Skip, HasContainer, Exists, Key
  <2>2. existing[items[item]] \in DOMAIN entries /\ entries[existing[items[item]]].key = items[item]
    BY <2>1 DEF ReadInv
  <2> QED BY <1>1, <1>7, <2>1, <2>2 DEF Arrived
<1>8. config.public => config.strategy = "skip" \/ items[item] \notin DOMAIN existing
  BY <1>2 DEF Skip, ConfigInv, HasContainer, Exists, Key
<1>9. config.strategy = "skip" => config.strategy # "overwrite"
  OBVIOUS
<1> QED BY <1>1, <1>2, <1>5, <1>6, <1>7, <1>8, <1>9, OnwardKeepsInv

\* What follows when the entry of an item is written.
LEMMA ThenGoesOn ==
  ASSUME NEW id, Then(id)
  PROVE  /\ UNCHANGED <<config, items, tags, sent, existing, attempt, ingested>>
         /\ \/ ~config.public /\ pc' = "items" /\ item' = item + 1 /\ created' = 0
            \/ config.public /\ pc' = "permit" /\ item' = item /\ created' = id
BY DEF Then, MustPermit, Pass

LEMMA CreateKeepsInv ==
  ASSUME UploadInv, Create
  PROVE  UploadInv'
<1> USE DEF UploadInv
<1>1. /\ entries' = New /\ own' = own \cup {Len(New)} /\ denied' = denied /\ Processing
      /\ HasContainer /\ ~Exists /\ Then(Len(New))
  BY DEF Create
<1>2. /\ Keeps(New) /\ Writes(New) /\ Len(New) \in DOMAIN New /\ Len(New) \notin DOMAIN entries
      /\ New[Len(New)].key = items[item] /\ New[Len(New)].content = item
  BY <1>1, NewIsAppended
<1>3. InBatch /\ item <= BatchEnd /\ item \in DOMAIN items /\ item \in 1..Len(items)
  <2>1. item \in DOMAIN items /\ DOMAIN items = 1..Len(items) /\ InBatch
    BY <1>1, ItemInHand DEF TypeInv
  <2> QED BY <1>1, <2>1 DEF Processing
<1>4. own' \subseteq DOMAIN entries' /\ denied' \subseteq own'
  <2>1. own \subseteq DOMAIN entries /\ denied \subseteq own
    BY DEF TypeInv
  <2>2. DOMAIN entries \subseteq DOMAIN New
    BY <1>2 DEF Keeps
  <2> QED BY <1>1, <1>2, <2>1, <2>2
<1>5. Onward
  BY <1>1, <1>2, <1>3, <1>4, ThenGoesOn DEF Onward
<1>6. CreatedOnce'
  BY <1>1, <1>5, OnceAfterCreate DEF Onward
<1>7. ASSUME NEW i, i = item, items[i].container \in tags
      PROVE  Arrived(i)'
  <2>1. items' = items
    BY <1>5 DEF Onward
  <2>2. item \in i..Len(items)
    BY <1>3, <1>7
  <2> QED BY <1>1, <1>2, <1>7, <2>1, <2>2 DEF Arrived
<1>8. items[item] \notin DOMAIN existing
  BY <1>1 DEF Exists, Key
<1>9. \A e \in own' \ own : /\ entries'[e].key = items[item]
                            /\ config.public => LooksAfter(e)
  BY <1>1, <1>2, ThenGoesOn DEF LooksAfter
<1>10. pc # "permit"
  BY <1>1 DEF Processing
<1> QED BY <1>1, <1>5, <1>6, <1>7, <1>8, <1>9, <1>10, OnwardKeepsInv

LEMMA OverwriteKeepsInv ==
  ASSUME UploadInv, Overwrite
  PROVE  UploadInv'
<1> USE DEF UploadInv
<1> DEFINE id == existing[Key]
<1>1. /\ entries' = Written(id) /\ own' = own /\ denied' = denied /\ Processing
      /\ Key \in DOMAIN existing /\ Then(id)
  BY DEF Overwrite, Exists
<1>2. id \in DOMAIN entries /\ entries[id].key = items[item]
  BY <1>1 DEF ReadInv, Key
<1>3. InBatch /\ item <= BatchEnd /\ item \in DOMAIN items /\ item \in 1..Len(items)
  <2>1. item \in DOMAIN items /\ DOMAIN items = 1..Len(items) /\ InBatch
    BY <1>1, ItemInHand DEF TypeInv
  <2> QED BY <1>1, <2>1 DEF Processing
<1>4. /\ Keeps(entries') /\ Writes(entries') /\ entries'[id].content = item
      /\ DOMAIN entries' = DOMAIN entries
  BY <1>1, <1>2, <1>3, OneWritten
<1>5. own' \subseteq DOMAIN entries' /\ denied' \subseteq own'
  BY <1>1, <1>4 DEF TypeInv
<1>6. entries'[id].key = items[item]
  BY <1>2, <1>4 DEF Keeps
<1> HIDE DEF id
<1>7. Onward
  BY <1>1, <1>2, <1>3, <1>4, <1>5, <1>6, ThenGoesOn DEF Onward
<1>8. CreatedOnce'
  BY <1>1, <1>4, <1>7, OnceStays DEF Onward, Grown
<1>9. ASSUME NEW i, i = item, items[i].container \in tags
      PROVE  Arrived(i)'
  <2>1. items' = items
    BY <1>7 DEF Onward
  <2>2. item \in i..Len(items)
    BY <1>3, <1>9
  <2> QED BY <1>2, <1>4, <1>6, <1>9, <2>1, <2>2 DEF Arrived
<1>10. \A e \in own : ~config.public \/ LooksAfter(e) \/ existing[items[item]] # e
  BY <1>1, ThenGoesOn DEF LooksAfter, id, Key
<1>11. pc # "permit"
  BY <1>1 DEF Processing
<1> QED BY <1>1, <1>7, <1>8, <1>9, <1>10, <1>11, OnwardKeepsInv

LEMMA PermitKeepsInv ==
  ASSUME UploadInv, Permit
  PROVE  UploadInv'
<1> USE DEF UploadInv
<1>1. /\ entries' = Permitted /\ own' = own /\ denied' = denied \ {created} /\ pc = "permit"
      /\ pc' = "items" /\ item' = item + 1 /\ created' = 0
      /\ UNCHANGED <<config, items, tags, sent, existing, attempt, ingested>>
  BY DEF Permit, Pass
<1>2. created \in DOMAIN entries /\ entries[created].key = items[item] /\ item <= BatchEnd
      /\ InBatch /\ Past = item
  BY <1>1 DEF PlaceInv, InBatch, Past
<1>3. /\ Keeps(entries') /\ Writes(entries') /\ entries'[created].public = TRUE
      /\ DOMAIN entries' = DOMAIN entries
  BY <1>1, <1>2, OnePermitted
<1>4. own' \subseteq DOMAIN entries' /\ denied' \subseteq own'
  BY <1>1, <1>3 DEF TypeInv
<1>5. Onward
  BY <1>1, <1>2, <1>3, <1>4 DEF Onward
<1>6. Grown
  BY <1>1, <1>3 DEF Grown
<1>7. CreatedOnce'
  BY <1>1, <1>6, OnceStays
<1>8. ASSUME NEW i, i = item, items[i].container \in tags
      PROVE  Arrived(i)'
  <2>1. sent \in Nat /\ Len(items) \in Nat /\ BatchEnd \in sent..Len(items)
        /\ DOMAIN items = 1..Len(items)
    BY BatchHasPlace DEF TypeInv
  <2>2. config.dest # "ingest" /\ item \in (sent + 1)..(BatchEnd + 1)
    BY <1>2 DEF PlaceInv
  <2>3. i \in 1..Past /\ i \in DOMAIN items /\ i <= item
    BY <1>2, <1>8, <2>1, <2>2
  <2>4. Arrived(i)
    BY <1>8, <2>2, <2>3 DEF ArrivedInv
  <2> QED BY <1>3, <1>6, <2>3, <2>4, ArrivedStays
<1>9. entries'[created].public
  BY <1>3
<1>10. \A e \in own : LooksAfter(e) \/ (created # e /\ (e \in denied => e \in denied'))
  BY <1>1, <1>9 DEF LooksAfter
<1> QED BY <1>1, <1>5, <1>7, <1>8, <1>10, OnwardKeepsInv

LEMMA BatchDoneKeepsInv ==
  ASSUME UploadInv, BatchDone
  PROVE  UploadInv'
<1> USE DEF UploadInv
<1>1. /\ pc = "items" /\ item = BatchEnd + 1 /\ sent' = BatchEnd /\ item' = BatchEnd /\ pc' = "load"
      /\ existing' = NoneRead
      /\ UNCHANGED <<config, items, tags, entries, created, attempt, own, denied, ingested>>
  BY DEF BatchDone
<1>2. sent \in Nat /\ Len(items) \in Nat /\ BatchEnd \in sent..Len(items)
  BY BatchHasPlace DEF TypeInv
<1>3. InBatch /\ ~InBatch' /\ Past = BatchEnd /\ Past' = BatchEnd /\ config.dest # "ingest"
  <2>1. Past = item - 1 /\ Past' = sent' /\ InBatch /\ ~InBatch'
    BY <1>1 DEF InBatch, Past
  <2> QED BY <1>1, <1>2, <2>1 DEF PlaceInv
<1>4. TypeInv'
  <2>1. sent' \in 0..Len(items)
    BY <1>1, <1>2
  <2> QED BY <1>1, <2>1 DEF TypeInv
<1>5. PlaceInv'
  <2>1. BatchEnd # Len(items) => BatchEnd = (BatchEnd \div BatchSize) * BatchSize
    BY BatchHasPlace
  <2>2. sent' # Len(items') => sent' = (sent' \div BatchSize) * BatchSize
    BY <1>1, <2>1
  <2> QED BY <1>1, <1>3, <2>2 DEF PlaceInv
<1>6. ConfigInv'
  BY <1>1 DEF ConfigInv
<1>7. ReadInv'
  BY <1>1, <1>3 DEF ReadInv, NoneRead
<1>8. CreatedOnce'
  BY <1>1, NoneChanged, OnceStays DEF Grown
<1>9. ArrivedInv'
  BY <1>1, <1>3 DEF ArrivedInv, Arrived
<1>10. PublicInv'
  <2>1. \A e : ToBePermitted(e) => ToBePermitted(e)'
    BY <1>1, <1>3 DEF ToBePermitted
  <2>2. \A e : Shared(e) => Shared(e)'
    BY <1>1 DEF Shared
  <2> QED BY <1>1, <2>1, <2>2 DEF PublicInv
<1> QED BY <1>4, <1>5, <1>6, <1>7, <1>8, <1>9, <1>10

LEMMA IngestKeepsInv ==
  ASSUME UploadInv, Ingest
  PROVE  UploadInv'
<1> USE DEF UploadInv
<1>1. /\ pc = "load" /\ config.dest = "ingest" /\ sent < Len(items)
      /\ ingested' = ingested \cup ((sent + 1)..BatchEnd) /\ pc' \in {"load", "failed"}
      /\ (sent' = BatchEnd /\ item' = BatchEnd) \/ (sent' = sent /\ item' = item)
      /\ UNCHANGED <<config, items, tags, entries, existing, created, own, denied>>
  BY DEF Ingest
<1>2. sent \in Nat /\ Len(items) \in Nat /\ BatchEnd \in sent..Len(items)
      /\ DOMAIN items = 1..Len(items)
  BY BatchHasPlace DEF TypeInv
<1>3. ~InBatch /\ ~InBatch' /\ Past = sent /\ Past' = sent' /\ item = sent /\ item' = sent'
      /\ ~config.public
  BY <1>1 DEF InBatch, Past, PlaceInv, ConfigInv
<1>4. TypeInv'
  <2>1. attempt' \in 1..MaxAttempts
    BY UploadAssumption DEF TypeInv, Ingest
  <2>2. ingested' \subseteq DOMAIN items /\ sent' \in 0..Len(items)
    BY <1>1, <1>2 DEF TypeInv
  <2> QED BY <1>1, <2>1, <2>2 DEF TypeInv
<1>5. PlaceInv'
  <2>1. BatchEnd # Len(items) => BatchEnd = (BatchEnd \div BatchSize) * BatchSize
    BY BatchHasPlace
  <2>2. sent # Len(items) => sent = (sent \div BatchSize) * BatchSize
    BY DEF PlaceInv
  <2>3. sent' # Len(items') => sent' = (sent' \div BatchSize) * BatchSize
    BY <1>1, <2>1, <2>2
  <2> QED BY <1>1, <1>3, <2>3 DEF PlaceInv
<1>6. ConfigInv'
  BY <1>1 DEF ConfigInv
<1>7. ReadInv'
  BY <1>1, <1>3 DEF ReadInv, NoneRead
<1>8. CreatedOnce'
  BY <1>1, NoneChanged, OnceStays DEF Grown
<1>9. ArrivedInv'
  <2>1. 1..sent \subseteq ingested
    BY <1>1 DEF ArrivedInv
  <2>2. 1..sent' \subseteq ingested'
    BY <1>1, <1>2, <2>1
  <2> QED BY <1>1, <2>2 DEF ArrivedInv
<1>10. PublicInv'
  BY <1>1, <1>3 DEF PublicInv
<1> QED BY <1>4, <1>5, <1>6, <1>7, <1>8, <1>9, <1>10

LEMMA ReturnKeepsInv ==
  ASSUME UploadInv, Return
  PROVE  UploadInv'
<1> USE DEF UploadInv
<1>1. /\ pc = "load" /\ pc' = "returned" /\ sent = Len(items)
      /\ UNCHANGED <<config, items, tags, entries, sent, item, existing, created, attempt, own,
                     denied, ingested>>
  BY DEF Return
<1>2. ~InBatch /\ ~InBatch' /\ Past = sent /\ Past' = sent
  BY <1>1 DEF InBatch, Past
<1>3. TypeInv'
  BY <1>1 DEF TypeInv
<1>4. PlaceInv'
  BY <1>1, <1>2 DEF PlaceInv
<1>5. ConfigInv'
  BY <1>1 DEF ConfigInv
<1>6. ReadInv'
  BY <1>1, <1>2 DEF ReadInv, NoneRead
<1>7. CreatedOnce'
  BY <1>1, NoneChanged, OnceStays DEF Grown
<1>8. ArrivedInv'
  BY <1>1, <1>2 DEF ArrivedInv, Arrived
<1>9. PublicInv'
  <2>1. \A e : ToBePermitted(e) => ToBePermitted(e)'
    BY <1>1, <1>2 DEF ToBePermitted
  <2>2. \A e : Shared(e) => Shared(e)'
    BY <1>1 DEF Shared
  <2> QED BY <1>1, <2>1, <2>2 DEF PublicInv
<1> QED BY <1>3, <1>4, <1>5, <1>6, <1>7, <1>8, <1>9

LEMMA OtherUserKeepsInv ==
  ASSUME UploadInv, OtherUser
  PROVE  UploadInv'
<1> USE DEF UploadInv
<1>1. PICK k \in Keys : entries' = Append(entries, [key |-> k, content |-> 0, public |-> FALSE])
  BY DEF OtherUser
<1>2. UNCHANGED <<config, items, tags, pc, sent, item, existing, created, attempt, own, denied,
                  ingested>>
  BY DEF OtherUser
<1> DEFINE r == [key |-> k, content |-> 0, public |-> FALSE]
<1>3. r \in Entries
  BY UploadAssumption DEF Entries
<1> HIDE DEF r
<1>4. /\ Keeps(entries') /\ Writes(entries') /\ Len(entries') = Len(entries) + 1
      /\ \A e \in DOMAIN entries : e \in DOMAIN entries' /\ entries'[e] = entries[e]
  <2>1. entries' = Append(entries, r)
    BY <1>1 DEF r
  <2>2. Len(entries) \in Nat /\ DOMAIN entries = 1..Len(entries)
    BY DEF TypeInv
  <2> QED BY <1>3, <2>1, <2>2, OneAppended
<1>5. Grown /\ InBatch' = InBatch /\ Past' = Past /\ BatchEnd' = BatchEnd
      /\ BatchContainers' = BatchContainers
  BY <1>2, <1>4 DEF Grown, InBatch, Past, BatchEnd, BatchContainers
<1>6. own \subseteq DOMAIN entries /\ own \subseteq DOMAIN entries'
  BY <1>4 DEF TypeInv
<1>7. TypeInv'
  <2>1. entries' \in Seq(Entries) /\ created \in 0..Len(entries')
    <3>1. entries' \in Seq(Entries)
      BY <1>4 DEF Keeps
    <3>2. created \in 0..Len(entries) /\ Len(entries) \in Nat
      BY DEF TypeInv
    <3> QED BY <1>4, <3>1, <3>2
  <2> QED BY <1>2, <1>6, <2>1 DEF TypeInv
<1>8. PlaceInv'
  <2>1. pc' = "permit" => created' \in DOMAIN entries' /\ entries'[created'].key = items'[item']
    BY <1>2, <1>4 DEF PlaceInv
  <2>2. sent' # Len(items') => sent' = (sent' \div BatchSize) * BatchSize
    BY <1>2 DEF PlaceInv
  <2> QED BY <1>2, <1>5, <2>1, <2>2 DEF PlaceInv
<1>9. ConfigInv'
  BY <1>2 DEF ConfigInv
<1>10. ReadInv'
  <2>1. /\ DOMAIN existing' \subseteq Keys
        /\ \A x \in DOMAIN existing' : existing'[x] \in DOMAIN entries' /\ entries'[existing'[x]].key = x
    BY <1>2, <1>4 DEF ReadInv
  <2>2. \A e \in own : Hidden(e) => Hidden(e)'
    BY <1>5, <1>6, HiddenStays
  <2> QED BY <1>2, <1>4, <1>5, <1>6, <2>1, <2>2 DEF ReadInv, NoneRead
<1>11. CreatedOnce'
  BY <1>2, <1>5, OnceStays
<1>12. ArrivedInv'
  <2>1. \A i : Arrived(i) => Arrived(i)'
    BY <1>2, <1>4 DEF Arrived
  <2> QED BY <1>2, <1>5, <2>1 DEF ArrivedInv
<1>13. PublicInv'
  <2>1. ASSUME NEW e \in own
        PROVE  /\ entries'[e] = entries[e]
               /\ ToBePermitted(e) => ToBePermitted(e)'
               /\ Shared(e) => Shared(e)'
    BY <1>2, <1>4, <1>5, <1>6, SharedStays DEF ToBePermitted
  <2> QED BY <1>2, <2>1 DEF PublicInv
<1> QED BY <1>7, <1>8, <1>9, <1>10, <1>11, <1>12, <1>13

\* A request that raised and made nothing: what is written is kept or not.
LEMMA RaisedMakingNothing ==
  ASSUME UploadInv, NEW es, NEW denied2, Raised(es, own, denied2), Keeps(es), Writes(es),
         pc \in {"load", "items", "permit"}, denied \subseteq denied2, denied2 \subseteq own,
         pc = "permit" /\ created \in own => es[created].public \/ created \in denied2
  PROVE  UploadInv'
<1>1. own \subseteq DOMAIN es
  BY DEF UploadInv, TypeInv, Keeps
<1>2. entries' = es /\ own' = own /\ UNCHANGED <<config, items, tags>>
  BY DEF Raised
<1>3. CreatedOnce'
  BY <1>2, OnceStays DEF Grown, UploadInv
<1> QED BY <1>1, <1>3, RaisedKeepsInv

LEMMA ReadRaisedKeepsInv ==
  ASSUME UploadInv, ReadRaised \/ IngestRaised
  PROVE  UploadInv'
<1>1. pc = "load" /\ Raised(entries, own, denied)
  BY DEF ReadRaised, IngestRaised
<1>2. Keeps(entries) /\ Writes(entries) /\ denied \subseteq own
  BY NoneChanged DEF UploadInv, TypeInv
<1> QED BY <1>1, <1>2, RaisedMakingNothing

LEMMA CreateRaisedKeepsInv ==
  ASSUME UploadInv, CreateRaised
  PROVE  UploadInv'
<1>1. Processing /\ HasContainer /\ ~Exists /\ pc = "items"
  BY DEF CreateRaised, Processing
<1>2. CASE Raised(entries, own, denied)
  <2>1. Keeps(entries) /\ Writes(entries) /\ denied \subseteq own
    BY NoneChanged DEF UploadInv, TypeInv
  <2> QED BY <1>1, <1>2, <2>1, RaisedMakingNothing
<1>3. CASE Raised(New, own \cup {Len(New)}, denied \cup {Len(New)})
  <2>1. /\ Keeps(New) /\ Writes(New) /\ Len(New) \in DOMAIN New /\ Len(New) \notin DOMAIN entries
        /\ New[Len(New)].key = items[item]
    BY <1>1, NewIsAppended DEF UploadInv
  <2>2. own \subseteq DOMAIN New
    BY <2>1 DEF UploadInv, TypeInv, Keeps
  <2>3. entries' = New /\ own' = own \cup {Len(New)} /\ UNCHANGED <<config, items, tags>>
    BY <1>3 DEF Raised
  <2>4. CreatedOnce'
    BY <1>1, <2>3, OnceAfterCreate DEF UploadInv
  <2>5. item \in (sent + 1)..Len(items)
    BY <1>1, ItemInHand DEF UploadInv
  <2>6. denied \subseteq own
    BY DEF UploadInv, TypeInv
  <2> DEFINE id == Len(New)
             es == New
  <2> HIDE DEF id, es
  <2>7. /\ Raised(es, own \cup {id}, denied \cup {id}) /\ Keeps(es) /\ Writes(es)
        /\ id \in DOMAIN es /\ own \subseteq DOMAIN es /\ es[id].key = items[item]
    BY <1>3, <2>1, <2>2 DEF id, es
  <2> QED BY <1>1, <2>4, <2>5, <2>6, <2>7, RaisedKeepsInv
<1> QED BY <1>2, <1>3 DEF CreateRaised

LEMMA OverwriteRaisedKeepsInv ==
  ASSUME UploadInv, OverwriteRaised
  PROVE  UploadInv'
<1>1. PICK es \in {entries, Written(existing[Key])} : Raised(es, own, denied)
  BY DEF OverwriteRaised
<1>2. Processing /\ Key \in DOMAIN existing /\ pc = "items"
  BY DEF OverwriteRaised, Processing, Exists
<1>3. existing[Key] \in DOMAIN entries /\ entries[existing[Key]].key = items[item]
      /\ item \in DOMAIN items
  BY <1>2, ItemInHand DEF UploadInv, ReadInv, Key
<1>4. Keeps(es) /\ Writes(es)
  BY <1>3, NoneChanged, OneWritten DEF UploadInv
<1>5. denied \subseteq own
  BY DEF UploadInv, TypeInv
<1> QED BY <1>1, <1>2, <1>4, <1>5, RaisedMakingNothing

LEMMA PermitRaisedKeepsInv ==
  ASSUME UploadInv, PermitRaised
  PROVE  UploadInv'
<1> DEFINE after(es) == IF created \in own /\ es = entries THEN denied \cup {created} ELSE denied
<1>1. PICK es \in {entries, Permitted} : Raised(es, own, after(es))
  BY DEF PermitRaised
<1>2. pc = "permit" /\ created \in DOMAIN entries
  BY DEF PermitRaised, UploadInv, PlaceInv
<1>3. Keeps(es) /\ Writes(es) /\ (es = Permitted => es[created].public)
  BY <1>2, NoneChanged, OnePermitted DEF UploadInv
<1>4. denied \subseteq after(es) /\ after(es) \subseteq own
  BY DEF UploadInv, TypeInv
<1>5. created \in own => es[created].public \/ created \in after(es)
  BY <1>3
<1> HIDE DEF after
<1> QED BY <1>1, <1>2, <1>3, <1>4, <1>5, RaisedMakingNothing

LEMMA UploadInit ==
  Init => UploadInv
<1> SUFFICES ASSUME Init
             PROVE  UploadInv
  OBVIOUS
<1>1. PICK n \in 0..MaxItems : items \in [1..n -> Keys]
  BY DEF Init
<1>2. items \in Seq(Keys) /\ Len(items) = n
  BY <1>1, UploadAssumption
<1>3. ~InBatch /\ Past = 0 /\ pc = "load" /\ sent = 0 /\ item = 0 /\ own = {} /\ entries = <<>>
      /\ created = 0 /\ attempt = 1 /\ denied = {} /\ ingested = {} /\ existing = NoneRead
  BY DEF Init, InBatch, Past
<1>4. entries \in Seq(Entries)
  BY <1>3
<1>5. TypeInv
  <2>1. config \in Configs /\ tags \subseteq Containers
    BY DEF Init
  <2>2. n \in Nat /\ n <= MaxItems /\ 0 \in 0..n /\ 0 \in 0..Len(entries) /\ 1 \in 1..MaxAttempts
    BY <1>3, UploadAssumption
  <2> QED BY <1>2, <1>3, <1>4, <2>1, <2>2 DEF TypeInv
<1>6. PlaceInv
  <2>1. 0 = (0 \div BatchSize) * BatchSize
    BY UploadAssumption
  <2> QED BY <1>3, <2>1 DEF PlaceInv
<1>7. ConfigInv
  BY DEF Init, ConfigInv
<1>8. ReadInv
  BY <1>3 DEF ReadInv, NoneRead
<1>9. CreatedOnce
  BY <1>3 DEF CreatedOnce
<1>10. ArrivedInv
  BY <1>3 DEF ArrivedInv
<1>11. PublicInv
  BY <1>3 DEF PublicInv
<1> QED BY <1>5, <1>6, <1>7, <1>8, <1>9, <1>10, <1>11 DEF UploadInv

LEMMA UploadStep ==
  UploadInv /\ [Next]_vars => UploadInv'
<1> SUFFICES ASSUME UploadInv, [Next]_vars
             PROVE  UploadInv'
  OBVIOUS
<1>1. CASE ReadExisting
  BY <1>1, ReadExistingKeepsInv
<1>2. CASE ReadRaised \/ IngestRaised
  BY <1>2, ReadRaisedKeepsInv
<1>3. CASE Skip
  BY <1>3, SkipKeepsInv
<1>4. CASE Create
  BY <1>4, CreateKeepsInv
<1>5. CASE CreateRaised
  BY <1>5, CreateRaisedKeepsInv
<1>6. CASE Overwrite
  BY <1>6, OverwriteKeepsInv
<1>7. CASE OverwriteRaised
  BY <1>7, OverwriteRaisedKeepsInv
<1>8. CASE Permit
  BY <1>8, PermitKeepsInv
<1>9. CASE PermitRaised
  BY <1>9, PermitRaisedKeepsInv
<1>10. CASE BatchDone
  BY <1>10, BatchDoneKeepsInv
<1>11. CASE Ingest
  BY <1>11, IngestKeepsInv
<1>12. CASE Return
  BY <1>12, ReturnKeepsInv
<1>13. CASE OtherUser
  BY <1>13, OtherUserKeepsInv
<1>14. CASE UNCHANGED vars
  <2> USE <1>14 DEF vars, UploadInv
  <2>1. Past' = Past /\ InBatch' = InBatch /\ BatchContainers' = BatchContainers /\ BatchEnd' = BatchEnd
    BY DEF Past, InBatch, BatchContainers, BatchEnd
  <2>2. TypeInv' /\ ConfigInv'
    BY DEF TypeInv, ConfigInv
  <2>3. PlaceInv'
    BY <2>1 DEF PlaceInv
  <2>4. ReadInv'
    <3>1. ReadInv /\ UNCHANGED <<existing, entries, own, tags, sent, items, config>>
      OBVIOUS
    <3>2. \A e : Hidden(e)' <=> Hidden(e)
      BY ONLY <3>1 DEF Hidden, Visible
    <3> QED BY ONLY <2>1, <3>1, <3>2 DEF ReadInv, NoneRead
  <2>5. CreatedOnce'
    BY DEF CreatedOnce, SameBatch, Visible
  <2>6. ArrivedInv'
    BY <2>1 DEF ArrivedInv, Arrived
  <2>7. PublicInv'
    BY <2>1 DEF PublicInv, Shared, ToBePermitted
  <2> QED BY <2>2, <2>3, <2>4, <2>5, <2>6, <2>7
<1> QED BY <1>1, <1>2, <1>3, <1>4, <1>5, <1>6, <1>7, <1>8, <1>9, <1>10, <1>11, <1>12, <1>13,
           <1>14 DEF Next, Batch

THEOREM UploadIsInductive ==
  Spec => []UploadInv
BY UploadInit, UploadStep, PTL DEF Spec

---------------------------------------------------------------------------
(* What it promises. *)

\* The variables hold what the destinations put in them; what was read leads
\* to entries that are there.
THEOREM UploadIsTyped ==
  Spec => []TypeOK
<1>1. UploadInv => TypeOK
  <2> SUFFICES ASSUME UploadInv
               PROVE  TypeOK
    OBVIOUS
  <2>1. TypeInv /\ PlaceInv /\ ReadInv
    BY DEF UploadInv
  <2>2. sent \in Nat /\ Len(items) \in Nat /\ sent <= Len(items) /\ BatchEnd \in sent..Len(items)
    BY <2>1, BatchHasPlace DEF TypeInv
  <2>3. item \in (sent + 1)..(BatchEnd + 1) \/ item = sent
    BY <2>1 DEF PlaceInv
  <2>4. item \in sent..(Len(items) + 1)
    BY <2>2, <2>3
  <2>5. DOMAIN existing \subseteq Keys /\ Range(existing) \subseteq DOMAIN entries
    BY <2>1 DEF ReadInv, Range
  <2> QED BY <2>1, <2>4, <2>5 DEF TypeInv, TypeOK
<1> QED BY <1>1, UploadIsInductive, PTL

\* However many requests raise and whatever those have done, a load that
\* returns has left nothing out, and none makes an entry twice but for a key that
\* is twice in one batch, or of a zone when the earlier entry lies beyond the
\* selectors of that zone that one request returns.
THEOREM NothingLeftOutOrMadeTwice ==
  Spec => []ItemsArriveOnce
<1>1. UploadInv => ItemsArriveOnce
  <2> SUFFICES ASSUME UploadInv
               PROVE  CreatedOnce /\ EveryItemArrives
    BY DEF ItemsArriveOnce
  <2>1. CreatedOnce
    BY DEF UploadInv
  <2>2. ASSUME pc = "returned"
        PROVE  IF config.dest = "ingest" THEN ingested = DOMAIN items
               ELSE \A i \in DOMAIN items : items[i].container \in tags => Arrived(i)
    <3>1. sent = Len(items) /\ Past = Len(items) /\ DOMAIN items = 1..Len(items)
          /\ ingested \subseteq DOMAIN items
      BY <2>2 DEF UploadInv, PlaceInv, TypeInv, Past
    <3> QED BY <3>1 DEF UploadInv, ArrivedInv
  <2> QED BY <2>1, <2>2 DEF EveryItemArrives, Arrived
<1> QED BY <1>1, UploadIsInductive, PTL

\* A load that returns has made its searches public if it was to, but for those
\* whose permissions raised and which skip then leaves as they are.
THEOREM SearchesArePublic ==
  Spec => []PublicAsAsked
<1>1. UploadInv => PublicAsAsked
  <2> SUFFICES ASSUME UploadInv, pc = "returned", config.public, NEW e \in own
               PROVE  entries[e].public \/ (config.strategy = "skip" /\ e \in denied) \/ Shared(e)
    BY DEF PublicAsAsked, Shared
  <2>1. sent = Len(items) /\ Past = Len(items) /\ Len(items) \in Nat
    BY DEF UploadInv, PlaceInv, TypeInv, Past
  <2>2. ~ToBePermitted(e)
    BY <2>1 DEF ToBePermitted
  <2> QED BY <2>2 DEF UploadInv, PublicInv
<1> QED BY <1>1, UploadIsInductive, PTL

=============================================================================
