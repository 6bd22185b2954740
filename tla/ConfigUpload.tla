---------------------------- MODULE ConfigUpload ----------------------------
(***************************************************************************)
(* The three destinations that write to BloodHound: saved_searches and     *)
(* privilege_zones (destinations/bloodhound), which compare what they load *)
(* with what they have read before, and ingest                             *)
(* (destinations/bloodhound_enterprise).  DLT is external: it cuts a load  *)
(* into batches, begins a batch that raised again, and goes on after the   *)
(* last batch that did not; after some attempts the load fails.            *)
(*                                                                         *)
(* Searches and the selectors of a zone are both entries of a container.   *)
(* BloodHound and its other users are external: a name that is taken may   *)
(* be refused or not, and every request may be lost, with or without       *)
(* having been carried out.                                                *)
(***************************************************************************)
EXTENDS Naturals, FiniteSets, Sequences, SequencesExt

CONSTANTS Names,       \* names of searches and selectors
          Containers,  \* zones; for saved searches there is one container
          BatchSize,   \* batch_size
          Limit,       \* selectors that one request returns (999)
          MaxItems,    \* bound: items of a load
          MaxOthers,   \* bound: entries of other users
          MaxAttempts  \* bound: attempts of a load

ASSUME UploadAssumption == /\ BatchSize \in Nat \ {0}
                           /\ Limit \in Nat \ {0}
                           /\ MaxItems \in Nat
                           /\ MaxOthers \in Nat
                           /\ MaxAttempts \in Nat \ {0}

VARIABLES
  config,   \* [dest, strategy, public]
  items,    \* what is loaded: the content of an item is its number
  tags,     \* containers that BloodHound has
  entries,  \* entries of BloodHound by id: [key, content, public]
  pc,       \* "load", "items", "permit", "returned" or "failed"
  sent,     \* items of finished batches, as DLT knows them
  item,     \* the item that is processed
  existing, \* the entries that were read: key -> id
  created,  \* the id whose permissions are to be set
  attempt,
  \* History.
  own,      \* ids this load has created
  denied,   \* ids whose permissions were not set for certain
  ingested  \* numbers of items that were ingested

vars == <<config, items, tags, entries, pc, sent, item, existing, created, attempt,
          own, denied, ingested>>

Keys == [name : Names, container : Containers]
Configs == [dest : {"saved_searches", "privilege_zones", "ingest"},
            strategy : {"skip", "overwrite"}, public : BOOLEAN]
Entries == [key : Keys, content : 0..MaxItems, public : BOOLEAN]

TypeOK ==
  /\ config \in Configs
  /\ items \in Seq(Keys) /\ Len(items) <= MaxItems
  /\ tags \subseteq Containers
  /\ entries \in Seq(Entries)
  /\ pc \in {"load", "items", "permit", "returned", "failed"}
  /\ sent \in 0..Len(items)
  /\ item \in sent..(Len(items) + 1)
  /\ DOMAIN existing \subseteq Keys /\ Range(existing) \subseteq DOMAIN entries
  /\ created \in 0..Len(entries)
  /\ attempt \in 1..MaxAttempts
  /\ own \subseteq DOMAIN entries
  /\ denied \subseteq own
  /\ ingested \subseteq DOMAIN items

NoneRead == [k \in {} |-> 0]

\* Permissions are a matter of saved searches, which are in one container.
Init ==
  /\ config \in {c \in Configs : (c.dest # "saved_searches" => ~c.public)
                                 /\ (c.dest = "ingest" => c.strategy = "skip")}
  /\ \E n \in 0..MaxItems : items \in [1..n -> Keys]
  /\ tags \in SUBSET Containers
  /\ config.dest = "saved_searches" =>
       \E c \in Containers : tags = {c} /\ \A i \in DOMAIN items : items[i].container = c
  /\ config.dest = "ingest" => tags = {}
  /\ entries = <<>>
  /\ pc = "load"
  /\ sent = 0
  /\ item = 0
  /\ existing = NoneRead
  /\ created = 0
  /\ attempt = 1
  /\ own = {}
  /\ denied = {}
  /\ ingested = {}

---------------------------------------------------------------------------
(* A batch. *)

BatchEnd == IF sent + BatchSize < Len(items) THEN sent + BatchSize ELSE Len(items)

\* Mutant: the batch begins anew with what the first attempt has read.
RaisedKeepingRead(es, own2, denied2) ==
  /\ entries' = es
  /\ own' = own2
  /\ denied' = denied2
  /\ item' = sent + 1
  /\ pc' = IF attempt < MaxAttempts THEN (IF pc = "load" THEN "load" ELSE "items") ELSE "failed"
  /\ attempt' = IF attempt < MaxAttempts THEN attempt + 1 ELSE attempt
  /\ created' = 0
  /\ UNCHANGED <<config, items, tags, sent, existing, ingested>>

\* Mutant: the items before the one that raised count as sent.
RaisedCountingItem(es, own2, denied2) ==
  /\ entries' = es
  /\ own' = own2
  /\ denied' = denied2
  /\ item' = item
  /\ sent' = item
  /\ pc' = IF attempt < MaxAttempts THEN "load" ELSE "failed"
  /\ attempt' = IF attempt < MaxAttempts THEN attempt + 1 ELSE attempt
  /\ existing' = NoneRead
  /\ created' = 0
  /\ UNCHANGED <<config, items, tags, ingested>>

\* A request raises, whatever it did: DLT begins the batch again, or gives up.
Raised(es, own2, denied2) ==
  /\ entries' = es
  /\ own' = own2
  /\ denied' = denied2
  /\ item' = sent
  /\ pc' = IF attempt < MaxAttempts THEN "load" ELSE "failed"
  /\ attempt' = IF attempt < MaxAttempts THEN attempt + 1 ELSE attempt
  /\ existing' = NoneRead
  /\ created' = 0
  /\ UNCHANGED <<config, items, tags, sent, ingested>>

Visible(c) == {e \in DOMAIN entries : /\ entries[e].key.container = c
                                      /\ config.dest = "privilege_zones" =>
                                           Cardinality({f \in 1..e : entries[f].key.container = c})
                                             <= Limit}

\* What there is, by name, is read at the beginning of a batch: the searches, or
\* the selectors of the zones in it.  Of two entries of one name the last counts.
ReadExisting ==
  /\ pc = "load"
  /\ config.dest # "ingest"
  /\ sent < Len(items)
  /\ LET seen == UNION {Visible(c) : c \in tags \cap
                          {items[i].container : i \in (sent + 1)..BatchEnd}}
         keys == {entries[e].key : e \in seen}
         last(k) == CHOOSE e \in seen : entries[e].key = k
                                        /\ \A f \in seen : entries[f].key = k => f <= e
     IN existing' = [k \in keys |-> last(k)]
  /\ pc' = "items"
  /\ item' = sent + 1
  /\ UNCHANGED <<config, items, tags, entries, sent, created, attempt, own, denied, ingested>>

ReadRaised ==
  /\ pc = "load"
  /\ config.dest # "ingest"
  /\ sent < Len(items)
  /\ Raised(entries, own, denied)

Processing == pc = "items" /\ item <= BatchEnd
Key == items[item]
HasContainer == Key.container \in tags
Exists == Key \in DOMAIN existing

\* The next item, when nothing remains to be done for this one.
Pass ==
  /\ item' = item + 1
  /\ pc' = "items"
  /\ created' = 0
  /\ UNCHANGED <<config, items, tags, sent, existing, attempt, ingested>>

\* Mutant: permissions are set only for what is new.
PermitOnlyNew(id) == config.public /\ id \notin Range(existing)

\* A public search gets its permissions in a request of their own.
MustPermit(id) == config.public

Then(id) ==
  IF MustPermit(id)
  THEN /\ pc' = "permit"
       /\ created' = id
       /\ UNCHANGED <<config, items, tags, sent, item, existing, attempt, ingested>>
  ELSE Pass

\* The zone is not there, or the entry is and the strategy is to skip it.
Skip ==
  /\ Processing
  /\ ~HasContainer \/ (Exists /\ config.strategy = "skip")
  /\ Pass
  /\ UNCHANGED <<entries, own, denied>>

New == Append(entries, [key |-> Key, content |-> item, public |-> FALSE])

\* create_saved_query, create_selector.
Create ==
  /\ Processing
  /\ HasContainer
  /\ ~Exists
  /\ entries' = New
  /\ own' = own \cup {Len(New)}
  /\ Then(Len(New))
  /\ UNCHANGED denied

\* It is refused or lost, or it was carried out and its answer is lost.
CreateRaised ==
  /\ Processing
  /\ HasContainer
  /\ ~Exists
  /\ \/ Raised(entries, own, denied)
     \/ Raised(New, own \cup {Len(New)}, denied \cup {Len(New)})

Written(id) == [entries EXCEPT ![id].content = item]

\* update_saved_query, update_selector.
Overwrite ==
  /\ Processing
  /\ HasContainer
  /\ Exists
  /\ config.strategy = "overwrite"
  /\ entries' = Written(existing[Key])
  /\ Then(existing[Key])
  /\ UNCHANGED <<own, denied>>

OverwriteRaised ==
  /\ Processing
  /\ HasContainer
  /\ Exists
  /\ config.strategy = "overwrite"
  /\ \E es \in {entries, Written(existing[Key])} : Raised(es, own, denied)

\* set_query_permissions.
Permitted == [entries EXCEPT ![created].public = TRUE]

Permit ==
  /\ pc = "permit"
  /\ entries' = Permitted
  /\ denied' = denied \ {created}
  /\ Pass
  /\ UNCHANGED own

PermitRaised ==
  /\ pc = "permit"
  /\ \E es \in {entries, Permitted} :
       Raised(es, own, IF created \in own /\ es = entries THEN denied \cup {created} ELSE denied)

---------------------------------------------------------------------------
(* The load. *)

\* Mutant: batches are counted as if they were full.
BatchDonePastEnd ==
  /\ pc = "items"
  /\ item = BatchEnd + 1
  /\ sent' = sent + BatchSize
  /\ item' = sent + BatchSize
  /\ pc' = IF sent + BatchSize < Len(items) THEN "load" ELSE "returned"
  /\ existing' = NoneRead
  /\ UNCHANGED <<config, items, tags, entries, created, attempt, own, denied, ingested>>

BatchDone ==
  /\ pc = "items"
  /\ item = BatchEnd + 1
  /\ sent' = BatchEnd
  /\ item' = BatchEnd
  /\ pc' = "load"
  /\ existing' = NoneRead
  /\ UNCHANGED <<config, items, tags, entries, created, attempt, own, denied, ingested>>

\* ingest: one request for the nodes and edges of the batch.
Ingest ==
  /\ pc = "load"
  /\ config.dest = "ingest"
  /\ sent < Len(items)
  /\ ingested' = ingested \cup ((sent + 1)..BatchEnd)
  /\ \/ /\ sent' = BatchEnd
        /\ item' = BatchEnd
        /\ UNCHANGED <<pc, attempt>>
     \/ /\ pc' = IF attempt < MaxAttempts THEN "load" ELSE "failed"
        /\ attempt' = IF attempt < MaxAttempts THEN attempt + 1 ELSE attempt
        /\ UNCHANGED <<sent, item>>
  /\ UNCHANGED <<config, items, tags, entries, existing, created, own, denied>>

IngestRaised ==
  /\ pc = "load"
  /\ config.dest = "ingest"
  /\ sent < Len(items)
  /\ Raised(entries, own, denied)

Return ==
  /\ pc = "load"
  /\ sent = Len(items)
  /\ pc' = "returned"
  /\ UNCHANGED <<config, items, tags, entries, sent, item, existing, created, attempt, own,
                 denied, ingested>>

\* Another user makes an entry.
OtherUser ==
  /\ pc \notin {"returned", "failed"}
  /\ Cardinality(DOMAIN entries \ own) < MaxOthers
  /\ \E k \in Keys :
       /\ k.container \in tags
       /\ entries' = Append(entries, [key |-> k, content |-> 0, public |-> FALSE])
  /\ UNCHANGED <<config, items, tags, pc, sent, item, existing, created, attempt, own,
                 denied, ingested>>

Batch == ReadExisting \/ ReadRaised \/ Skip \/ Create \/ CreateRaised \/ Overwrite
         \/ OverwriteRaised \/ Permit \/ PermitRaised \/ BatchDone
Next == Batch \/ Ingest \/ IngestRaised \/ Return \/ OtherUser

Spec == Init /\ [][Next]_vars

---------------------------------------------------------------------------
(* Properties. *)

SameBatch(i, j) == (i - 1) \div BatchSize = (j - 1) \div BatchSize

\* A load makes one entry for a key, however often a batch is begun again after
\* a create that was carried out unnoticed.  There may be two for a key that is
\* twice in one batch, or of a zone when the first of them lies beyond the
\* selectors of that zone that one request returns.
CreatedOnce ==
  \A e, f \in own :
    e < f /\ entries[e].key = entries[f].key =>
      \/ \E i, j \in DOMAIN items : i # j /\ SameBatch(i, j) /\ items[i] = items[j]
                                    /\ items[i] = entries[e].key
      \/ e \notin Visible(entries[e].key.container)

\* When the load returns, everything that has a container is there, and what was
\* to be overwritten has the content of its last item.
EveryItemArrives ==
  pc = "returned" =>
    IF config.dest = "ingest" THEN ingested = DOMAIN items
    ELSE \A i \in DOMAIN items : items[i].container \in tags =>
           \E e \in DOMAIN entries :
             /\ entries[e].key = items[i]
             /\ config.strategy = "overwrite" =>
                  \E j \in i..Len(items) : items[j] = items[i] /\ entries[e].content = j

\* However often a batch is begun again: nothing is left out and nothing made twice.
ItemsArriveOnce == CreatedOnce /\ EveryItemArrives

\* A search that this load has created is public if searches are to be, but for
\* one whose create or permissions raised: the next attempt finds it and, under
\* skip, leaves it as it is.  Of two entries of one name only one is looked after.
PublicAsAsked ==
  pc = "returned" /\ config.public =>
    \A e \in own : entries[e].public \/ (config.strategy = "skip" /\ e \in denied)
                   \/ \E f \in DOMAIN entries \ {e} : entries[f].key = entries[e].key

=============================================================================
