-------------------------------- MODULE Nosql --------------------------------
(***************************************************************************)
(* Key-value tables (services/nosql): one table name and its items, over   *)
(* the backends inmem, etcd, gcp (Firestore), azure (Cosmos tables) and    *)
(* aws (DynamoDB), behind the frontends aws_dynamodb, gcp_firestore and    *)
(* azure_cosmos_tables.                                                    *)
(*                                                                         *)
(* inmem works under a mutex.  Of the others, etcd and gcp have no tables: *)
(* a table is a metadata record, and the items under its name are stored   *)
(* whether or not it is there.  azure has tables and keeps the schema and  *)
(* the tags in a metadata entity beside them.  aws has tables with both.   *)
(* Every remote call is a step, and a request may end after any of them,   *)
(* because a call fails or the shim dies.                                  *)
(*                                                                         *)
(* A schema names the attributes that make the key of an item; every       *)
(* schema here has a sort key.  An item under one schema and the same item *)
(* under another have different keys: a location is <<schema, key>>.       *)
(***************************************************************************)
EXTENDS Naturals, FiniteSets

CONSTANTS
    Backends,       \* the backends to explore
    Clients,        \* requests in progress at a time
    Schemas,        \* schemas a table may be created with
    CosmosSchema,   \* PartitionKey and RowKey, the schema of the azure frontend
    NoSchema,       \* the schema of a metadata record that has none
    Keys, Tags,
    MaxTables,      \* bound: how often the table is created
    None

ASSUME CosmosSchemaAssumption == CosmosSchema \in Schemas
ASSUME NoneAssumption == None \notin Clients /\ NoSchema \notin Schemas /\ None \notin Schemas
ASSUME NoneIsNoAnswer == None # "ok"

VARIABLES
    backend,    \* fixed when the shim starts
    meta,       \* the table's schema and tags
    native,     \* azure: the table itself exists
    items,      \* the items stored under the table's name, with the table they were put in
    life,       \* history: how many tables the name has had
    req,        \* per client, the request it is in
    alone,      \* history: the running client whose request no other overlapped
    mixed,      \* history: a table was created or deleted while something else was written
    acked,      \* history: locations of items that nobody asked to remove since they were put
    answer      \* history: "ok" when the last step answered a request that ran alone

nosqlVars == <<backend, meta, native, items, life, req, alone, mixed, acked, answer>>

Locations == Schemas \X Keys
At(l) == {i \in items : i.loc = l}
Idle == [op |-> "idle"]
Exists == IF backend = "azure" THEN native ELSE meta # None

NosqlInit ==
    /\ backend \in Backends
    /\ meta = None
    /\ native = FALSE
    /\ items = {}
    /\ life = 0
    /\ req = [c \in Clients |-> Idle]
    /\ alone = None
    /\ mixed = FALSE
    /\ acked = {}
    /\ answer = None

-----------------------------------------------------------------------------
(* Requests.  at is the call a request makes next; "front" is the look at  *)
(* the table some frontends take before they call the backend.             *)

Create(s, t) == [op |-> "create", at |-> "first", schema |-> s, tags |-> t]
Delete(at, force) == [op |-> "delete", at |-> at, force |-> force, left |-> {}]
Put(at, k) == [op |-> "put", at |-> at, key |-> k, shape |-> None, schema |-> None, life |-> 0]
Remove(k) == [op |-> "remove", at |-> "front", key |-> k, schema |-> None]
Tag(at, edit, t) == [op |-> "tag", at |-> at, edit |-> edit, want |-> t, meta |-> None, left |-> {}]

Running(c) == {d \in Clients \ {c} : req[d] # Idle}
Lifecycle == {"create", "delete"}
Clash(p, q) == /\ p.op \in Lifecycle \/ q.op \in Lifecycle
               /\ p.op # "remove" /\ q.op # "remove"

Begin(c, r) ==
    /\ r.op = "create" => life + Cardinality({d \in Clients : req[d].op = "create"}) < MaxTables
    /\ req' = [req EXCEPT ![c] = r]
    /\ alone' = IF Running(c) = {} THEN c ELSE None
    /\ mixed' = (mixed \/ \E d \in Running(c) : Clash(r, req[d]))
    /\ acked' = CASE r.op = "remove" -> {l \in acked : l[2] # r.key}
                  [] r.op = "delete" /\ r.force -> {}
                  [] OTHER -> acked
    /\ answer' = None
    /\ UNCHANGED <<backend, meta, native, items, life>>

Goes(c, r) ==
    /\ req' = [req EXCEPT ![c] = r]
    /\ alone' = alone
    /\ answer' = None
Ends(c, res) ==
    /\ req' = [req EXCEPT ![c] = Idle]
    /\ alone' = None
    /\ answer' = IF alone = c THEN res ELSE None
Untouched == UNCHANGED <<backend, mixed>>
Fails(c) ==
    /\ Ends(c, None)
    /\ Untouched /\ UNCHANGED <<meta, native, items, life, acked>>
Reads(c, r) ==
    /\ Goes(c, r)
    /\ Untouched /\ UNCHANGED <<meta, native, items, life, acked>>

\* DynamoDB: a table goes with its items, and tags are merged or removed.
Dynamodb(c) ==
    /\ req[c] = Idle
    /\ \/ \E s \in Schemas, t \in SUBSET Tags : Begin(c, Create(s, t))
       \/ Begin(c, Delete("front", TRUE))
       \/ \E k \in Keys : Begin(c, Put("first", k)) \/ Begin(c, Remove(k))
       \/ \E e \in {"add", "drop"}, t \in Tags : Begin(c, Tag("front", e, {t}))

\* Firestore: a table with items is not deleted, and tags are replaced.
Firestore(c) ==
    /\ req[c] = Idle
    /\ \/ \E s \in Schemas, t \in SUBSET Tags : Begin(c, Create(s, t))
       \/ Begin(c, Delete("first", FALSE))
       \/ \E k \in Keys : Begin(c, Put("first", k)) \/ Begin(c, Remove(k))
       \/ \E t \in SUBSET Tags : Begin(c, Tag("first", "set", t))

\* Cosmos tables: one schema, no tags, and entities are read by the schema.
Cosmos(c) ==
    /\ req[c] = Idle
    /\ \/ Begin(c, Create(CosmosSchema, {}))
       \/ Begin(c, Delete("first", TRUE))
       \/ \E k \in Keys : Begin(c, Put("front", k)) \/ Begin(c, Remove(k))

\* The tags GetTable tells: on aws they are listed with another call, and
\* there are none if that fails.
TagsSeen == IF backend = "aws" THEN {meta.tags, {}} ELSE {meta.tags}
Edited(r, seen) ==
    [r EXCEPT !.at = "first", !.want = IF r.edit = "add" THEN seen \cup r.want ELSE seen \ r.want]
FrontRead(c) ==
    LET r == req[c] IN
    /\ r # Idle /\ r.at = "front"
    /\ IF meta = None THEN Fails(c)
       ELSE IF r.op = "tag" THEN \E seen \in TagsSeen : Reads(c, Edited(r, seen))
       ELSE Reads(c, CASE r.op = "delete" -> [r EXCEPT !.at = "first"]
                       [] r.op = "put"    -> [r EXCEPT !.at = "first", !.shape = meta.schema]
                       [] r.op = "remove" -> [r EXCEPT !.at = "first", !.schema = meta.schema])

-----------------------------------------------------------------------------
(* Creating and deleting the table *)

Is(c, op, at, b) == req[c].op = op /\ req[c].at = at /\ backend \in b

NewTable(r) == [schema |-> r.schema, tags |-> r.tags]

\* One call that fails when the table is there: under the mutex, in an etcd
\* transaction, by Firestore's create and by DynamoDB.
CreateTable(c) ==
    /\ Is(c, "create", "first", {"inmem", "etcd", "gcp", "aws"})
    /\ IF meta # None THEN Fails(c)
       ELSE /\ meta' = NewTable(req[c])
            /\ life' = life + 1
            /\ Ends(c, "ok")
            /\ Untouched /\ UNCHANGED <<native, items, acked>>

\* azure: first the table ...
AzureCreateTable(c) ==
    /\ Is(c, "create", "first", {"azure"})
    /\ IF native THEN Fails(c)
       ELSE /\ native' = TRUE
            /\ life' = life + 1
            /\ Goes(c, [req[c] EXCEPT !.at = "meta"])
            /\ Untouched /\ UNCHANGED <<meta, items, acked>>

\* An upsert merges the entity it is given into the one that is there, and
\* an entity without tags does not mention them: old ones stay.
Upserted(m) == IF meta # None /\ m.tags = {} THEN [m EXCEPT !.tags = meta.tags] ELSE m

\* ... then its metadata, merged into any that is left from before.
AzureAddMetadata(c) ==
    /\ Is(c, "create", "meta", {"azure"})
    /\ meta' = Upserted(NewTable(req[c]))
    /\ Ends(c, "ok")
    /\ Untouched /\ UNCHANGED <<native, items, life, acked>>

\* Mutation: a table is deleted whatever it holds.
MayDeleteAny(r) == TRUE
MayDelete(r) == r.force \/ items = {}

InmemDeleteTable(c) ==
    /\ Is(c, "delete", "first", {"inmem"})
    /\ IF meta = None \/ ~MayDelete(req[c]) THEN Fails(c)
       ELSE /\ meta' = None
            /\ items' = {}
            /\ Ends(c, "ok")
            /\ Untouched /\ UNCHANGED <<native, life, acked>>

\* etcd: look for the table, then look for items or delete all of them, then
\* delete the metadata.
EtcdDeleteRead(c) ==
    /\ Is(c, "delete", "first", {"etcd"})
    /\ IF meta = None THEN Fails(c)
       ELSE Reads(c, [req[c] EXCEPT !.at = IF req[c].force THEN "drain" ELSE "check"])
EtcdDeleteCheck(c) ==
    /\ Is(c, "delete", "check", {"etcd"})
    /\ IF items # {} THEN Fails(c) ELSE Reads(c, [req[c] EXCEPT !.at = "drop"])
EtcdDrain(c) ==
    /\ Is(c, "delete", "drain", {"etcd"})
    /\ items' = {}
    /\ Goes(c, [req[c] EXCEPT !.at = "drop"])
    /\ Untouched /\ UNCHANGED <<meta, native, life, acked>>
EtcdDrop(c) ==
    /\ Is(c, "delete", "drop", {"etcd"})
    /\ meta' = None
    /\ Ends(c, "ok")
    /\ Untouched /\ UNCHANGED <<native, items, life, acked>>

\* gcp: look for items without looking for the table; list them and delete
\* them one by one; delete the metadata.
GcpDeleteCheck(c) ==
    /\ Is(c, "delete", "first", {"gcp"})
    /\ IF ~MayDelete(req[c]) THEN Fails(c)
       ELSE Reads(c, [req[c] EXCEPT !.at = IF items = {} THEN "drop" ELSE "list"])
Listed(r, at) == [r EXCEPT !.left = {i.loc : i \in items},
                           !.at = IF items = {} THEN "drop" ELSE at]
GcpList(c) ==
    /\ Is(c, "delete", "list", {"gcp"})
    /\ Reads(c, Listed(req[c], "drain"))
Next1(left) == CHOOSE l \in left : TRUE
\* Mutation: the first item ends the loop.
DrainedOne(r) == [r EXCEPT !.left = {}, !.at = "drop"]
Drained(r) == LET left == r.left \ {Next1(r.left)} IN
              [r EXCEPT !.left = left, !.at = IF left = {} THEN "drop" ELSE "drain"]
GcpDrain(c) ==
    /\ Is(c, "delete", "drain", {"gcp"})
    /\ items' = items \ At(Next1(req[c].left))
    /\ Goes(c, Drained(req[c]))
    /\ Untouched /\ UNCHANGED <<meta, native, life, acked>>
GcpDrop(c) ==
    /\ Is(c, "delete", "drop", {"gcp"})
    /\ IF meta = None THEN Fails(c)
       ELSE /\ meta' = None
            /\ Ends(c, "ok")
            /\ Untouched /\ UNCHANGED <<native, items, life, acked>>

\* azure: the same with entities, where deleting one that is gone is an
\* error; the table goes with what it holds, and then its metadata, unless
\* that call fails, which nobody notices.
AzureDeleteList(c) ==
    /\ Is(c, "delete", "first", {"azure"})
    /\ IF ~native \/ ~MayDelete(req[c]) THEN Fails(c) ELSE Reads(c, Listed(req[c], "drain"))
AzureDrain(c) ==
    /\ Is(c, "delete", "drain", {"azure"})
    /\ IF ~native \/ At(Next1(req[c].left)) = {} THEN Fails(c)
       ELSE /\ items' = items \ At(Next1(req[c].left))
            /\ Goes(c, Drained(req[c]))
            /\ Untouched /\ UNCHANGED <<meta, native, life, acked>>
AzureDrop(c) ==
    /\ Is(c, "delete", "drop", {"azure"})
    /\ IF ~native THEN Fails(c)
       ELSE /\ native' = FALSE
            /\ items' = {}
            /\ Goes(c, [req[c] EXCEPT !.at = "meta"])
            /\ Untouched /\ UNCHANGED <<meta, life, acked>>
AzureDropMetadata(c) ==
    /\ Is(c, "delete", "meta", {"azure"})
    /\ meta' \in {None, meta}
    /\ Ends(c, "ok")
    /\ Untouched /\ UNCHANGED <<native, items, life, acked>>

\* aws: an unforced deletion looks for items first; DynamoDB deletes a table
\* with what it holds.
AwsDeleteCheck(c) ==
    /\ Is(c, "delete", "first", {"aws"})
    /\ ~req[c].force
    /\ IF meta = None \/ ~MayDelete(req[c]) THEN Fails(c)
       ELSE Reads(c, [req[c] EXCEPT !.at = "drop"])
AwsDeleteTable(c) ==
    /\ Is(c, "delete", IF req[c].op = "delete" /\ req[c].force THEN "first" ELSE "drop", {"aws"})
    /\ IF meta = None THEN Fails(c)
       ELSE /\ meta' = None
            /\ items' = {}
            /\ Ends(c, "ok")
            /\ Untouched /\ UNCHANGED <<native, life, acked>>

-----------------------------------------------------------------------------
(* Items *)

\* The table's key attributes are there and the item has them.
HasKey(r) == meta.schema # NoSchema /\ r.shape \in {None, meta.schema}

\* Nobody is removing the item, so that its put is the last word on it.
Contested(c, k) == \E d \in Running(c) : \/ req[d].op = "remove" /\ req[d].key = k
                                         \/ req[d].op = "delete" /\ req[d].force
Stores(c, s, k, n) ==
    /\ items' = (items \ At(<<s, k>>)) \cup {[loc |-> <<s, k>>, life |-> n]}
    /\ acked' = IF Contested(c, k) THEN acked ELSE acked \cup {<<s, k>>}
    /\ Ends(c, "ok")
    /\ Untouched /\ UNCHANGED <<meta, native, life>>

\* inmem and DynamoDB: schema, key and item in one step.
PutItem(c) ==
    /\ Is(c, "put", "first", {"inmem", "aws"})
    /\ IF meta = None \/ ~HasKey(req[c]) THEN Fails(c)
       ELSE Stores(c, meta.schema, req[c].key, life)

\* The others read the schema, and write by it with the next call; only
\* azure needs the table for that.
PutItemRead(c) ==
    /\ Is(c, "put", "first", {"etcd", "gcp", "azure"})
    /\ IF meta = None \/ ~HasKey(req[c]) THEN Fails(c)
       ELSE Reads(c, [req[c] EXCEPT !.at = "write", !.schema = meta.schema, !.life = life])
PutItemWrite(c) ==
    /\ Is(c, "put", "write", {"etcd", "gcp", "azure"})
    /\ IF backend = "azure" /\ ~native THEN Fails(c)
       ELSE Stores(c, req[c].schema, req[c].key, req[c].life)

\* An item that is not there is NoSuchItem, success for the DynamoDB frontend.
Removes(c) ==
    /\ items' = items \ At(<<req[c].schema, req[c].key>>)
    /\ Ends(c, "ok")
    /\ Untouched /\ UNCHANGED <<meta, native, life, acked>>
DeleteItem(c) ==
    /\ Is(c, "remove", "first", {"inmem"})
    /\ IF meta = None THEN Fails(c) ELSE Removes(c)
DeleteItemRead(c) ==
    /\ Is(c, "remove", "first", {"etcd", "gcp", "azure", "aws"})
    /\ IF meta = None THEN Fails(c) ELSE Reads(c, [req[c] EXCEPT !.at = "write"])
DeleteItemWrite(c) ==
    /\ Is(c, "remove", "write", {"etcd", "gcp", "azure", "aws"})
    /\ IF \/ backend = "azure" /\ ~native
          \/ backend = "aws" /\ (meta = None \/ meta.schema # req[c].schema)
       THEN Fails(c) ELSE Removes(c)

-----------------------------------------------------------------------------
(* Tags *)

SetsMeta(c, m) ==
    /\ meta' = m
    /\ Ends(c, "ok")
    /\ Untouched /\ UNCHANGED <<native, items, life, acked>>

UpdateTableTags(c) ==
    /\ Is(c, "tag", "first", {"inmem"})
    /\ IF meta = None THEN Fails(c) ELSE SetsMeta(c, [meta EXCEPT !.tags = req[c].want])

\* etcd, azure and gcp read the metadata, change the tags in what they read,
\* and write it back.
TagsRead(c) ==
    /\ Is(c, "tag", "first", {"etcd", "gcp", "azure"})
    /\ IF meta = None THEN Fails(c)
       ELSE Reads(c, [req[c] EXCEPT !.at = "write", !.meta = meta])
Retagged(m, r) == [m EXCEPT !.tags = r.want]

\* The transaction of etcd goes through when there is metadata, whichever.
EtcdTagsWrite(c) ==
    /\ Is(c, "tag", "write", {"etcd"})
    /\ IF meta = None THEN Fails(c) ELSE SetsMeta(c, Retagged(req[c].meta, req[c]))
\* An upsert writes the metadata whether or not there is any.
AzureTagsWrite(c) ==
    /\ Is(c, "tag", "write", {"azure"})
    /\ SetsMeta(c, Upserted(Retagged(req[c].meta, req[c])))
\* A patch of the tags alone, which makes the document when there is none.
\* Mutation: the patch has no update mask.
GcpPatchedWhole(r) == Retagged(r.meta, r)
GcpPatched(r) == IF meta = None THEN [schema |-> NoSchema, tags |-> r.want]
                 ELSE Retagged(meta, r)
GcpTagsWrite(c) ==
    /\ Is(c, "tag", "write", {"gcp"})
    /\ SetsMeta(c, GcpPatched(req[c]))

\* aws: list the tags, remove those not wanted, add those wanted.
\* Mutation: tags are only added.
AwsUnwantedNone(r) == {}
AwsUnwanted(r) == meta.tags \ r.want
AwsListTags(c) ==
    /\ Is(c, "tag", "first", {"aws"})
    /\ IF meta = None THEN Fails(c)
       ELSE Reads(c, [req[c] EXCEPT !.at = "untag", !.left = AwsUnwanted(req[c])])
AwsUntag(c) ==
    /\ Is(c, "tag", "untag", {"aws"})
    /\ IF req[c].left # {} /\ meta = None THEN Fails(c)
       ELSE /\ meta' = IF req[c].left = {} THEN meta ELSE [meta EXCEPT !.tags = @ \ req[c].left]
            /\ Goes(c, [req[c] EXCEPT !.at = "retag"])
            /\ Untouched /\ UNCHANGED <<native, items, life, acked>>
AwsRetag(c) ==
    /\ Is(c, "tag", "retag", {"aws"})
    /\ IF req[c].want # {} /\ meta = None THEN Fails(c)
       ELSE SetsMeta(c, IF req[c].want = {} THEN meta ELSE [meta EXCEPT !.tags = @ \cup req[c].want])

\* A call fails, or the shim dies: the request ends where it is.
Crash(c) ==
    /\ backend # "inmem"
    /\ req[c] # Idle
    /\ Fails(c)

-----------------------------------------------------------------------------
Step(c) ==
    \/ FrontRead(c) \/ CreateTable(c) \/ AzureCreateTable(c) \/ AzureAddMetadata(c)
    \/ InmemDeleteTable(c)
    \/ EtcdDeleteRead(c) \/ EtcdDeleteCheck(c) \/ EtcdDrain(c) \/ EtcdDrop(c)
    \/ GcpDeleteCheck(c) \/ GcpList(c) \/ GcpDrain(c) \/ GcpDrop(c)
    \/ AzureDeleteList(c) \/ AzureDrain(c) \/ AzureDrop(c) \/ AzureDropMetadata(c)
    \/ AwsDeleteCheck(c) \/ AwsDeleteTable(c)
    \/ PutItem(c) \/ PutItemRead(c) \/ PutItemWrite(c)
    \/ DeleteItem(c) \/ DeleteItemRead(c) \/ DeleteItemWrite(c)
    \/ UpdateTableTags(c) \/ TagsRead(c)
    \/ EtcdTagsWrite(c) \/ AzureTagsWrite(c) \/ GcpTagsWrite(c)
    \/ AwsListTags(c) \/ AwsUntag(c) \/ AwsRetag(c)

NosqlNext == \E c \in Clients : Dynamodb(c) \/ Firestore(c) \/ Cosmos(c) \/ Step(c) \/ Crash(c)

NosqlSpec == NosqlInit /\ [][NosqlNext]_nosqlVars

-----------------------------------------------------------------------------
MetaType == [schema : Schemas \cup {NoSchema}, tags : SUBSET Tags]
ItemType == [loc : Locations, life : 1..MaxTables]
ASSUME MetaAssumption == None \notin MetaType

\* Only a gcp table can be without a schema, only azure has tables apart
\* from their metadata, and each location holds one item, put in under a
\* schema the table has had.
NosqlTypeOK ==
    /\ meta \in MetaType \cup {None}
    /\ meta # None /\ meta.schema = NoSchema => backend = "gcp"
    /\ native => backend = "azure"
    /\ items \subseteq ItemType
    /\ \A l \in Locations : Cardinality(At(l)) <= 1
    /\ life \in 0..MaxTables
    /\ acked \subseteq Locations

\* What a request that was answered with success was asked to do.  The
\* azure backend does not notice when it cannot delete the metadata, and
\* removes no tags by writing none.
TagsDone(t) == meta.tags = t \/ (backend = "azure" /\ t = {})
Done(r) ==
    CASE r.op = "create" -> Exists /\ meta # None /\ meta.schema = r.schema /\ TagsDone(r.tags)
      [] r.op = "delete" -> /\ ~Exists /\ items = {}
                            /\ backend # "azure" => meta = None
      [] r.op = "put"    -> meta # None /\ At(<<meta.schema, r.key>>) # {}
      [] r.op = "remove" -> At(<<r.schema, r.key>>) = {}
      [] r.op = "tag"    -> meta # None /\ TagsDone(r.want)

\* A request that no other request overlapped and that was answered with
\* success has done what it was asked for, however many calls of whichever
\* backend that took, and whatever state earlier requests that failed half
\* way or raced had left behind (DeleteTable's drain loops, UpdateTableTags'
\* untag and tag, CreateTable's two writes).  Of tags it is what the backend
\* was asked to set.  Not claimed of azure: that a table asked for
\* without tags, or to lose all of them, has none.
AnsweredIsDone ==
    [][\A c \in Clients : \A r \in {req[c]} :
         alone = c /\ answer' = "ok" => Done(r)']_nosqlVars

\* Unless the table was created, deleted or tagged while something else was
\* written, and on inmem and aws always, the items found under the table's
\* name were put into this table and under its schema: no item of a
\* deleted table shows in a new one or outlives it.
ItemsBelong ==
    backend \in {"inmem", "aws"} \/ ~mixed =>
        \A i \in items : Exists /\ i.life = life /\ meta # None /\ i.loc[1] = meta.schema

\* The schema of a table is what it was created with: changing the tags of
\* inmem, gcp and aws never changes it, even with the table deleted and
\* created again meanwhile.
SchemaFixed ==
    [][meta # None /\ meta' # None /\ backend \in {"inmem", "gcp", "aws"}
         => meta.schema' = meta.schema]_nosqlVars

\* Only a DeleteItem or a forced DeleteTable ever takes an item away: on
\* inmem, etcd and gcp, an item whose put was answered is there until
\* somebody asks for one of these, also when an unforced DeleteTable that
\* found the table empty races with the put.
AckedKept ==
    backend \in {"inmem", "etcd", "gcp"} => \A l \in acked : At(l) # {}
==============================================================================
