----------------------------- MODULE NosqlProofs -----------------------------
(***************************************************************************)
(* Four properties of the key-value tables for any clients, schemas, keys, *)
(* tags and number of tables: no acknowledged item is lost by inmem, etcd  *)
(* and gcp, tagging does not change a schema on inmem, gcp and aws, what   *)
(* is stored was put into this very table, and a request that ran alone    *)
(* and was answered with success has done what it was asked for.           *)
(***************************************************************************)
EXTENDS Nosql, TLAPS

AnyLocation == (Schemas \cup {NoSchema, None}) \X Keys

\* What requests look like; Idle among them.
CreateType == [op : {"create"}, at : {"first", "meta"}, schema : Schemas, tags : SUBSET Tags]
DeleteType == [op : {"delete"}, at : {"front", "first", "check", "list", "drain", "drop", "meta"},
               force : BOOLEAN, left : SUBSET AnyLocation]
PutType == [op : {"put"}, at : {"front", "first", "write"}, key : Keys,
            shape : Schemas \cup {NoSchema, None}, schema : Schemas \cup {NoSchema, None}, life : Nat]
RemoveType == [op : {"remove"}, at : {"front", "first", "write"}, key : Keys,
               schema : Schemas \cup {NoSchema, None}]
TagType == [op : {"tag"}, at : {"front", "first", "write", "untag", "retag"},
            edit : {"add", "drop", "set"}, want : SUBSET Tags,
            meta : MetaType \cup {None}, left : SUBSET Tags]
ReqType == CreateType \cup DeleteType \cup PutType \cup RemoveType \cup TagType \cup {Idle}

\* The types of requests, metadata and items.
TypeInv ==
    /\ req \in [Clients -> ReqType]
    /\ meta \in MetaType \cup {None}
    /\ \A c \in Clients : req[c].op = "tag" /\ req[c].at = "write" => req[c].meta \in MetaType
    /\ \A i \in items : i.loc \in AnyLocation
    /\ life \in Nat

\* Why nothing acknowledged is lost: a request that is going to take items
\* away has, from its beginning, kept them out of acked, and the drain
\* loops of etcd and gcp only run for a forced deletion.
AckInv ==
    backend \in {"inmem", "etcd", "gcp"} =>
      /\ \A l \in acked : At(l) # {}
      /\ \A c \in Clients : req[c].op = "remove" => \A l \in acked : l[2] # req[c].key
      /\ \A c \in Clients : req[c].op = "delete" /\ req[c].force => acked = {}
      /\ \A c \in Clients : req[c].op = "delete" /\ req[c].at \in {"list", "drain"} => req[c].force

NosqlInv == TypeInv /\ AckInv

(* Every request a frontend makes is typed, and starts before it reads. *)
LEMMA Beginnings ==
    ASSUME NEW c \in Clients, Dynamodb(c) \/ Firestore(c) \/ Cosmos(c)
    PROVE  \E r \in ReqType : r # Idle /\ r.at \in {"front", "first"} /\ Begin(c, r)
<1> DEFINE OK(r) == r \in ReqType /\ r # Idle /\ r.at \in {"front", "first"}
<1>1. ASSUME NEW s \in Schemas, NEW t \in SUBSET Tags PROVE OK(Create(s, t))
  BY DEF Create, ReqType, CreateType, Idle
<1>2. OK(Delete("front", TRUE)) /\ OK(Delete("first", TRUE)) /\ OK(Delete("first", FALSE))
  BY DEF Delete, ReqType, DeleteType, Idle
<1>3. ASSUME NEW k \in Keys PROVE OK(Put("front", k)) /\ OK(Put("first", k)) /\ OK(Remove(k))
  BY DEF Put, Remove, ReqType, PutType, RemoveType, Idle
<1>4. ASSUME NEW e \in {"add", "drop"}, NEW t \in Tags PROVE OK(Tag("front", e, {t}))
  BY DEF Tag, ReqType, TagType, Idle
<1>5. ASSUME NEW t \in SUBSET Tags PROVE OK(Tag("first", "set", t))
  BY DEF Tag, ReqType, TagType, Idle
<1>6. \E r : OK(r) /\ Begin(c, r)
  <2> HIDE DEF OK
  <2>1. CASE Dynamodb(c)
    BY <2>1, <1>1, <1>2, <1>3, <1>4 DEF Dynamodb
  <2>2. CASE Firestore(c)
    BY <2>2, <1>1, <1>2, <1>3, <1>5 DEF Firestore
  <2>3. CASE Cosmos(c)
    BY <2>3, <1>1, <1>2, <1>3, CosmosSchemaAssumption DEF Cosmos
  <2> QED BY <2>1, <2>2, <2>3
<1> QED BY <1>6

(* A request that makes a call is none of the idle ones, and its kind tells *)
(* what it looks like.                                                      *)
LEMMA Kinds ==
    ASSUME NEW r \in ReqType
    PROVE  /\ r.op = "create" => r \in CreateType
           /\ r.op = "delete" => r \in DeleteType
           /\ r.op = "put" => r \in PutType
           /\ r.op = "remove" => r \in RemoveType
           /\ r.op = "tag" => r \in TagType
           /\ r.op \in {"create", "delete", "put", "remove", "tag"} => r # Idle
           /\ r # Idle => r.op \in {"create", "delete", "put", "remove", "tag"}
BY DEF ReqType, CreateType, DeleteType, PutType, RemoveType, TagType, Idle

(* Nothing has been put yet. *)
LEMMA NosqlInvInit == NosqlInit => NosqlInv
BY DEF NosqlInit, NosqlInv, TypeInv, AckInv, ReqType, Idle

-----------------------------------------------------------------------------
(* How a request may go on: it stays what it is, and a deletion reaches     *)
(* the calls that drain only when it is forced.                             *)
Continues(r, q) ==
    \/ q = Idle
    \/ /\ q \in ReqType /\ q.op = r.op
       /\ q.op = "tag" /\ q.at = "write" => q.meta \in MetaType
       /\ q.op = "remove" => q.key = r.key
       /\ q.op = "delete" => q.force = r.force

Drains(q) == q.op = "delete" /\ q.at \in {"list", "drain"} => q.force

(* TypeInv only needs a request that goes on in type, and writes that are  *)
(* typed.                                                                   *)
LEMMA TypeKept ==
    ASSUME TypeInv, NEW c \in Clients, NEW q, Continues(req[c], q),
           req' = [req EXCEPT ![c] = q],
           meta' \in MetaType \cup {None}, life' \in Nat,
           \A i \in items' : i.loc \in AnyLocation
    PROVE  TypeInv'
<1>1. q \in ReqType /\ (q.op = "tag" /\ q.at = "write" => q.meta \in MetaType)
  BY DEF Continues, ReqType, Idle
<1>2. req' \in [Clients -> ReqType]
  BY <1>1 DEF TypeInv
<1>3. ASSUME NEW d \in Clients, req'[d].op = "tag", req'[d].at = "write" PROVE req'[d].meta \in MetaType
  <2>1. CASE d = c
    BY <1>1, <1>3, <2>1 DEF TypeInv
  <2>2. CASE d # c
    <3>1. req'[d] = req[d]
      BY <2>2 DEF TypeInv
    <3> QED BY <1>3, <3>1 DEF TypeInv
  <2> QED BY <2>1, <2>2
<1> QED BY <1>2, <1>3 DEF TypeInv

(* AckInv survives a step that acknowledges nothing and takes nothing       *)
(* acknowledged away.                                                       *)
LEMMA AckKept ==
    ASSUME TypeInv, AckInv, NEW c \in Clients, NEW q, Continues(req[c], q),
           backend \in {"inmem", "etcd", "gcp"} => Drains(q),
           req' = [req EXCEPT ![c] = q],
           backend' = backend, acked' = acked,
           backend \in {"inmem", "etcd", "gcp"} =>
               \A l \in acked : \E i \in items' : i.loc = l
    PROVE  AckInv'
<1> SUFFICES ASSUME backend \in {"inmem", "etcd", "gcp"}
             PROVE  AckInv'
  BY DEF AckInv
<1>1. \A l \in acked' : At(l)' # {}
  BY DEF At
<1>2. ASSUME NEW d \in Clients
      PROVE  /\ req'[d].op = "remove" => \A l \in acked' : l[2] # req'[d].key
             /\ req'[d].op = "delete" /\ req'[d].force => acked' = {}
             /\ req'[d].op = "delete" /\ req'[d].at \in {"list", "drain"} => req'[d].force
  <2>1. CASE d # c
    <3>1. req'[d] = req[d]
      BY <2>1 DEF TypeInv
    <3> QED BY <3>1 DEF AckInv
  <2>2. CASE d = c
    <3>1. req'[d] = q
      BY <2>2 DEF TypeInv
    <3>2. CASE q = Idle
      BY <3>1, <3>2 DEF Idle
    <3>3. CASE q # Idle
      <4>1. /\ q.op = req[c].op /\ (q.op = "remove" => q.key = req[c].key)
            /\ q.op = "delete" => q.force = req[c].force
        BY <3>3 DEF Continues
      <4> QED BY <3>1, <4>1 DEF AckInv, Drains
    <3> QED BY <3>2, <3>3
  <2> QED BY <2>1, <2>2
<1> QED BY <1>1, <1>2 DEF AckInv

(* A step that keeps items and acked keeps both invariants.                 *)
LEMMA QuietStep ==
    ASSUME NosqlInv, NEW c \in Clients, NEW q, Continues(req[c], q),
           backend \in {"inmem", "etcd", "gcp"} => Drains(q),
           req' = [req EXCEPT ![c] = q],
           backend' = backend, acked' = acked, items' = items,
           meta' \in MetaType \cup {None}, life' \in Nat
    PROVE  NosqlInv'
<1>1. \A i \in items' : i.loc \in AnyLocation
  BY DEF NosqlInv, TypeInv
<1>2. backend \in {"inmem", "etcd", "gcp"} => \A l \in acked : \E i \in items' : i.loc = l
  BY DEF NosqlInv, AckInv, At
<1> QED BY <1>1, <1>2, TypeKept, AckKept DEF NosqlInv

-----------------------------------------------------------------------------
(* The steps that only read, and those that fail. *)
LEMMA FailStep ==
    ASSUME NosqlInv, NEW c \in Clients, Fails(c)
    PROVE  NosqlInv'
<1>1. Continues(req[c], Idle) /\ Drains(Idle)
  BY DEF Continues, Drains, Idle
<1> QED BY <1>1, QuietStep DEF Fails, Ends, Untouched, NosqlInv, TypeInv

LEMMA ReadStep ==
    ASSUME NosqlInv, NEW c \in Clients, NEW q, Reads(c, q), Continues(req[c], q),
           backend \in {"inmem", "etcd", "gcp"} => Drains(q)
    PROVE  NosqlInv'
BY QuietStep DEF Reads, Goes, Untouched, NosqlInv, TypeInv

(* The request of a client that makes a call is typed by its kind. *)
LEMMA Typed ==
    ASSUME NosqlInv, NEW c \in Clients
    PROVE  /\ req[c] \in ReqType
           /\ req[c].op = "create" => req[c] \in CreateType
           /\ req[c].op = "delete" => req[c] \in DeleteType
           /\ req[c].op = "put" => req[c] \in PutType
           /\ req[c].op = "remove" => req[c] \in RemoveType
           /\ req[c].op = "tag" => req[c] \in TagType
BY Kinds DEF NosqlInv, TypeInv

(* A deletion that goes to its next call. *)
LEMMA DeleteGoesOn ==
    ASSUME NosqlInv, NEW c \in Clients, req[c].op = "delete",
           NEW a \in {"first", "check", "list", "drain", "drop", "meta"},
           NEW left \in SUBSET AnyLocation,
           a \in {"list", "drain"} /\ backend \in {"inmem", "etcd", "gcp"} => req[c].force
    PROVE  /\ Continues(req[c], [req[c] EXCEPT !.at = a])
           /\ Continues(req[c], [req[c] EXCEPT !.left = left, !.at = a])
           /\ backend \in {"inmem", "etcd", "gcp"} =>
                Drains([req[c] EXCEPT !.at = a]) /\ Drains([req[c] EXCEPT !.left = left, !.at = a])
<1>1. req[c] \in DeleteType
  BY Typed
<1>2. /\ [req[c] EXCEPT !.at = a] \in DeleteType
      /\ [req[c] EXCEPT !.left = left, !.at = a] \in DeleteType
  BY <1>1 DEF DeleteType
<1>3. /\ [req[c] EXCEPT !.at = a].force = req[c].force
      /\ [req[c] EXCEPT !.left = left, !.at = a].force = req[c].force
      /\ [req[c] EXCEPT !.at = a].at = a
      /\ [req[c] EXCEPT !.left = left, !.at = a].at = a
  BY <1>1 DEF DeleteType
<1> QED BY <1>1, <1>2, <1>3 DEF Continues, Drains, ReqType, DeleteType

(* Metadata that an upsert leaves, and tags that GetTable tells.            *)
LEMMA UpsertedMeta ==
    ASSUME NosqlInv, NEW m \in MetaType
    PROVE  /\ Upserted(m) \in MetaType /\ Upserted(m) # None
           /\ Upserted(m).schema = m.schema
           /\ Upserted(m).tags = m.tags \/ m.tags = {}
<1>1. Upserted(m) \in MetaType /\ Upserted(m).schema = m.schema
      /\ (Upserted(m).tags = m.tags \/ m.tags = {})
  <2>1. meta # None => meta \in MetaType
    BY DEF NosqlInv, TypeInv
  <2>2. CASE meta # None /\ m.tags = {}
    BY <2>1, <2>2 DEF Upserted, MetaType
  <2>3. CASE ~(meta # None /\ m.tags = {})
    BY <2>3 DEF Upserted, MetaType
  <2> QED BY <2>2, <2>3
<1> QED BY <1>1, MetaAssumption

LEMMA EditedTags ==
    ASSUME NosqlInv, NEW c \in Clients, meta # None, req[c].op = "tag", NEW seen \in TagsSeen
    PROVE  /\ Edited(req[c], seen) \in TagType
           /\ Edited(req[c], seen).op = "tag" /\ Edited(req[c], seen).at = "first"
<1> DEFINE w == IF req[c].edit = "add" THEN seen \cup req[c].want ELSE seen \ req[c].want
<1>1. req[c] \in TagType /\ meta \in MetaType
  BY Typed DEF NosqlInv, TypeInv
<1>2. seen \in SUBSET Tags
  BY <1>1 DEF TagsSeen, MetaType
<1>3. w \in SUBSET Tags
  BY <1>1, <1>2 DEF TagType
<1>4. Edited(req[c], seen) = [req[c] EXCEPT !.at = "first", !.want = w]
  BY DEF Edited
<1> HIDE DEF w
<1> QED BY <1>1, <1>3, <1>4 DEF TagType

LEMMA FrontReadStep ==
    ASSUME NosqlInv, NEW c \in Clients, FrontRead(c)
    PROVE  NosqlInv'
<1>1. CASE meta = None
  BY <1>1, FailStep DEF FrontRead
<1>2. CASE meta # None
  <2>0. /\ meta \in MetaType /\ req[c] \in ReqType /\ req[c] # Idle
        /\ meta.schema \in Schemas \cup {NoSchema} /\ meta.tags \in SUBSET Tags
    BY <1>2, Typed DEF FrontRead, NosqlInv, TypeInv, MetaType
  <2>1. CASE req[c].op = "delete"
    <3>1. Reads(c, [req[c] EXCEPT !.at = "first"])
      BY <1>2, <2>1 DEF FrontRead
    <3>2. {} \in SUBSET AnyLocation
      OBVIOUS
    <3> QED BY <2>1, <3>1, <3>2, DeleteGoesOn, ReadStep
  <2>2. CASE req[c].op = "put"
    <3> DEFINE q == [req[c] EXCEPT !.at = "first", !.shape = meta.schema]
    <3>1. Reads(c, q)
      BY <1>2, <2>2 DEF FrontRead
    <3>2. req[c] \in PutType
      BY <2>2, Typed
    <3>3. q \in PutType
      BY <3>2, <2>0 DEF PutType
    <3>4. Continues(req[c], q) /\ Drains(q)
      BY <2>2, <3>3 DEF Continues, Drains, ReqType, PutType
    <3> QED BY <3>1, <3>4, ReadStep
  <2>3. CASE req[c].op = "remove"
    <3> DEFINE q == [req[c] EXCEPT !.at = "first", !.schema = meta.schema]
    <3>1. Reads(c, q)
      BY <1>2, <2>3 DEF FrontRead
    <3>2. req[c] \in RemoveType
      BY <2>3, Typed
    <3>3. q \in RemoveType /\ q.key = req[c].key
      BY <3>2, <2>0 DEF RemoveType
    <3>4. Continues(req[c], q) /\ Drains(q)
      BY <2>3, <3>3 DEF Continues, Drains, ReqType, RemoveType
    <3> QED BY <3>1, <3>4, ReadStep
  <2>4. CASE req[c].op = "tag"
    <3>1. PICK seen \in TagsSeen : Reads(c, Edited(req[c], seen))
      BY <1>2, <2>4 DEF FrontRead
    <3> DEFINE q == Edited(req[c], seen)
    <3>2. q \in TagType /\ q.op = "tag" /\ q.at = "first"
      BY <1>2, <2>4, EditedTags
    <3> HIDE DEF q
    <3>3. Continues(req[c], q) /\ Drains(q)
      BY <2>4, <3>2 DEF Continues, Drains, ReqType, TagType
    <3> QED BY <3>1, <3>3, ReadStep DEF q
  <2>5. req[c].op \in {"delete", "put", "remove", "tag"}
    <3>1. req[c].op = "create" => req[c].at # "front"
      BY Typed DEF CreateType
    <3> QED BY <2>0, <3>1, Kinds DEF FrontRead
  <2> QED BY <2>1, <2>2, <2>3, <2>4, <2>5
<1> QED BY <1>1, <1>2

-----------------------------------------------------------------------------
(* Creating and deleting the table *)
LEMMA CreateSteps ==
    ASSUME NosqlInv, NEW c \in Clients,
           CreateTable(c) \/ AzureCreateTable(c) \/ AzureAddMetadata(c)
    PROVE  NosqlInv'
<1>0. req[c].op = "create"
  BY DEF CreateTable, AzureCreateTable, AzureAddMetadata, Is
<1>1. NewTable(req[c]) \in MetaType
  BY <1>0, Typed DEF NewTable, CreateType, MetaType
<1>2. Continues(req[c], Idle) /\ Drains(Idle)
  BY DEF Continues, Drains, Idle
<1>3. CASE CreateTable(c)
  <2>1. CASE meta # None
    BY <1>3, <2>1, FailStep DEF CreateTable
  <2>2. CASE meta = None
    BY <1>3, <2>2, <1>1, <1>2, QuietStep DEF CreateTable, Ends, Untouched, NosqlInv, TypeInv
  <2> QED BY <2>1, <2>2
<1>4. CASE AzureCreateTable(c)
  <2>1. CASE native
    BY <1>4, <2>1, FailStep DEF AzureCreateTable
  <2>2. CASE ~native
    <3> DEFINE q == [req[c] EXCEPT !.at = "meta"]
    <3>1. q \in CreateType
      BY <1>0, Typed DEF CreateType
    <3>2. Continues(req[c], q) /\ Drains(q)
      BY <1>0, <3>1 DEF Continues, Drains, ReqType, CreateType
    <3> QED BY <1>4, <2>2, <3>2, QuietStep DEF AzureCreateTable, Goes, Untouched, NosqlInv, TypeInv
  <2> QED BY <2>1, <2>2
<1>5. CASE AzureAddMetadata(c)
  <2>1. Upserted(NewTable(req[c])) \in MetaType /\ Upserted(NewTable(req[c])).schema = NewTable(req[c]).schema
    BY <1>1, UpsertedMeta
  <2> QED BY <1>5, <1>1, <1>2, <2>1, QuietStep DEF AzureAddMetadata, Ends, Untouched, NosqlInv, TypeInv
<1> QED BY <1>3, <1>4, <1>5

(* A step that takes items away, but none that is acknowledged. *)
LEMMA TakingStep ==
    ASSUME NosqlInv, NEW c \in Clients, NEW q, Continues(req[c], q),
           backend \in {"inmem", "etcd", "gcp"} => Drains(q),
           req' = [req EXCEPT ![c] = q],
           backend' = backend, acked' = acked, items' \subseteq items,
           meta' \in MetaType \cup {None}, life' \in Nat,
           backend \in {"inmem", "etcd", "gcp"} =>
               \A l \in acked : \A i \in items : i.loc = l => i \in items'
    PROVE  NosqlInv'
<1>1. \A i \in items' : i.loc \in AnyLocation
  BY DEF NosqlInv, TypeInv
<1>2. backend \in {"inmem", "etcd", "gcp"} => \A l \in acked : \E i \in items' : i.loc = l
  BY DEF NosqlInv, AckInv, At
<1> QED BY <1>1, <1>2, TypeKept, AckKept DEF NosqlInv

(* The reads of a deletion. *)
LEMMA DeleteReadSteps ==
    ASSUME NosqlInv, NEW c \in Clients,
           \/ EtcdDeleteRead(c) \/ EtcdDeleteCheck(c) \/ GcpDeleteCheck(c) \/ GcpList(c)
           \/ AzureDeleteList(c) \/ AwsDeleteCheck(c)
    PROVE  NosqlInv'
<1>0. req[c].op = "delete" /\ req[c] \in DeleteType
  BY Typed DEF EtcdDeleteRead, EtcdDeleteCheck, GcpDeleteCheck, GcpList, AzureDeleteList,
     AwsDeleteCheck, Is
<1>a. {} \in SUBSET AnyLocation /\ {i.loc : i \in items} \in SUBSET AnyLocation
  BY DEF NosqlInv, TypeInv
<1>1. CASE EtcdDeleteRead(c)
  <2>1. CASE req[c].force
    <3>1. Fails(c) \/ Reads(c, [req[c] EXCEPT !.at = "drain"])
      BY <1>1, <2>1 DEF EtcdDeleteRead
    <3> QED BY <3>1, <1>0, <1>a, <2>1, DeleteGoesOn, ReadStep, FailStep
  <2>2. CASE ~req[c].force
    <3>1. Fails(c) \/ Reads(c, [req[c] EXCEPT !.at = "check"])
      BY <1>1, <2>2 DEF EtcdDeleteRead
    <3> QED BY <3>1, <1>0, <1>a, DeleteGoesOn, ReadStep, FailStep
  <2> QED BY <2>1, <2>2
<1>2. CASE EtcdDeleteCheck(c)
  BY <1>2, <1>0, <1>a, DeleteGoesOn, ReadStep, FailStep DEF EtcdDeleteCheck
<1>3. CASE GcpDeleteCheck(c)
  <2>1. CASE items = {}
    <3>1. Fails(c) \/ Reads(c, [req[c] EXCEPT !.at = "drop"])
      BY <1>3, <2>1 DEF GcpDeleteCheck
    <3> QED BY <3>1, <1>0, <1>a, DeleteGoesOn, ReadStep, FailStep
  <2>2. CASE items # {}
    <3>1. Fails(c) \/ (req[c].force /\ Reads(c, [req[c] EXCEPT !.at = "list"]))
      BY <1>3, <2>2 DEF GcpDeleteCheck, MayDelete
    <3> QED BY <3>1, <1>0, <1>a, DeleteGoesOn, ReadStep, FailStep
  <2> QED BY <2>1, <2>2
<1>4. CASE GcpList(c)
  <2> DEFINE left == {i.loc : i \in items}
             a == IF items = {} THEN "drop" ELSE "drain"
  <2>1. backend = "gcp" /\ req[c].at = "list" /\ Reads(c, [req[c] EXCEPT !.left = left, !.at = a])
    BY <1>4 DEF GcpList, Listed, Is
  <2>2. req[c].force
    BY <2>1, <1>0 DEF NosqlInv, AckInv
  <2>3. a \in {"drop", "drain"}
    OBVIOUS
  <2> HIDE DEF left, a
  <2>4. left \in SUBSET AnyLocation
    BY <1>a DEF left
  <2> QED BY <2>1, <2>2, <2>3, <2>4, <1>0, DeleteGoesOn, ReadStep
<1>5. CASE AzureDeleteList(c)
  <2> DEFINE left == {i.loc : i \in items}
             a == IF items = {} THEN "drop" ELSE "drain"
  <2>1. backend = "azure" /\ (Fails(c) \/ Reads(c, [req[c] EXCEPT !.left = left, !.at = a]))
    BY <1>5 DEF AzureDeleteList, Listed, Is
  <2>3. a \in {"drop", "drain"}
    OBVIOUS
  <2> HIDE DEF left, a
  <2>4. left \in SUBSET AnyLocation
    BY <1>a DEF left
  <2> QED BY <2>1, <2>3, <2>4, <1>0, DeleteGoesOn, ReadStep, FailStep
<1>6. CASE AwsDeleteCheck(c)
  BY <1>6, <1>0, <1>a, DeleteGoesOn, ReadStep, FailStep DEF AwsDeleteCheck
<1> QED BY <1>1, <1>2, <1>3, <1>4, <1>5, <1>6

(* The writes of a deletion.  On inmem, etcd and gcp an item only goes      *)
(* when the deletion is forced, and then nothing is acknowledged.           *)
LEMMA DeleteWriteSteps ==
    ASSUME NosqlInv, NEW c \in Clients,
           \/ InmemDeleteTable(c) \/ EtcdDrain(c) \/ EtcdDrop(c) \/ GcpDrain(c) \/ GcpDrop(c)
           \/ AzureDrain(c) \/ AzureDrop(c) \/ AzureDropMetadata(c) \/ AwsDeleteTable(c)
    PROVE  NosqlInv'
<1>0. req[c].op = "delete" /\ req[c] \in DeleteType
  BY Typed DEF InmemDeleteTable, EtcdDrain, EtcdDrop, GcpDrain, GcpDrop, AzureDrain, AzureDrop,
     AzureDropMetadata, AwsDeleteTable, Is
<1>a. {} \in SUBSET AnyLocation /\ req[c].left \in SUBSET AnyLocation
  BY <1>0 DEF DeleteType
<1>b. Continues(req[c], Idle) /\ Drains(Idle)
  BY DEF Continues, Drains, Idle
<1>c. meta \in MetaType \cup {None} /\ life \in Nat
  BY DEF NosqlInv, TypeInv
<1>d. backend \in {"inmem", "etcd", "gcp"} /\ req[c].force => acked = {}
  BY <1>0 DEF NosqlInv, AckInv
<1>e. Drained(req[c]) = [req[c] EXCEPT !.left = req[c].left \ {Next1(req[c].left)},
                                       !.at = IF req[c].left \ {Next1(req[c].left)} = {}
                                              THEN "drop" ELSE "drain"]
  BY DEF Drained
<1>1. CASE InmemDeleteTable(c)
  <2>1. CASE meta = None \/ ~MayDelete(req[c])
    BY <1>1, <2>1, FailStep DEF InmemDeleteTable
  <2>2. CASE ~(meta = None \/ ~MayDelete(req[c]))
    <3>1. backend = "inmem" /\ MayDelete(req[c]) /\ meta' = None /\ items' = {}
      BY <1>1, <2>2 DEF InmemDeleteTable, Is
    <3>2. acked = {}
      BY <3>1, <1>d DEF MayDelete, NosqlInv, AckInv, At
    <3> QED BY <1>1, <2>2, <3>1, <3>2, <1>b, <1>c, TakingStep DEF InmemDeleteTable, Ends, Untouched
  <2> QED BY <2>1, <2>2
<1>2. CASE EtcdDrain(c)
  <2>1. backend = "etcd" /\ req[c].at = "drain" /\ items' = {}
    BY <1>2 DEF EtcdDrain, Is
  <2>2. acked = {}
    BY <2>1, <1>0, <1>d DEF NosqlInv, AckInv
  <2>3. Continues(req[c], [req[c] EXCEPT !.at = "drop"]) /\ Drains([req[c] EXCEPT !.at = "drop"])
    BY <1>0, <1>a, <2>1, DeleteGoesOn
  <2> QED BY <1>2, <2>1, <2>2, <2>3, <1>c, TakingStep DEF EtcdDrain, Goes, Untouched
<1>3. CASE EtcdDrop(c)
  BY <1>3, <1>b, <1>c, QuietStep DEF EtcdDrop, Ends, Untouched
<1>4. CASE GcpDrain(c)
  <2> DEFINE left == req[c].left \ {Next1(req[c].left)}
             a == IF left = {} THEN "drop" ELSE "drain"
             q == [req[c] EXCEPT !.left = left, !.at = a]
  <2>1. backend = "gcp" /\ req[c].at = "drain" /\ items' \subseteq items
    BY <1>4 DEF GcpDrain, Is
  <2>2. acked = {} /\ req[c].force
    BY <2>1, <1>0, <1>d DEF NosqlInv, AckInv
  <2>3. left \in SUBSET AnyLocation /\ a \in {"drop", "drain"}
    BY <1>a
  <2>4. req' = [req EXCEPT ![c] = q]
    BY <1>4, <1>e DEF GcpDrain, Goes
  <2> HIDE DEF left, a
  <2>5. Continues(req[c], q) /\ Drains(q)
    BY <1>0, <2>1, <2>2, <2>3, DeleteGoesOn
  <2> HIDE DEF q
  <2> QED BY <1>4, <2>1, <2>2, <2>4, <2>5, <1>c, TakingStep DEF GcpDrain, Goes, Untouched
<1>5. CASE GcpDrop(c)
  BY <1>5, <1>b, <1>c, QuietStep, FailStep DEF GcpDrop, Ends, Untouched
<1>6. CASE AzureDrain(c)
  <2>1. CASE Fails(c)
    BY <2>1, FailStep
  <2>2. CASE ~Fails(c)
    <3> DEFINE left == req[c].left \ {Next1(req[c].left)}
               a == IF left = {} THEN "drop" ELSE "drain"
               q == [req[c] EXCEPT !.left = left, !.at = a]
    <3>1. backend = "azure" /\ items' \subseteq items
      BY <1>6, <2>2 DEF AzureDrain, Is
    <3>3. left \in SUBSET AnyLocation /\ a \in {"drop", "drain"}
      BY <1>a
    <3>4. req' = [req EXCEPT ![c] = q]
      BY <1>6, <2>2, <1>e DEF AzureDrain, Goes
    <3> HIDE DEF left, a
    <3>5. Continues(req[c], q)
      BY <1>0, <3>1, <3>3, DeleteGoesOn
    <3> HIDE DEF q
    <3> QED BY <1>6, <2>2, <3>1, <3>4, <3>5, <1>c, TakingStep DEF AzureDrain, Goes, Untouched
  <2> QED BY <2>1, <2>2
<1>7. CASE AzureDrop(c)
  <2>1. CASE Fails(c)
    BY <2>1, FailStep
  <2>2. CASE ~Fails(c)
    <3>1. backend = "azure" /\ items' = {}
      BY <1>7, <2>2 DEF AzureDrop, Is
    <3>2. Continues(req[c], [req[c] EXCEPT !.at = "meta"])
      BY <1>0, <1>a, <3>1, DeleteGoesOn
    <3> QED BY <1>7, <2>2, <3>1, <3>2, <1>c, TakingStep DEF AzureDrop, Goes, Untouched
  <2> QED BY <2>1, <2>2
<1>8. CASE AzureDropMetadata(c)
  BY <1>8, <1>b, <1>c, QuietStep DEF AzureDropMetadata, Ends, Untouched
<1>9. CASE AwsDeleteTable(c)
  <2>1. CASE Fails(c)
    BY <2>1, FailStep
  <2>2. CASE ~Fails(c)
    <3>1. backend = "aws" /\ items' = {}
      BY <1>9, <2>2 DEF AwsDeleteTable, Is
    <3> QED BY <1>9, <2>2, <3>1, <1>b, <1>c, TakingStep DEF AwsDeleteTable, Ends, Untouched
  <2> QED BY <2>1, <2>2
<1> QED BY <1>1, <1>2, <1>3, <1>4, <1>5, <1>6, <1>7, <1>8, <1>9

-----------------------------------------------------------------------------
(* Items.  A put is only acknowledged when nobody is about to take the item *)
(* away.                                                                    *)
LEMMA StoreStep ==
    ASSUME NosqlInv, NEW c \in Clients, NEW s \in Schemas \cup {NoSchema, None}, NEW k \in Keys, NEW n,
           Stores(c, s, k, n)
    PROVE  NosqlInv'
<1> DEFINE l0 == <<s, k>>
           new == [loc |-> l0, life |-> n]
<1>0. /\ items' = (items \ At(l0)) \cup {new}
      /\ acked' = IF Contested(c, k) THEN acked ELSE acked \cup {l0}
      /\ req' = [req EXCEPT ![c] = Idle]
      /\ backend' = backend /\ meta' = meta /\ life' = life
  BY DEF Stores, Ends, Untouched
<1>1. l0 \in AnyLocation /\ new.loc = l0 /\ l0[2] = k
  BY DEF AnyLocation
<1> HIDE DEF l0, new
<1>2. TypeInv'
  <2>1. Continues(req[c], Idle)
    BY DEF Continues
  <2>2. \A i \in items' : i.loc \in AnyLocation
    BY <1>0, <1>1 DEF NosqlInv, TypeInv
  <2> QED BY <1>0, <2>1, <2>2, TypeKept DEF NosqlInv, TypeInv
<1>3. AckInv'
  <2> SUFFICES ASSUME backend \in {"inmem", "etcd", "gcp"} PROVE AckInv'
    BY <1>0 DEF AckInv
  <2>1. ASSUME NEW l \in acked' PROVE At(l)' # {}
    <3>1. CASE l = l0
      BY <3>1, <1>0, <1>1 DEF At
    <3>2. CASE l # l0
      <4>1. l \in acked
        BY <3>2, <1>0
      <4>2. PICK i \in items : i.loc = l
        BY <4>1 DEF NosqlInv, AckInv, At
      <4>3. i \in items'
        BY <3>2, <4>2, <1>0 DEF At
      <4> QED BY <4>2, <4>3 DEF At
    <3> QED BY <3>1, <3>2
  <2>2. ASSUME NEW d \in Clients
        PROVE  /\ req'[d].op = "remove" => \A l \in acked' : l[2] # req'[d].key
               /\ req'[d].op = "delete" /\ req'[d].force => acked' = {}
               /\ req'[d].op = "delete" /\ req'[d].at \in {"list", "drain"} => req'[d].force
    <3>1. CASE d = c
      <4>1. req'[d].op = "idle"
        BY <3>1, <1>0 DEF NosqlInv, TypeInv, Idle
      <4> QED BY <4>1
    <3>2. CASE d # c
      <4>1. req'[d] = req[d]
        BY <3>2, <1>0 DEF NosqlInv, TypeInv
      <4>2. CASE Contested(c, k)
        BY <4>1, <4>2, <1>0 DEF NosqlInv, AckInv
      <4>3. CASE ~Contested(c, k)
        <5>1. req[d].op \in {"remove", "delete"} => d \in Running(c)
          BY <3>2 DEF Running, Idle
        <5>2. /\ req[d].op = "remove" => req[d].key # k
              /\ ~(req[d].op = "delete" /\ req[d].force)
          BY <4>3, <5>1 DEF Contested
        <5>3. \A l \in acked' : l \in acked \/ l = l0
          BY <1>0
        <5> QED BY <4>1, <5>2, <5>3, <1>1 DEF NosqlInv, AckInv
      <4> QED BY <4>2, <4>3
    <3> QED BY <3>1, <3>2
  <2> QED BY <2>1, <2>2 DEF AckInv
<1> QED BY <1>2, <1>3 DEF NosqlInv

LEMMA PutSteps ==
    ASSUME NosqlInv, NEW c \in Clients, PutItem(c) \/ PutItemRead(c) \/ PutItemWrite(c)
    PROVE  NosqlInv'
<1>0. req[c].op = "put" /\ req[c] \in PutType /\ req[c].key \in Keys
      /\ req[c].schema \in Schemas \cup {NoSchema, None}
  BY Typed DEF PutItem, PutItemRead, PutItemWrite, Is, PutType
<1>1. meta = None \/ (meta \in MetaType /\ meta.schema \in Schemas \cup {NoSchema})
  BY DEF NosqlInv, TypeInv, MetaType
<1>2. CASE PutItem(c)
  BY <1>0, <1>1, <1>2, FailStep, StoreStep DEF PutItem
<1>3. CASE PutItemRead(c)
  <2>1. CASE Fails(c)
    BY <2>1, FailStep
  <2>2. CASE ~Fails(c)
    <3> DEFINE q == [req[c] EXCEPT !.at = "write", !.schema = meta.schema, !.life = life]
    <3>1. meta # None /\ Reads(c, q)
      BY <1>3, <2>2 DEF PutItemRead
    <3>2. q \in PutType
      BY <1>0, <1>1, <3>1 DEF PutType, NosqlInv, TypeInv
    <3>3. Continues(req[c], q) /\ Drains(q)
      BY <1>0, <3>2 DEF Continues, Drains, ReqType, PutType
    <3> QED BY <3>1, <3>3, ReadStep
  <2> QED BY <2>1, <2>2
<1>4. CASE PutItemWrite(c)
  BY <1>0, <1>4, FailStep, StoreStep DEF PutItemWrite
<1> QED BY <1>2, <1>3, <1>4

LEMMA RemoveSteps ==
    ASSUME NosqlInv, NEW c \in Clients, DeleteItem(c) \/ DeleteItemRead(c) \/ DeleteItemWrite(c)
    PROVE  NosqlInv'
<1>0. req[c].op = "remove" /\ req[c] \in RemoveType
  BY Typed DEF DeleteItem, DeleteItemRead, DeleteItemWrite, Is
<1>1. CASE Removes(c)
  <2>1. Continues(req[c], Idle) /\ Drains(Idle)
    BY DEF Continues, Drains, Idle
  <2>2. backend \in {"inmem", "etcd", "gcp"} => \A l \in acked : l[2] # req[c].key
    BY <1>0 DEF NosqlInv, AckInv
  <2>3. backend \in {"inmem", "etcd", "gcp"} =>
          \A l \in acked : \A i \in items : i.loc = l => i \in items \ At(<<req[c].schema, req[c].key>>)
    BY <2>2 DEF At
  <2> QED BY <1>1, <2>1, <2>3, TakingStep DEF Removes, Ends, Untouched, NosqlInv, TypeInv
<1>2. CASE Fails(c)
  BY <1>2, FailStep
<1>3. CASE Reads(c, [req[c] EXCEPT !.at = "write"])
  <2> DEFINE q == [req[c] EXCEPT !.at = "write"]
  <2>1. q \in RemoveType /\ q.key = req[c].key
    BY <1>0 DEF RemoveType
  <2>2. Continues(req[c], q) /\ Drains(q)
    BY <1>0, <2>1 DEF Continues, Drains, ReqType, RemoveType
  <2> QED BY <1>3, <2>2, ReadStep
<1> QED BY <1>1, <1>2, <1>3 DEF DeleteItem, DeleteItemRead, DeleteItemWrite

-----------------------------------------------------------------------------
(* Tags *)
LEMMA SetsMetaStep ==
    ASSUME NosqlInv, NEW c \in Clients, NEW m \in MetaType \cup {None}, SetsMeta(c, m)
    PROVE  NosqlInv'
<1>1. Continues(req[c], Idle) /\ Drains(Idle)
  BY DEF Continues, Drains, Idle
<1> QED BY <1>1, QuietStep DEF SetsMeta, Ends, Untouched, NosqlInv, TypeInv

(* The steps of a tagging request. *)
TagSteps(c) ==
    \/ UpdateTableTags(c) \/ TagsRead(c) \/ EtcdTagsWrite(c) \/ AzureTagsWrite(c) \/ GcpTagsWrite(c)
    \/ AwsListTags(c) \/ AwsUntag(c) \/ AwsRetag(c)

LEMMA TagStepsKeep ==
    ASSUME NosqlInv, NEW c \in Clients, TagSteps(c)
    PROVE  NosqlInv'
<1>0. /\ req[c].op = "tag" /\ req[c] \in TagType
      /\ req[c].want \in SUBSET Tags /\ req[c].left \in SUBSET Tags
  BY Typed DEF TagSteps, UpdateTableTags, TagsRead, EtcdTagsWrite, AzureTagsWrite, GcpTagsWrite,
     AwsListTags, AwsUntag, AwsRetag, Is, TagType
<1>1. meta \in MetaType \cup {None} /\ (req[c].at = "write" => req[c].meta \in MetaType)
  BY <1>0 DEF NosqlInv, TypeInv
<1>2. ASSUME NEW m \in MetaType, NEW t \in SUBSET Tags PROVE [m EXCEPT !.tags = t] \in MetaType
  BY DEF MetaType
<1>3. ASSUME NEW q, Reads(c, q), q \in TagType, q.at = "write" => q.meta \in MetaType
      PROVE  NosqlInv'
  BY <1>0, <1>3, ReadStep DEF Continues, Drains, ReqType, TagType
<1>4. CASE UpdateTableTags(c)
  BY <1>0, <1>1, <1>2, <1>4, FailStep, SetsMetaStep DEF UpdateTableTags
<1>5. CASE TagsRead(c)
  <2>1. CASE Fails(c)
    BY <2>1, FailStep
  <2>2. CASE ~Fails(c)
    <3> DEFINE q == [req[c] EXCEPT !.at = "write", !.meta = meta]
    <3>1. meta # None /\ Reads(c, q)
      BY <1>5, <2>2 DEF TagsRead
    <3>2. q \in TagType /\ q.meta \in MetaType
      BY <1>0, <1>1, <3>1 DEF TagType
    <3> QED BY <3>1, <3>2, <1>3
  <2> QED BY <2>1, <2>2
<1>6. CASE EtcdTagsWrite(c)
  BY <1>0, <1>1, <1>2, <1>6, FailStep, SetsMetaStep DEF EtcdTagsWrite, Is, Retagged
<1>7. CASE AzureTagsWrite(c)
  <2> DEFINE m == Retagged(req[c].meta, req[c])
  <2>1. m \in MetaType /\ m.schema = req[c].meta.schema
    BY <1>0, <1>1, <1>2, <1>7 DEF AzureTagsWrite, Is, Retagged
  <2>2. Upserted(m) \in MetaType /\ Upserted(m).schema = m.schema
    BY <2>1, UpsertedMeta
  <2>3. SetsMeta(c, Upserted(m)) /\ backend = "azure" /\ req[c].at = "write"
    BY <1>7 DEF AzureTagsWrite, Is
  <2> HIDE DEF m
  <2> QED BY <1>0, <1>1, <1>2, <2>1, <2>2, <2>3, SetsMetaStep
<1>8. CASE GcpTagsWrite(c)
  <2>1. [schema |-> NoSchema, tags |-> req[c].want] \in MetaType
    BY <1>0 DEF MetaType
  <2>2. GcpPatched(req[c]) \in MetaType
    BY <2>1, <1>0, <1>1, <1>2 DEF GcpPatched, Retagged
  <2> QED BY <2>2, <1>8, SetsMetaStep DEF GcpTagsWrite
<1>9. CASE AwsListTags(c)
  <2>1. CASE Fails(c)
    BY <2>1, FailStep
  <2>2. CASE ~Fails(c)
    <3> DEFINE q == [req[c] EXCEPT !.at = "untag", !.left = AwsUnwanted(req[c])]
    <3>1. meta # None /\ Reads(c, q)
      BY <1>9, <2>2 DEF AwsListTags
    <3>2. AwsUnwanted(req[c]) \in SUBSET Tags
      BY <1>1, <3>1 DEF AwsUnwanted, MetaType
    <3>3. q \in TagType /\ q.at = "untag"
      BY <1>0, <3>2 DEF TagType
    <3> QED BY <3>1, <3>3, <1>3
  <2> QED BY <2>1, <2>2
<1>10. CASE AwsUntag(c)
  <2>1. CASE Fails(c)
    BY <2>1, FailStep
  <2>2. CASE ~Fails(c)
    <3> DEFINE q == [req[c] EXCEPT !.at = "retag"]
    <3>1. q \in TagType /\ q.at = "retag"
      BY <1>0 DEF TagType
    <3>2. Continues(req[c], q) /\ Drains(q)
      BY <1>0, <3>1 DEF Continues, Drains, ReqType, TagType
    <3>3. meta' \in MetaType \cup {None}
      <4>1. CASE req[c].left = {}
        BY <1>1, <1>10, <2>2, <4>1 DEF AwsUntag
      <4>2. CASE req[c].left # {}
        <5>1. meta \in MetaType /\ meta' = [meta EXCEPT !.tags = @ \ req[c].left]
          BY <1>1, <1>10, <2>2, <4>2 DEF AwsUntag
        <5>2. meta.tags \ req[c].left \in SUBSET Tags
          BY <5>1 DEF MetaType
        <5> QED BY <5>1, <5>2, <1>2
      <4> QED BY <4>1, <4>2
    <3> QED BY <1>10, <2>2, <3>2, <3>3, QuietStep DEF AwsUntag, Goes, Untouched, NosqlInv, TypeInv
  <2> QED BY <2>1, <2>2
<1>11. CASE AwsRetag(c)
  <2>1. CASE Fails(c)
    BY <2>1, FailStep
  <2>2. CASE ~Fails(c)
    <3>1. CASE req[c].want = {}
      BY <1>1, <1>11, <2>2, <3>1, SetsMetaStep DEF AwsRetag
    <3>2. CASE req[c].want # {}
      <4>1. meta \in MetaType /\ SetsMeta(c, [meta EXCEPT !.tags = @ \cup req[c].want])
        BY <1>1, <1>11, <2>2, <3>2 DEF AwsRetag
      <4>2. meta.tags \cup req[c].want \in SUBSET Tags
        BY <1>0, <4>1 DEF MetaType
      <4> QED BY <4>1, <4>2, <1>2, SetsMetaStep
    <3> QED BY <3>1, <3>2
  <2> QED BY <2>1, <2>2
<1> QED BY <1>4, <1>5, <1>6, <1>7, <1>8, <1>9, <1>10, <1>11 DEF TagSteps

(* A request that will take items away takes them out of acked first. *)
LEMMA BeginStep ==
    ASSUME NosqlInv, NEW c \in Clients, NEW r \in ReqType, r # Idle, r.at \in {"front", "first"},
           Begin(c, r)
    PROVE  NosqlInv'
<1>0. /\ req' = [req EXCEPT ![c] = r] /\ req' \in [Clients -> ReqType] /\ req'[c] = r
      /\ \A d \in Clients : d # c => req'[d] = req[d]
      /\ UNCHANGED <<backend, meta, items, life>>
  BY DEF Begin, NosqlInv, TypeInv
<1>1. TypeInv'
  <2>1. ASSUME NEW d \in Clients, req'[d].op = "tag", req'[d].at = "write" PROVE req'[d].meta \in MetaType
    <3>1. d # c
      BY <2>1, <1>0
    <3> QED BY <1>0, <2>1, <3>1 DEF NosqlInv, TypeInv
  <2> QED BY <1>0, <2>1 DEF NosqlInv, TypeInv
<1>2. /\ acked' \subseteq acked
      /\ r.op = "remove" => \A l \in acked' : l[2] # r.key
      /\ r.op = "delete" /\ r.force => acked' = {}
  BY DEF Begin
<1>3. AckInv'
  <2> SUFFICES ASSUME backend \in {"inmem", "etcd", "gcp"} PROVE AckInv'
    BY <1>0 DEF AckInv
  <2>1. \A l \in acked' : At(l)' # {}
    BY <1>0, <1>2 DEF NosqlInv, AckInv, At
  <2>2. ASSUME NEW d \in Clients
        PROVE  /\ req'[d].op = "remove" => \A l \in acked' : l[2] # req'[d].key
               /\ req'[d].op = "delete" /\ req'[d].force => acked' = {}
               /\ req'[d].op = "delete" /\ req'[d].at \in {"list", "drain"} => req'[d].force
    <3>1. CASE d = c
      BY <1>0, <1>2, <3>1
    <3>2. CASE d # c
      <4>1. req'[d] = req[d]
        BY <1>0, <3>2
      <4> QED BY <1>2, <4>1 DEF NosqlInv, AckInv
    <3> QED BY <3>1, <3>2
  <2> QED BY <2>1, <2>2 DEF AckInv
<1> QED BY <1>1, <1>3 DEF NosqlInv

(* Every step keeps the invariant. *)
LEMMA NosqlInvStep == NosqlInv /\ [NosqlNext]_nosqlVars => NosqlInv'
<1> SUFFICES ASSUME NosqlInv, [NosqlNext]_nosqlVars PROVE NosqlInv'
  OBVIOUS
<1>1. CASE UNCHANGED nosqlVars
  BY <1>1 DEF nosqlVars, NosqlInv, TypeInv, AckInv, At
<1>2. ASSUME NEW c \in Clients, Dynamodb(c) \/ Firestore(c) \/ Cosmos(c) PROVE NosqlInv'
  BY <1>2, Beginnings, BeginStep
<1>3. ASSUME NEW c \in Clients, Step(c) PROVE NosqlInv'
  BY <1>3, FrontReadStep, CreateSteps, DeleteReadSteps, DeleteWriteSteps, PutSteps, RemoveSteps,
     TagStepsKeep DEF Step, TagSteps
<1>4. ASSUME NEW c \in Clients, Crash(c) PROVE NosqlInv'
  BY <1>4, FailStep DEF Crash
<1> QED BY <1>1, <1>2, <1>3, <1>4 DEF NosqlNext

(* The invariant holds of every reachable state. *)
THEOREM NosqlInvariant == NosqlSpec => []NosqlInv
BY NosqlInvInit, NosqlInvStep, PTL DEF NosqlSpec

(* On inmem, etcd and gcp an item whose PutItem was answered is there until *)
(* somebody asks for its deletion or for the forced deletion of the table,  *)
(* whatever other requests and failures come between.                       *)
THEOREM AcknowledgedItemsKept == NosqlSpec => []AckedKept
<1>1. NosqlInv => AckedKept
  BY DEF NosqlInv, AckInv, AckedKept
<1> QED BY <1>1, NosqlInvariant, PTL

(* What a step does to the metadata: it leaves it, makes or removes it, or  *)
(* changes the tags alone; only etcd and azure write back what they read.   *)
LEMMA MetaStep ==
    ASSUME NosqlInv, NosqlNext, meta # None, meta' # None,
           backend \in {"inmem", "gcp", "aws"}
    PROVE  meta' = meta \/ \E t : meta' = [meta EXCEPT !.tags = t]
<1>1. ASSUME NEW c \in Clients, Dynamodb(c) \/ Firestore(c) \/ Cosmos(c) PROVE meta' = meta
  BY <1>1, Beginnings DEF Begin
<1>2. ASSUME NEW c \in Clients, Crash(c) PROVE meta' = meta
  BY <1>2 DEF Crash, Fails
<1>3. ASSUME NEW c \in Clients, Step(c)
      PROVE  meta' = meta \/ \E t : meta' = [meta EXCEPT !.tags = t]
  <2>1. CASE TagSteps(c)
    <3>1. CASE UpdateTableTags(c)
      BY <3>1 DEF UpdateTableTags, SetsMeta, Fails
    <3>2. CASE TagsRead(c) \/ AwsListTags(c)
      BY <3>2 DEF TagsRead, AwsListTags, Reads, Fails
    <3>3. CASE EtcdTagsWrite(c) \/ AzureTagsWrite(c)
      BY <3>3 DEF EtcdTagsWrite, AzureTagsWrite, Is
    <3>4. CASE GcpTagsWrite(c)
      BY <3>4 DEF GcpTagsWrite, GcpPatched, Retagged, SetsMeta
    <3>5. CASE AwsUntag(c)
      BY <3>5 DEF AwsUntag, Fails
    <3>6. CASE AwsRetag(c)
      BY <3>6 DEF AwsRetag, SetsMeta, Fails
    <3> QED BY <2>1, <3>1, <3>2, <3>3, <3>4, <3>5, <3>6 DEF TagSteps
  <2>2. CASE FrontRead(c)
    BY <2>2 DEF FrontRead, Reads, Fails
  <2>3. CASE CreateTable(c) \/ AzureCreateTable(c) \/ AzureAddMetadata(c)
    BY <2>3 DEF CreateTable, AzureCreateTable, AzureAddMetadata, Is, Fails
  <2>4. CASE \/ EtcdDeleteRead(c) \/ EtcdDeleteCheck(c) \/ GcpDeleteCheck(c) \/ GcpList(c)
             \/ AzureDeleteList(c) \/ AwsDeleteCheck(c)
    BY <2>4 DEF EtcdDeleteRead, EtcdDeleteCheck, GcpDeleteCheck, GcpList, AzureDeleteList,
       AwsDeleteCheck, Reads, Fails
  <2>5. CASE \/ InmemDeleteTable(c) \/ EtcdDrain(c) \/ EtcdDrop(c) \/ GcpDrain(c) \/ GcpDrop(c)
             \/ AzureDrain(c) \/ AzureDrop(c) \/ AzureDropMetadata(c) \/ AwsDeleteTable(c)
    BY <2>5 DEF InmemDeleteTable, EtcdDrain, EtcdDrop, GcpDrain, GcpDrop, AzureDrain, AzureDrop,
       AzureDropMetadata, AwsDeleteTable, Fails
  <2>6. CASE PutItem(c) \/ PutItemRead(c) \/ PutItemWrite(c)
    BY <2>6 DEF PutItem, PutItemRead, PutItemWrite, Stores, Reads, Fails
  <2>7. CASE DeleteItem(c) \/ DeleteItemRead(c) \/ DeleteItemWrite(c)
    BY <2>7 DEF DeleteItem, DeleteItemRead, DeleteItemWrite, Removes, Reads, Fails
  <2> QED BY <1>3, <2>1, <2>2, <2>3, <2>4, <2>5, <2>6, <2>7 DEF Step, TagSteps
<1> QED BY <1>1, <1>2, <1>3 DEF NosqlNext

(* On inmem, gcp and aws no request changes the schema of a table that is   *)
(* there: its tags are written without the rest of the metadata.            *)
THEOREM SchemasFixed == NosqlSpec => SchemaFixed
<1>1. ASSUME NosqlInv, [NosqlNext]_nosqlVars
      PROVE  [meta # None /\ meta' # None /\ backend \in {"inmem", "gcp", "aws"}
                => meta.schema' = meta.schema]_nosqlVars
  <2>1. SUFFICES ASSUME NosqlNext, meta # None, meta' # None, backend \in {"inmem", "gcp", "aws"}
                 PROVE  (meta').schema = meta.schema
    BY <1>1
  <2>2. meta \in MetaType
    BY <1>1, <2>1 DEF NosqlInv, TypeInv
  <2> QED BY <1>1, <2>1, <2>2, MetaStep DEF MetaType
<1> QED BY <1>1, NosqlInvariant, PTL DEF NosqlSpec, SchemaFixed

-----------------------------------------------------------------------------
(* Items and the table they are in.  As long as nothing was written while   *)
(* the table was created or deleted (~mixed), requests that clash do not    *)
(* overlap, and what a request has read is still so: Fits says this of a    *)
(* request, of the items S, the metadata m and the number n of the table.   *)
Loose == ~mixed /\ backend \notin {"inmem", "aws"}
Sure == backend \in {"inmem", "aws"} \/ ~mixed

Fits(r, S, m, n) ==
    /\ r.op = "create" /\ r.at = "meta" => S = {}
    /\ r.op = "delete" /\ r.at = "drain" /\ backend # "etcd" => \A i \in S : i.loc \in r.left
    /\ r.op = "delete" /\ r.at \in {"drop", "meta"} => S = {}
    /\ r.op = "put" /\ r.at = "write" => m # None /\ m.schema = r.schema /\ n = r.life
    /\ r.op = "tag" /\ r.at = "write" => m # None /\ m.schema = r.meta.schema
Belong(S, t, m, n) ==
    \A i \in S : /\ IF backend = "azure" THEN t ELSE m # None
                 /\ i.life = n /\ m # None /\ i.loc[1] = m.schema

Unmixed ==
    ~mixed => \A c, d \in Clients : c # d /\ req[c] # Idle /\ req[d] # Idle => ~Clash(req[c], req[d])
BelongInv ==
    /\ Unmixed
    /\ Sure => Belong(items, native, meta, life)
    /\ Loose => \A c \in Clients : Fits(req[c], items, meta, life)

(* The invariant survives a step that leaves the items where they belong    *)
(* and what every request has read as it was.                               *)
LEMMA BelongFrame ==
    ASSUME NosqlInv, BelongInv, NEW c \in Clients, NEW q, Continues(req[c], q),
           req' = [req EXCEPT ![c] = q], backend' = backend, mixed' = mixed,
           Sure => Belong(items', native', meta', life'),
           Loose => Fits(q, items', meta', life'),
           Loose => \A d \in Clients : d # c => Fits(req[d], items', meta', life')
    PROVE  BelongInv'
<1>0. /\ req'[c] = q /\ \A d \in Clients : d # c => req'[d] = req[d]
      /\ Sure' = Sure /\ Loose' = Loose
  BY DEF NosqlInv, TypeInv, Sure, Loose
<1>1. q # Idle => req[c] # Idle /\ q.op = req[c].op
  <2> SUFFICES ASSUME q # Idle PROVE req[c] # Idle /\ q.op = req[c].op
    OBVIOUS
  <2>1. q \in ReqType /\ q.op = req[c].op
    BY DEF Continues
  <2>2. q.op # "idle"
    BY <2>1, Kinds DEF Idle
  <2> QED BY <2>1, <2>2 DEF Idle
<1>2. Unmixed'
  <2> SUFFICES ASSUME ~mixed, NEW a \in Clients, NEW b \in Clients, a # b, req'[a] # Idle, req'[b] # Idle
               PROVE  ~Clash(req'[a], req'[b])
    BY DEF Unmixed, Clash, Idle
  <2>1. /\ req[a] # Idle /\ req'[a].op = req[a].op
        /\ req[b] # Idle /\ req'[b].op = req[b].op
    BY <1>0, <1>1
  <2>2. ~Clash(req[a], req[b])
    BY <2>1 DEF BelongInv, Unmixed
  <2> QED BY <2>1, <2>2 DEF Clash
<1>3. Sure' => Belong(items, native, meta, life)'
  BY <1>0 DEF Belong
<1>4. Loose' => \A d \in Clients : Fits(req[d], items, meta, life)'
  <2> SUFFICES ASSUME Loose, NEW d \in Clients PROVE Fits(req'[d], items', meta', life')
    BY <1>0 DEF Fits
  <2> QED BY <1>0
<1> QED BY <1>2, <1>3, <1>4 DEF BelongInv

(* Nothing is added, and the schema and the table stay. *)
LEMMA OthersFitLess ==
    ASSUME NosqlInv, BelongInv, NEW S, S \subseteq items, NEW m,
           m = meta \/ (meta # None /\ m # None /\ m.schema = meta.schema)
    PROVE  /\ Sure => Belong(S, native, m, life)
           /\ Loose => \A d \in Clients : Fits(req[d], S, m, life)
BY DEF BelongInv, Belong, Fits

(* While the table is created or deleted only removals are under way, and   *)
(* they have read nothing that matters.                                     *)
LEMMA OthersFitLifecycle ==
    ASSUME NosqlInv, BelongInv, Loose, NEW c \in Clients, req[c].op \in Lifecycle,
           NEW S, NEW m, NEW n
    PROVE  \A d \in Clients : d # c => Fits(req[d], S, m, n)
<1> SUFFICES ASSUME NEW d \in Clients, d # c PROVE Fits(req[d], S, m, n)
  OBVIOUS
<1>1. req[c] # Idle /\ req[c].op # "remove"
  BY DEF Lifecycle, Idle
<1>2. req[d] = Idle \/ req[d].op = "remove"
  BY <1>1 DEF BelongInv, Unmixed, Loose, Clash
<1> QED BY <1>2 DEF Fits, Idle

(* While an item is put, the table is neither created nor deleted. *)
LEMMA OthersFitPut ==
    ASSUME NosqlInv, BelongInv, Loose, NEW c \in Clients, req[c].op = "put", NEW S
    PROVE  \A d \in Clients : d # c => Fits(req[d], S, meta, life)
<1> SUFFICES ASSUME NEW d \in Clients, d # c PROVE Fits(req[d], S, meta, life)
  OBVIOUS
<1>1. req[c] # Idle /\ Fits(req[d], items, meta, life)
  BY DEF Idle, BelongInv
<1>2. req[d].op \notin Lifecycle
  BY <1>1 DEF BelongInv, Unmixed, Loose, Clash, Lifecycle, Idle
<1> QED BY <1>1, <1>2 DEF Fits, Lifecycle

(* A step that takes away at most, and changes no more than the tags. *)
LEMMA LessStep ==
    ASSUME NosqlInv, BelongInv, NEW c \in Clients, NEW q, Continues(req[c], q),
           req' = [req EXCEPT ![c] = q], backend' = backend, mixed' = mixed,
           items' \subseteq items, native' = native, life' = life,
           meta' = meta \/ (meta # None /\ meta' # None /\ (meta').schema = meta.schema),
           Loose => Fits(q, items', meta', life')
    PROVE  BelongInv'
BY BelongFrame, OthersFitLess

(* A request that ends has nothing to fit. *)
LEMMA IdleFits ==
    ASSUME NEW S, NEW m, NEW n
    PROVE  Fits(Idle, S, m, n) /\ \A r : Continues(r, Idle)
BY DEF Fits, Idle, Continues

LEMMA BelongFails ==
    ASSUME NosqlInv, BelongInv, NEW c \in Clients, Fails(c)
    PROVE  BelongInv'
BY IdleFits, LessStep DEF Fails, Ends, Untouched

LEMMA BelongReads ==
    ASSUME NosqlInv, BelongInv, NEW c \in Clients, NEW q, Continues(req[c], q), Reads(c, q),
           Loose => Fits(q, items, meta, life)
    PROVE  BelongInv'
BY LessStep DEF Reads, Goes, Untouched

(* What a request reads at its first look, and what fits it then. *)
LEMMA BelongFrontRead ==
    ASSUME NosqlInv, BelongInv, NEW c \in Clients, FrontRead(c)
    PROVE  BelongInv'
<1>1. CASE Fails(c)
  BY <1>1, BelongFails
<1>2. CASE ~Fails(c)
  <2>0. /\ meta \in MetaType /\ req[c] \in ReqType /\ req[c] # Idle
        /\ meta.schema \in Schemas \cup {NoSchema} /\ meta.tags \in SUBSET Tags
    BY <1>2, Typed DEF FrontRead, NosqlInv, TypeInv, MetaType
  <2>1. ASSUME NEW q, q \in ReqType, q.op = req[c].op, q.at = "first", Reads(c, q),
               q.op = "remove" => q.key = req[c].key, q.op = "delete" => q.force = req[c].force
        PROVE  BelongInv'
    <3>1. Continues(req[c], q)
      BY <2>1 DEF Continues
    <3>2. Fits(q, items, meta, life)
      BY <2>1 DEF Fits
    <3> QED BY <2>1, <3>1, <3>2, BelongReads
  <2>2. CASE req[c].op = "delete"
    <3> DEFINE q == [req[c] EXCEPT !.at = "first"]
    <3>1. q \in DeleteType /\ q.op = req[c].op /\ q.at = "first" /\ q.force = req[c].force
      BY <2>2, Typed DEF DeleteType
    <3>2. Reads(c, q)
      BY <1>2, <2>2 DEF FrontRead
    <3> QED BY <2>2, <3>1, <3>2, <2>1 DEF ReqType
  <2>3. CASE req[c].op = "put"
    <3> DEFINE q == [req[c] EXCEPT !.at = "first", !.shape = meta.schema]
    <3>1. q \in PutType /\ q.op = req[c].op /\ q.at = "first"
      BY <2>0, <2>3, Typed DEF PutType
    <3>2. Reads(c, q)
      BY <1>2, <2>3 DEF FrontRead
    <3> QED BY <2>3, <3>1, <3>2, <2>1 DEF ReqType
  <2>4. CASE req[c].op = "remove"
    <3> DEFINE q == [req[c] EXCEPT !.at = "first", !.schema = meta.schema]
    <3>1. q \in RemoveType /\ q.op = req[c].op /\ q.at = "first" /\ q.key = req[c].key
      BY <2>0, <2>4, Typed DEF RemoveType
    <3>2. Reads(c, q)
      BY <1>2, <2>4 DEF FrontRead
    <3> QED BY <2>4, <3>1, <3>2, <2>1 DEF ReqType
  <2>5. CASE req[c].op = "tag"
    <3>0. meta # None
      BY <1>2 DEF FrontRead
    <3>1. PICK seen \in TagsSeen : Reads(c, Edited(req[c], seen))
      BY <3>0, <2>5 DEF FrontRead
    <3> DEFINE q == Edited(req[c], seen)
    <3>2. q \in TagType /\ q.op = req[c].op /\ q.at = "first"
      BY <3>0, <2>5, EditedTags
    <3>3. Reads(c, q)
      BY <3>1
    <3> HIDE DEF q
    <3> QED BY <2>5, <3>2, <3>3, <2>1 DEF ReqType
  <2>6. req[c].op \in {"delete", "put", "remove", "tag"}
    <3>1. req[c].op = "create" => req[c].at # "front"
      BY Typed DEF CreateType, FrontRead
    <3> QED BY <2>0, <3>1, Kinds DEF FrontRead
  <2> QED BY <2>2, <2>3, <2>4, <2>5, <2>6
<1> QED BY <1>1, <1>2

(* A table is created where there is none, and so no item. *)
LEMMA BelongCreates ==
    ASSUME NosqlInv, BelongInv, NEW c \in Clients,
           CreateTable(c) \/ AzureCreateTable(c) \/ AzureAddMetadata(c)
    PROVE  BelongInv'
<1>0. req[c].op = "create" /\ req[c] \in CreateType /\ req[c].op \in Lifecycle
  BY Typed DEF CreateTable, AzureCreateTable, AzureAddMetadata, Is, Lifecycle
<1>1. CASE Fails(c)
  BY <1>1, BelongFails
<1>2. ASSUME NEW q, Continues(req[c], q), req' = [req EXCEPT ![c] = q],
             backend' = backend, mixed' = mixed, Sure => items' = {}
      PROVE  BelongInv'
  <2>1. Loose => Sure
    BY DEF Loose, Sure
  <2>2. Sure => Belong(items', native', meta', life')
    BY <1>2 DEF Belong
  <2>3. q = Idle \/ q.op = "create"
    BY <1>2, <1>0 DEF Continues
  <2>4. Loose => Fits(q, items', meta', life')
    BY <2>1, <2>3, <1>2 DEF Fits, Idle
  <2>5. Loose => \A d \in Clients : d # c => Fits(req[d], items', meta', life')
    BY <1>0, OthersFitLifecycle
  <2> QED BY <1>2, <2>2, <2>4, <2>5, BelongFrame
<1>3. Continues(req[c], Idle)
  BY IdleFits
<1>4. CASE CreateTable(c) /\ ~Fails(c)
  <2>1. backend # "azure" /\ meta = None /\ items' = items
    BY <1>4 DEF CreateTable, Is
  <2>2. Sure => items' = {}
    BY <2>1 DEF BelongInv, Belong
  <2> QED BY <1>2, <1>3, <1>4, <2>2 DEF CreateTable, Ends, Untouched
<1>5. CASE AzureCreateTable(c) /\ ~Fails(c)
  <2> DEFINE q == [req[c] EXCEPT !.at = "meta"]
  <2>1. q \in CreateType /\ q.op = "create"
    BY <1>0 DEF CreateType
  <2>2. Continues(req[c], q)
    BY <1>0, <2>1 DEF Continues, ReqType
  <2>3. backend = "azure" /\ ~native /\ items' = items
    BY <1>5 DEF AzureCreateTable, Is
  <2>4. Sure => items' = {}
    BY <2>3 DEF BelongInv, Belong
  <2> HIDE DEF q
  <2>5. req' = [req EXCEPT ![c] = q] /\ backend' = backend /\ mixed' = mixed
    BY <1>5 DEF AzureCreateTable, Goes, Untouched, q
  <2> QED BY <1>2, <2>2, <2>4, <2>5
<1>6. CASE AzureAddMetadata(c)
  <2>1. backend = "azure" /\ req[c].at = "meta" /\ items' = items
    BY <1>6 DEF AzureAddMetadata, Is
  <2>2. Sure => Loose
    BY <2>1 DEF Sure, Loose
  <2>3. Sure => items' = {}
    BY <1>0, <2>1, <2>2 DEF BelongInv, Fits
  <2> QED BY <1>2, <1>3, <1>6, <2>3 DEF AzureAddMetadata, Ends, Untouched
<1> QED BY <1>1, <1>4, <1>5, <1>6

(* The looks of a deletion: it goes on to drop the table when there is no   *)
(* item, or to take away all there are.                                     *)
LEMMA BelongDeleteReads ==
    ASSUME NosqlInv, BelongInv, NEW c \in Clients,
           \/ EtcdDeleteRead(c) \/ EtcdDeleteCheck(c) \/ GcpDeleteCheck(c) \/ GcpList(c)
           \/ AzureDeleteList(c) \/ AwsDeleteCheck(c)
    PROVE  BelongInv'
<1>0. req[c].op = "delete" /\ req[c] \in DeleteType
  BY Typed DEF EtcdDeleteRead, EtcdDeleteCheck, GcpDeleteCheck, GcpList, AzureDeleteList,
     AwsDeleteCheck, Is
<1>1. CASE Fails(c)
  BY <1>1, BelongFails
<1>2. ASSUME NEW q \in DeleteType, q.force = req[c].force, Reads(c, q),
             Loose /\ q.at = "drain" /\ backend # "etcd" => \A i \in items : i.loc \in q.left,
             Loose /\ q.at \in {"drop", "meta"} => items = {}
      PROVE  BelongInv'
  <2>1. q.op = "delete"
    BY DEF DeleteType
  <2>2. Continues(req[c], q)
    BY <1>0, <1>2, <2>1 DEF Continues, ReqType
  <2>3. Loose => Fits(q, items, meta, life)
    BY <1>2, <2>1 DEF Fits
  <2> QED BY <1>2, <2>2, <2>3, BelongReads
<1>3. ASSUME NEW a \in {"drain", "check", "drop", "list"}
      PROVE  /\ [req[c] EXCEPT !.at = a] \in DeleteType
             /\ [req[c] EXCEPT !.at = a].force = req[c].force
             /\ [req[c] EXCEPT !.at = a].at = a
  BY <1>0 DEF DeleteType
<1>4. CASE ~Fails(c) /\ EtcdDeleteRead(c)
  <2>1. \E a \in {"drain", "check"} : Reads(c, [req[c] EXCEPT !.at = a])
    BY <1>4 DEF EtcdDeleteRead
  <2>2. backend = "etcd"
    BY <1>4 DEF EtcdDeleteRead, Is
  <2> QED BY <1>2, <1>3, <2>1, <2>2
<1>5. CASE ~Fails(c) /\ EtcdDeleteCheck(c)
  <2>1. Reads(c, [req[c] EXCEPT !.at = "drop"]) /\ items = {}
    BY <1>5 DEF EtcdDeleteCheck
  <2> QED BY <1>2, <1>3, <2>1
<1>6. CASE ~Fails(c) /\ GcpDeleteCheck(c)
  <2>1. \/ Reads(c, [req[c] EXCEPT !.at = "drop"]) /\ items = {}
        \/ Reads(c, [req[c] EXCEPT !.at = "list"])
    BY <1>6 DEF GcpDeleteCheck
  <2> QED BY <1>2, <1>3, <2>1
<1>7. CASE ~Fails(c) /\ (GcpList(c) \/ AzureDeleteList(c))
  <2> DEFINE left == {i.loc : i \in items}
             a == IF items = {} THEN "drop" ELSE "drain"
             q == [req[c] EXCEPT !.left = left, !.at = a]
  <2>1. Reads(c, q)
    BY <1>7 DEF GcpList, AzureDeleteList, Listed
  <2>2. left \in SUBSET AnyLocation /\ \A i \in items : i.loc \in left
    BY DEF NosqlInv, TypeInv
  <2>3. a \in {"drop", "drain"} /\ (a = "drop" => items = {})
    OBVIOUS
  <2> HIDE DEF left, a
  <2>4. q \in DeleteType /\ q.force = req[c].force /\ q.left = left /\ q.at = a
    BY <1>0, <2>2, <2>3 DEF DeleteType
  <2> HIDE DEF q
  <2> QED BY <1>2, <2>1, <2>2, <2>3, <2>4
<1>8. CASE ~Fails(c) /\ AwsDeleteCheck(c)
  <2>1. Reads(c, [req[c] EXCEPT !.at = "drop"]) /\ ~Loose
    BY <1>8 DEF AwsDeleteCheck, Is, Loose
  <2> QED BY <1>2, <1>3, <2>1
<1> QED BY <1>1, <1>4, <1>5, <1>6, <1>7, <1>8

(* The writes of a deletion: what is taken away leaves the rest where it    *)
(* was, and the table goes when nothing is left.                            *)
LEMMA BelongDeleteWrites ==
    ASSUME NosqlInv, BelongInv, NEW c \in Clients,
           \/ InmemDeleteTable(c) \/ EtcdDrain(c) \/ EtcdDrop(c) \/ GcpDrain(c) \/ GcpDrop(c)
           \/ AzureDrain(c) \/ AzureDrop(c) \/ AzureDropMetadata(c) \/ AwsDeleteTable(c)
    PROVE  BelongInv'
<1>0. req[c].op = "delete" /\ req[c] \in DeleteType /\ req[c].op \in Lifecycle
  BY Typed DEF InmemDeleteTable, EtcdDrain, EtcdDrop, GcpDrain, GcpDrop, AzureDrain, AzureDrop,
     AzureDropMetadata, AwsDeleteTable, Is, Lifecycle
<1>1. CASE Fails(c)
  BY <1>1, BelongFails
<1>2. ASSUME NEW q, q = Idle \/ (q \in DeleteType /\ q.force = req[c].force),
             req' = [req EXCEPT ![c] = q], backend' = backend, mixed' = mixed,
             Sure => items' = {}
      PROVE  BelongInv'
  <2>1. q = Idle \/ q.op = "delete"
    BY <1>2 DEF DeleteType
  <2>2. Continues(req[c], q)
    BY <1>0, <1>2, <2>1 DEF Continues, ReqType
  <2>3. Loose => Sure
    BY DEF Loose, Sure
  <2>4. Sure => Belong(items', native', meta', life')
    BY <1>2 DEF Belong
  <2>5. Loose => Fits(q, items', meta', life')
    BY <1>2, <2>1, <2>3 DEF Fits, Idle
  <2>6. Loose => \A d \in Clients : d # c => Fits(req[d], items', meta', life')
    BY <1>0, OthersFitLifecycle
  <2> QED BY <1>2, <2>2, <2>4, <2>5, <2>6, BelongFrame
<1>3. ASSUME NEW a \in {"drop", "meta"}
      PROVE  [req[c] EXCEPT !.at = a] \in DeleteType /\ [req[c] EXCEPT !.at = a].force = req[c].force
  BY <1>0 DEF DeleteType
<1>4. CASE ~Fails(c) /\ (InmemDeleteTable(c) \/ AwsDeleteTable(c))
  <2>1. items' = {} /\ req' = [req EXCEPT ![c] = Idle] /\ backend' = backend /\ mixed' = mixed
    BY <1>4 DEF InmemDeleteTable, AwsDeleteTable, Ends, Untouched
  <2> QED BY <1>2, <2>1
<1>5. CASE EtcdDrain(c)
  <2> DEFINE q == [req[c] EXCEPT !.at = "drop"]
  <2>1. items' = {} /\ req' = [req EXCEPT ![c] = q] /\ backend' = backend /\ mixed' = mixed
    BY <1>5 DEF EtcdDrain, Goes, Untouched
  <2>2. q \in DeleteType /\ q.force = req[c].force
    BY <1>3
  <2> HIDE DEF q
  <2> QED BY <1>2, <2>1, <2>2
<1>6. CASE ~Fails(c) /\ (EtcdDrop(c) \/ GcpDrop(c))
  <2>1. /\ req[c].at = "drop" /\ backend \in {"etcd", "gcp"} /\ items' = items
        /\ req' = [req EXCEPT ![c] = Idle] /\ backend' = backend /\ mixed' = mixed
    BY <1>6 DEF EtcdDrop, GcpDrop, Is, Ends, Untouched
  <2>2. Sure => Loose
    BY <2>1 DEF Sure, Loose
  <2>3. Sure => items' = {}
    BY <1>0, <2>1, <2>2 DEF BelongInv, Fits
  <2> QED BY <1>2, <2>1, <2>3
<1>7. CASE ~Fails(c) /\ (GcpDrain(c) \/ AzureDrain(c))
  <2> DEFINE l0 == Next1(req[c].left)
             left == req[c].left \ {l0}
             a == IF left = {} THEN "drop" ELSE "drain"
             q == [req[c] EXCEPT !.left = left, !.at = a]
  <2>1. /\ req[c].at = "drain" /\ backend \in {"gcp", "azure"} /\ items' = items \ At(l0)
        /\ native' = native /\ life' = life /\ meta' = meta
        /\ req' = [req EXCEPT ![c] = q] /\ backend' = backend /\ mixed' = mixed
    BY <1>7 DEF GcpDrain, AzureDrain, Is, Goes, Untouched, Drained
  <2>2. a \in {"drop", "drain"} /\ (a = "drop" => left = {}) /\ left \in SUBSET AnyLocation
    BY <1>0 DEF DeleteType
  <2>3. Loose => \A i \in items' : i.loc \in left
    <3>1. Loose => \A i \in items : i.loc \in req[c].left
      BY <1>0, <2>1 DEF BelongInv, Fits
    <3> QED BY <2>1, <3>1 DEF At
  <2> HIDE DEF l0, left, a
  <2>4. /\ q \in DeleteType /\ q.op = "delete" /\ q.force = req[c].force
        /\ q.left = left /\ q.at = a
    BY <1>0, <2>2 DEF DeleteType
  <2> HIDE DEF q
  <2>5. Loose => Fits(q, items', meta', life')
    BY <2>2, <2>3, <2>4 DEF Fits
  <2>6. Continues(req[c], q)
    BY <1>0, <2>4 DEF Continues, ReqType
  <2>7. items' \subseteq items
    BY <2>1
  <2> QED BY <2>1, <2>5, <2>6, <2>7, LessStep
<1>8. CASE ~Fails(c) /\ AzureDrop(c)
  <2> DEFINE q == [req[c] EXCEPT !.at = "meta"]
  <2>1. items' = {} /\ req' = [req EXCEPT ![c] = q] /\ backend' = backend /\ mixed' = mixed
    BY <1>8 DEF AzureDrop, Goes, Untouched
  <2>2. q \in DeleteType /\ q.force = req[c].force
    BY <1>3
  <2> HIDE DEF q
  <2> QED BY <1>2, <2>1, <2>2
<1>9. CASE AzureDropMetadata(c)
  <2>1. /\ req[c].at = "meta" /\ backend = "azure" /\ items' = items
        /\ req' = [req EXCEPT ![c] = Idle] /\ backend' = backend /\ mixed' = mixed
    BY <1>9 DEF AzureDropMetadata, Is, Ends, Untouched
  <2>2. Sure => Loose
    BY <2>1 DEF Sure, Loose
  <2>3. Sure => items' = {}
    BY <1>0, <2>1, <2>2 DEF BelongInv, Fits
  <2> QED BY <1>2, <2>1, <2>3
<1> QED BY <1>1, <1>4, <1>5, <1>6, <1>7, <1>8, <1>9

(* An item is put under the schema of the table there is. *)
LEMMA BelongStores ==
    ASSUME NosqlInv, BelongInv, NEW c \in Clients, req[c].op = "put",
           NEW s, NEW k, NEW n, Stores(c, s, k, n),
           Sure => Exists /\ meta # None /\ s = meta.schema /\ n = life
    PROVE  BelongInv'
<1> DEFINE l0 == <<s, k>>
           new == [loc |-> l0, life |-> n]
<1>1. /\ items' = (items \ At(l0)) \cup {new} /\ req' = [req EXCEPT ![c] = Idle]
      /\ UNCHANGED <<backend, mixed, meta, native, life>>
  BY DEF Stores, Ends, Untouched
<1>2. new.loc[1] = s /\ new.life = n
  OBVIOUS
<1> HIDE DEF new, l0
<1>3. Sure => Belong(items', native', meta', life')
  BY <1>1, <1>2 DEF Belong, BelongInv, Exists
<1>4. Loose => \A d \in Clients : d # c => Fits(req[d], items', meta', life')
  BY <1>1, OthersFitPut
<1> QED BY <1>1, <1>3, <1>4, IdleFits, BelongFrame

LEMMA BelongPuts ==
    ASSUME NosqlInv, BelongInv, NEW c \in Clients, PutItem(c) \/ PutItemRead(c) \/ PutItemWrite(c)
    PROVE  BelongInv'
<1>0. req[c].op = "put" /\ req[c] \in PutType
  BY Typed DEF PutItem, PutItemRead, PutItemWrite, Is
<1>1. CASE Fails(c)
  BY <1>1, BelongFails
<1>2. CASE ~Fails(c) /\ PutItem(c)
  <2>1. backend # "azure" /\ meta # None /\ Stores(c, meta.schema, req[c].key, life)
    BY <1>2 DEF PutItem, Is
  <2> QED BY <1>0, <2>1, BelongStores DEF Exists
<1>3. CASE ~Fails(c) /\ PutItemRead(c)
  <2> DEFINE q == [req[c] EXCEPT !.at = "write", !.schema = meta.schema, !.life = life]
  <2>1. meta # None /\ Reads(c, q)
    BY <1>3 DEF PutItemRead
  <2>2. q \in PutType /\ q.op = "put" /\ q.schema = meta.schema /\ q.life = life
    BY <1>0, <2>1 DEF PutType, NosqlInv, TypeInv, MetaType
  <2> HIDE DEF q
  <2>3. Continues(req[c], q) /\ Fits(q, items, meta, life)
    BY <1>0, <2>1, <2>2 DEF Continues, ReqType, Fits
  <2> QED BY <2>1, <2>3, BelongReads
<1>4. CASE ~Fails(c) /\ PutItemWrite(c)
  <2>1. /\ req[c].at = "write" /\ backend \in {"etcd", "gcp", "azure"} /\ (backend = "azure" => native)
        /\ Stores(c, req[c].schema, req[c].key, req[c].life)
    BY <1>4 DEF PutItemWrite, Is
  <2>2. Sure => Loose
    BY <2>1 DEF Sure, Loose
  <2>3. Sure => Exists /\ meta # None /\ req[c].schema = meta.schema /\ req[c].life = life
    BY <1>0, <2>1, <2>2 DEF BelongInv, Fits, Exists
  <2> QED BY <1>0, <2>1, <2>3, BelongStores
<1> QED BY <1>1, <1>2, <1>3, <1>4

LEMMA BelongRemoves ==
    ASSUME NosqlInv, BelongInv, NEW c \in Clients, DeleteItem(c) \/ DeleteItemRead(c) \/ DeleteItemWrite(c)
    PROVE  BelongInv'
<1>0. req[c].op = "remove" /\ req[c] \in RemoveType
  BY Typed DEF DeleteItem, DeleteItemRead, DeleteItemWrite, Is
<1>1. CASE Fails(c)
  BY <1>1, BelongFails
<1>2. CASE Removes(c)
  BY <1>2, IdleFits, LessStep DEF Removes, Ends, Untouched
<1>3. CASE Reads(c, [req[c] EXCEPT !.at = "write"])
  <2> DEFINE q == [req[c] EXCEPT !.at = "write"]
  <2>1. q \in RemoveType /\ q.op = "remove" /\ q.key = req[c].key
    BY <1>0 DEF RemoveType
  <2>2. Continues(req[c], q) /\ Fits(q, items, meta, life)
    BY <1>0, <2>1 DEF Continues, ReqType, Fits
  <2> QED BY <1>3, <2>2, BelongReads
<1> QED BY <1>1, <1>2, <1>3 DEF DeleteItem, DeleteItemRead, DeleteItemWrite

(* Tags are written with the schema the table has. *)
LEMMA BelongSetsMeta ==
    ASSUME NosqlInv, BelongInv, NEW c \in Clients, NEW m, SetsMeta(c, m),
           Sure => m = meta \/ (meta # None /\ m # None /\ m.schema = meta.schema)
    PROVE  BelongInv'
<1>1. /\ meta' = m /\ req' = [req EXCEPT ![c] = Idle]
      /\ UNCHANGED <<backend, mixed, native, items, life>>
  BY DEF SetsMeta, Ends, Untouched
<1>2. Loose => Sure
  BY DEF Loose, Sure
<1>3. /\ Sure => Belong(items, native, m, life)
      /\ Loose => \A d \in Clients : Fits(req[d], items, m, life)
  BY <1>2 DEF BelongInv, Belong, Fits
<1> QED BY <1>1, <1>3, IdleFits, BelongFrame

LEMMA BelongTags ==
    ASSUME NosqlInv, BelongInv, NEW c \in Clients, TagSteps(c)
    PROVE  BelongInv'
<1>0. /\ req[c].op = "tag" /\ req[c] \in TagType
      /\ req[c].want \in SUBSET Tags /\ req[c].left \in SUBSET Tags
  BY Typed DEF TagSteps, UpdateTableTags, TagsRead, EtcdTagsWrite, AzureTagsWrite, GcpTagsWrite,
     AwsListTags, AwsUntag, AwsRetag, Is, TagType
<1>1. meta \in MetaType \cup {None} /\ (req[c].at = "write" => req[c].meta \in MetaType)
  BY <1>0 DEF NosqlInv, TypeInv
<1>2. ASSUME NEW m \in MetaType, NEW t \in SUBSET Tags
      PROVE  /\ [m EXCEPT !.tags = t] \in MetaType /\ [m EXCEPT !.tags = t] # None
             /\ [m EXCEPT !.tags = t].schema = m.schema
  <2>1. [m EXCEPT !.tags = t] \in MetaType /\ [m EXCEPT !.tags = t].schema = m.schema
    BY DEF MetaType
  <2> QED BY <2>1, MetaAssumption
<1>3. ASSUME NEW q \in TagType, Reads(c, q),
             q.at = "write" => q.meta \in MetaType /\ meta # None /\ q.meta.schema = meta.schema
      PROVE  BelongInv'
  <2>1. q.op = "tag"
    BY DEF TagType
  <2>2. Continues(req[c], q) /\ Fits(q, items, meta, life)
    BY <1>0, <1>3, <2>1 DEF Continues, ReqType, Fits
  <2> QED BY <1>3, <2>2, BelongReads
<1>4. ASSUME NEW t \in SUBSET Tags, meta # None, SetsMeta(c, [meta EXCEPT !.tags = t])
      PROVE  BelongInv'
  BY <1>1, <1>2, <1>4, BelongSetsMeta
<1>5. CASE Fails(c)
  BY <1>5, BelongFails
<1>6. CASE ~Fails(c) /\ UpdateTableTags(c)
  BY <1>0, <1>4, <1>6 DEF UpdateTableTags
<1>7. CASE ~Fails(c) /\ TagsRead(c)
  <2> DEFINE q == [req[c] EXCEPT !.at = "write", !.meta = meta]
  <2>1. meta # None /\ Reads(c, q)
    BY <1>7 DEF TagsRead
  <2>2. q \in TagType /\ q.meta = meta /\ q.meta \in MetaType
    BY <1>0, <1>1, <2>1 DEF TagType
  <2> HIDE DEF q
  <2> QED BY <2>1, <2>2, <1>3
<1>8. CASE ~Fails(c) /\ (EtcdTagsWrite(c) \/ AzureTagsWrite(c))
  <2> DEFINE n == [req[c].meta EXCEPT !.tags = req[c].want]
  <2>0. req[c].at = "write" /\ backend \in {"etcd", "azure"}
    BY <1>8 DEF EtcdTagsWrite, AzureTagsWrite, Is
  <2>a. n \in MetaType /\ n # None /\ n.schema = req[c].meta.schema
    BY <1>0, <1>1, <1>2, <2>0
  <2>b. SetsMeta(c, n) \/ SetsMeta(c, Upserted(n))
    BY <1>8 DEF EtcdTagsWrite, AzureTagsWrite, Is, Retagged
  <2> HIDE DEF n
  <2>c. Upserted(n) # None /\ Upserted(n).schema = n.schema
    BY <2>a, UpsertedMeta
  <2>d. PICK m : SetsMeta(c, m) /\ m # None /\ m.schema = n.schema
    BY <2>a, <2>b, <2>c
  <2>1. req[c].at = "write" /\ backend \in {"etcd", "azure"} /\ SetsMeta(c, m)
    BY <2>0, <2>d
  <2>2. m # None /\ m.schema = req[c].meta.schema
    BY <2>a, <2>d
  <2>3. Sure => Loose
    BY <2>1 DEF Sure, Loose
  <2>4. Sure => meta # None /\ m.schema = meta.schema
    BY <1>0, <2>1, <2>2, <2>3 DEF BelongInv, Fits
  <2> QED BY <2>1, <2>2, <2>4, BelongSetsMeta
<1>9. CASE GcpTagsWrite(c)
  <2> DEFINE m == [meta EXCEPT !.tags = req[c].want]
  <2>1. req[c].at = "write" /\ backend = "gcp" /\ SetsMeta(c, GcpPatched(req[c]))
    BY <1>9 DEF GcpTagsWrite, Is
  <2>2. Sure => Loose
    BY <2>1 DEF Sure, Loose
  <2>3. Sure => meta # None
    BY <1>0, <2>1, <2>2 DEF BelongInv, Fits
  <2>4. meta # None => GcpPatched(req[c]) # None /\ GcpPatched(req[c]).schema = meta.schema
    BY <1>0, <1>1, <1>2 DEF GcpPatched, Retagged
  <2> QED BY <2>1, <2>3, <2>4, BelongSetsMeta
<1>10. CASE ~Fails(c) /\ AwsListTags(c)
  <2> DEFINE left == AwsUnwanted(req[c])
             q == [req[c] EXCEPT !.at = "untag", !.left = left]
  <2>1. meta # None /\ Reads(c, q)
    BY <1>10 DEF AwsListTags
  <2>2. left \in SUBSET Tags
    BY <1>1, <2>1 DEF AwsUnwanted, MetaType
  <2> HIDE DEF left
  <2>3. q \in TagType /\ q.at = "untag"
    BY <1>0, <2>2 DEF TagType
  <2> HIDE DEF q
  <2> QED BY <2>1, <2>3, <1>3
<1>11. CASE ~Fails(c) /\ AwsUntag(c)
  <2> DEFINE q == [req[c] EXCEPT !.at = "retag"]
  <2>1. q \in TagType /\ q.at = "retag" /\ q.op = "tag"
    BY <1>0 DEF TagType
  <2>2. Continues(req[c], q) /\ Fits(q, items', meta', life')
    BY <1>0, <2>1 DEF Continues, ReqType, Fits
  <2>3. meta' = meta \/ (meta # None /\ meta' # None /\ (meta').schema = meta.schema)
    <3>1. CASE req[c].left = {}
      BY <1>11, <3>1 DEF AwsUntag
    <3>2. CASE req[c].left # {}
      <4>1. meta \in MetaType /\ meta # None /\ meta' = [meta EXCEPT !.tags = @ \ req[c].left]
        BY <1>1, <1>11, <3>2 DEF AwsUntag
      <4>2. meta.tags \ req[c].left \in SUBSET Tags
        BY <4>1 DEF MetaType
      <4> QED BY <4>1, <4>2, <1>2
    <3> QED BY <3>1, <3>2
  <2>4. /\ req' = [req EXCEPT ![c] = q]
        /\ UNCHANGED <<backend, mixed, native, items, life>>
    BY <1>11 DEF AwsUntag, Goes, Untouched
  <2> HIDE DEF q
  <2> QED BY <2>2, <2>3, <2>4, LessStep
<1>12. CASE ~Fails(c) /\ AwsRetag(c)
  <2>1. CASE req[c].want = {}
    BY <1>12, <2>1, BelongSetsMeta DEF AwsRetag
  <2>2. CASE req[c].want # {}
    <3>1. meta \in MetaType /\ meta # None /\ SetsMeta(c, [meta EXCEPT !.tags = @ \cup req[c].want])
      BY <1>1, <1>12, <2>2 DEF AwsRetag
    <3>2. meta.tags \cup req[c].want \in SUBSET Tags
      BY <1>0, <3>1 DEF MetaType
    <3> QED BY <3>1, <3>2, <1>4
  <2> QED BY <2>1, <2>2
<1> QED BY <1>5, <1>6, <1>7, <1>8, <1>9, <1>10, <1>11, <1>12 DEF TagSteps

(* A request that clashes with one under way makes the history mixed. *)
LEMMA BelongBegin ==
    ASSUME NosqlInv, BelongInv, NEW c \in Clients, NEW r \in ReqType, r.at \in {"front", "first"},
           Begin(c, r)
    PROVE  BelongInv'
<1>0. /\ req'[c] = r /\ \A d \in Clients : d # c => req'[d] = req[d]
      /\ UNCHANGED <<backend, meta, native, items, life>>
      /\ ~mixed' => ~mixed /\ \A d \in Running(c) : ~Clash(r, req[d])
  BY DEF NosqlInv, TypeInv, Begin
<1>1. (Sure' => Sure) /\ (Loose' => Loose)
  BY <1>0 DEF Sure, Loose
<1>2. Unmixed'
  <2> SUFFICES ASSUME ~mixed', NEW a \in Clients, NEW b \in Clients, a # b, req'[a] # Idle, req'[b] # Idle
               PROVE  ~Clash(req'[a], req'[b])
    BY DEF Unmixed, Clash, Idle
  <2>1. \A d \in Clients : d # c /\ req[d] # Idle => ~Clash(r, req[d]) /\ ~Clash(req[d], r)
    BY <1>0 DEF Running, Clash
  <2> QED BY <1>0, <2>1 DEF BelongInv, Unmixed
<1>3. Sure' => Belong(items, native, meta, life)'
  BY <1>0, <1>1 DEF BelongInv, Belong
<1>4. Loose' => \A d \in Clients : Fits(req[d], items, meta, life)'
  <2> SUFFICES ASSUME Loose', NEW d \in Clients PROVE Fits(req'[d], items, meta, life)
    BY <1>0 DEF Fits
  <2>1. CASE d = c
    BY <1>0, <2>1 DEF Fits
  <2>2. CASE d # c
    BY <1>0, <1>1, <2>2 DEF BelongInv
  <2> QED BY <2>1, <2>2
<1> QED BY <1>2, <1>3, <1>4 DEF BelongInv

LEMMA BelongInvInit == NosqlInit => BelongInv
BY DEF NosqlInit, BelongInv, Unmixed, Belong, Fits, Idle

LEMMA BelongInvStep == NosqlInv /\ BelongInv /\ [NosqlNext]_nosqlVars => BelongInv'
<1> SUFFICES ASSUME NosqlInv, BelongInv, [NosqlNext]_nosqlVars PROVE BelongInv'
  OBVIOUS
<1>1. CASE UNCHANGED nosqlVars
  BY <1>1 DEF nosqlVars, BelongInv, Unmixed, Clash, Sure, Loose, Belong, Fits
<1>2. ASSUME NEW c \in Clients, Dynamodb(c) \/ Firestore(c) \/ Cosmos(c) PROVE BelongInv'
  BY <1>2, Beginnings, BelongBegin
<1>3. ASSUME NEW c \in Clients, Step(c) PROVE BelongInv'
  BY <1>3, BelongFrontRead, BelongCreates, BelongDeleteReads, BelongDeleteWrites, BelongPuts,
     BelongRemoves, BelongTags DEF Step, TagSteps
<1>4. ASSUME NEW c \in Clients, Crash(c) PROVE BelongInv'
  BY <1>4, BelongFails DEF Crash
<1> QED BY <1>1, <1>2, <1>3, <1>4 DEF NosqlNext

(* ItemsBelong holds in every reachable state: unless the table was created *)
(* or deleted while something else was written, and on inmem and aws        *)
(* always, what is stored under its name was put into this very table and   *)
(* under its schema, whatever failed half way in DeleteTable's loops,       *)
(* CreateTable's two writes, PutItem's or UpdateTableTags' read and write.  *)
THEOREM ItemsAlwaysBelong == NosqlSpec => []ItemsBelong
<1>1. BelongInv => ItemsBelong
  BY DEF BelongInv, ItemsBelong, Belong, Sure, Exists
<1> QED BY <1>1, NosqlInvariant, BelongInvInit, BelongInvStep, PTL DEF NosqlSpec

-----------------------------------------------------------------------------
(* What a request that ran alone was answered.  Such a request is the only  *)
(* one there is, and so what it has read or done so far is still so:        *)
(* OnTheWay says this of request r, of the backend b, the items S, the      *)
(* metadata m and of azure's table t.                                       *)
OnTheWay(r, b, S, m, t) ==
    /\ r.op = "create" /\ r.at = "meta" => t
    /\ r.op = "delete" /\ r.at = "drain" /\ b = "gcp" => \A i \in S : i.loc \in r.left
    /\ r.op = "delete" /\ r.at = "drop" /\ b \in {"etcd", "gcp"} => S = {}
    /\ r.op = "delete" /\ r.at = "meta" => S = {} /\ ~t
    /\ r.op = "put" /\ r.at = "write" => m # None /\ m.schema = r.schema
    /\ r.op = "tag" /\ r.at = "untag" => m # None /\ r.left = m.tags \ r.want
    /\ r.op = "tag" /\ r.at = "retag" => m # None /\ m.tags \subseteq r.want

AloneInv ==
    \A c \in Clients : alone = c =>
        /\ \A d \in Clients \ {c} : req[d] = Idle
        /\ OnTheWay(req[c], backend, items, meta, native)

(* A request that goes on keeps the invariant if it still is on its way.    *)
LEMMA AloneGoes ==
    ASSUME NosqlInv, AloneInv, NEW c \in Clients, NEW q, Goes(c, q), req[c] # Idle,
           alone = c => OnTheWay(q, backend', items', meta', native')
    PROVE  AloneInv'
<1> SUFFICES ASSUME NEW a \in Clients, alone' = a
             PROVE  /\ \A d \in Clients \ {a} : req'[d] = Idle
                    /\ OnTheWay(req'[a], backend', items', meta', native')
  BY DEF AloneInv
<1>1. alone = a /\ req' = [req EXCEPT ![c] = q] /\ req \in [Clients -> ReqType]
  BY DEF Goes, NosqlInv, TypeInv
<1>2. a = c
  BY <1>1 DEF AloneInv
<1>3. req'[a] = q
  BY <1>1, <1>2
<1>4. \A d \in Clients \ {a} : req'[d] = Idle
  BY <1>1, <1>2 DEF AloneInv
<1> QED BY <1>1, <1>2, <1>3, <1>4

(* A request that ends leaves nobody alone.                                 *)
LEMMA AloneEnds ==
    ASSUME NEW c, NEW res, Ends(c, res)
    PROVE  AloneInv'
BY NoneAssumption DEF Ends, AloneInv

LEMMA AloneFails ==
    ASSUME NEW c, Fails(c)
    PROVE  AloneInv'
BY AloneEnds DEF Fails

LEMMA AloneReads ==
    ASSUME NosqlInv, AloneInv, NEW c \in Clients, NEW q, Reads(c, q), req[c] # Idle,
           alone = c => OnTheWay(q, backend, items, meta, native)
    PROVE  AloneInv'
<1>1. Goes(c, q) /\ backend' = backend /\ items' = items /\ meta' = meta /\ native' = native
  BY DEF Reads, Untouched
<1> QED BY <1>1, AloneGoes

(* A request that begins, alone or not, has read nothing yet.               *)
LEMMA AloneBegin ==
    ASSUME NosqlInv, NEW c \in Clients, NEW r, Begin(c, r), r.at \in {"front", "first"}
    PROVE  AloneInv'
<1> SUFFICES ASSUME NEW a \in Clients, alone' = a
             PROVE  /\ \A d \in Clients \ {a} : req'[d] = Idle
                    /\ OnTheWay(req'[a], backend', items', meta', native')
  BY DEF AloneInv
<1>1. a = c /\ Running(c) = {}
  BY NoneAssumption DEF Begin
<1>2. req' = [req EXCEPT ![c] = r] /\ req \in [Clients -> ReqType]
  BY DEF Begin, NosqlInv, TypeInv
<1>3. \A d \in Clients \ {a} : req'[d] = Idle
  BY <1>1, <1>2 DEF Running
<1>4. req'[a] = r
  BY <1>1, <1>2
<1> QED BY <1>3, <1>4 DEF OnTheWay

LEMMA AloneFrontRead ==
    ASSUME NosqlInv, AloneInv, NEW c \in Clients, FrontRead(c)
    PROVE  AloneInv'
<1>1. CASE meta = None
  BY <1>1, AloneFails DEF FrontRead
<1>2. CASE meta # None
  <2>0. req[c] \in ReqType /\ req[c] # Idle
    BY Typed DEF FrontRead
  <2>1. PICK q : Reads(c, q) /\ q.at = "first"
    <3>1. CASE req[c].op = "delete"
      <4>1. req[c] \in DeleteType
        BY <3>1, Typed
      <4> QED BY <1>2, <3>1, <4>1 DEF FrontRead, DeleteType
    <3>2. CASE req[c].op = "put"
      <4>1. req[c] \in PutType
        BY <3>2, Typed
      <4>2. [req[c] EXCEPT !.at = "first", !.shape = meta.schema].at = "first"
        BY <4>1 DEF PutType
      <4> QED BY <1>2, <3>2, <4>2 DEF FrontRead
    <3>3. CASE req[c].op = "remove"
      <4>1. req[c] \in RemoveType
        BY <3>3, Typed
      <4>2. [req[c] EXCEPT !.at = "first", !.schema = meta.schema].at = "first"
        BY <4>1 DEF RemoveType
      <4> QED BY <1>2, <3>3, <4>2 DEF FrontRead
    <3>4. CASE req[c].op = "tag"
      <4>1. PICK seen \in TagsSeen : Reads(c, Edited(req[c], seen))
        BY <1>2, <3>4 DEF FrontRead
      <4>2. Edited(req[c], seen).at = "first"
        BY <1>2, <3>4, EditedTags
      <4> QED BY <4>1, <4>2
    <3>5. req[c].op \in {"delete", "put", "remove", "tag"}
      <4>1. req[c].op = "create" => req[c].at # "front"
        BY Typed DEF CreateType
      <4> QED BY <2>0, <4>1, Kinds DEF FrontRead
    <3> QED BY <3>1, <3>2, <3>3, <3>4, <3>5
  <2>2. OnTheWay(q, backend, items, meta, native)
    BY <2>1 DEF OnTheWay
  <2> QED BY <2>0, <2>1, <2>2, AloneReads
<1> QED BY <1>1, <1>2

LEMMA AloneCreates ==
    ASSUME NosqlInv, AloneInv, NEW c \in Clients,
           CreateTable(c) \/ AzureCreateTable(c) \/ AzureAddMetadata(c)
    PROVE  AloneInv'
<1>0. req[c].op = "create" /\ req[c] # Idle
  BY DEF CreateTable, AzureCreateTable, AzureAddMetadata, Is, Idle
<1>1. CASE CreateTable(c) \/ AzureAddMetadata(c)
  BY <1>1, AloneFails, AloneEnds DEF CreateTable, AzureAddMetadata
<1>2. CASE AzureCreateTable(c)
  <2>1. CASE native
    BY <1>2, <2>1, AloneFails DEF AzureCreateTable
  <2>2. CASE ~native
    <3> DEFINE q == [req[c] EXCEPT !.at = "meta"]
    <3>1. q.op = "create"
      BY <1>0, Typed DEF CreateType
    <3>2. native' /\ Goes(c, q)
      BY <1>2, <2>2 DEF AzureCreateTable
    <3> HIDE DEF q
    <3>3. OnTheWay(q, backend', items', meta', native')
      BY <3>1, <3>2 DEF OnTheWay
    <3> QED BY <1>0, <3>2, <3>3, AloneGoes
  <2> QED BY <2>1, <2>2
<1> QED BY <1>1, <1>2

(* What the requests of a deletion become.                                  *)
LEMMA DeleteBecomes ==
    ASSUME NosqlInv, NEW c \in Clients, req[c].op = "delete", NEW a, NEW left
    PROVE  /\ [req[c] EXCEPT !.at = a].op = "delete"
           /\ [req[c] EXCEPT !.at = a].at = a
           /\ [req[c] EXCEPT !.left = left, !.at = a].op = "delete"
           /\ [req[c] EXCEPT !.left = left, !.at = a].at = a
           /\ [req[c] EXCEPT !.left = left, !.at = a].left = left
<1>1. req[c] \in DeleteType
  BY Typed
<1> QED BY <1>1 DEF DeleteType

LEMMA AloneDeleteReads ==
    ASSUME NosqlInv, AloneInv, NEW c \in Clients,
           \/ EtcdDeleteRead(c) \/ EtcdDeleteCheck(c) \/ GcpDeleteCheck(c) \/ GcpList(c)
           \/ AzureDeleteList(c) \/ AwsDeleteCheck(c)
    PROVE  AloneInv'
<1>0. req[c].op = "delete" /\ req[c] # Idle
  BY DEF EtcdDeleteRead, EtcdDeleteCheck, GcpDeleteCheck, GcpList, AzureDeleteList,
     AwsDeleteCheck, Is, Idle
<1>a. ASSUME NEW a, Reads(c, [req[c] EXCEPT !.at = a]),
             a \in {"drain", "check", "list", "drop"},
             a = "drain" => backend # "gcp",
             a = "drop" /\ backend \in {"etcd", "gcp"} => items = {}
      PROVE  AloneInv'
  <2> DEFINE q == [req[c] EXCEPT !.at = a]
  <2>1. q.op = "delete" /\ q.at = a
    BY <1>0, DeleteBecomes
  <2>2. Reads(c, q)
    BY <1>a
  <2> HIDE DEF q
  <2>3. OnTheWay(q, backend, items, meta, native)
    BY <1>a, <2>1 DEF OnTheWay
  <2> QED BY <1>0, <2>2, <2>3, AloneReads
<1>b. ASSUME Reads(c, Listed(req[c], "drain")) PROVE AloneInv'
  <2> DEFINE left == {i.loc : i \in items}
             a == IF items = {} THEN "drop" ELSE "drain"
             q == [req[c] EXCEPT !.left = left, !.at = a]
  <2>1. Reads(c, q)
    BY <1>b DEF Listed
  <2>2. ((a = "drop" /\ items = {}) \/ a = "drain") /\ \A i \in items : i.loc \in left
    OBVIOUS
  <2> HIDE DEF a, left
  <2>3. q.op = "delete" /\ q.at = a /\ q.left = left
    BY <1>0, DeleteBecomes
  <2> HIDE DEF q
  <2>4. OnTheWay(q, backend, items, meta, native)
    BY <2>2, <2>3 DEF OnTheWay
  <2> QED BY <1>0, <2>1, <2>4, AloneReads
<1>1. CASE EtcdDeleteRead(c)
  <2>1. CASE req[c].force
    <3>1. backend = "etcd" /\ (Fails(c) \/ Reads(c, [req[c] EXCEPT !.at = "drain"]))
      BY <1>1, <2>1 DEF EtcdDeleteRead, Is
    <3> QED BY <3>1, <1>a, AloneFails
  <2>2. CASE ~req[c].force
    <3>1. Fails(c) \/ Reads(c, [req[c] EXCEPT !.at = "check"])
      BY <1>1, <2>2 DEF EtcdDeleteRead
    <3> QED BY <3>1, <1>a, AloneFails
  <2> QED BY <2>1, <2>2
<1>2. CASE EtcdDeleteCheck(c)
  BY <1>2, <1>a, AloneFails DEF EtcdDeleteCheck
<1>3. CASE GcpDeleteCheck(c)
  <2>1. CASE items = {}
    <3>1. Fails(c) \/ Reads(c, [req[c] EXCEPT !.at = "drop"])
      BY <1>3, <2>1 DEF GcpDeleteCheck
    <3> QED BY <2>1, <3>1, <1>a, AloneFails
  <2>2. CASE items # {}
    <3>1. Fails(c) \/ Reads(c, [req[c] EXCEPT !.at = "list"])
      BY <1>3, <2>2 DEF GcpDeleteCheck
    <3> QED BY <3>1, <1>a, AloneFails
  <2> QED BY <2>1, <2>2
<1>4. CASE GcpList(c) \/ AzureDeleteList(c)
  BY <1>4, <1>b, AloneFails DEF GcpList, AzureDeleteList
<1>5. CASE AwsDeleteCheck(c)
  <2>1. backend = "aws" /\ (Fails(c) \/ Reads(c, [req[c] EXCEPT !.at = "drop"]))
    BY <1>5 DEF AwsDeleteCheck, Is
  <2> QED BY <2>1, <1>a, AloneFails
<1> QED BY <1>1, <1>2, <1>3, <1>4, <1>5

(* A client whose request makes a call is not idle.                         *)
LEMMA StepRuns ==
    ASSUME NEW c \in Clients, Step(c)
    PROVE  req[c] # Idle
BY DEF Step, Is, Idle, FrontRead, CreateTable, AzureCreateTable, AzureAddMetadata, InmemDeleteTable,
   EtcdDeleteRead, EtcdDeleteCheck, EtcdDrain, EtcdDrop, GcpDeleteCheck, GcpList, GcpDrain, GcpDrop,
   AzureDeleteList, AzureDrain, AzureDrop, AzureDropMetadata, AwsDeleteCheck, AwsDeleteTable,
   PutItem, PutItemRead, PutItemWrite, DeleteItem, DeleteItemRead, DeleteItemWrite,
   UpdateTableTags, TagsRead, EtcdTagsWrite, AzureTagsWrite, GcpTagsWrite, AwsListTags,
   AwsUntag, AwsRetag

LEMMA AloneDeleteWrites ==
    ASSUME NosqlInv, AloneInv, NEW c \in Clients,
           \/ InmemDeleteTable(c) \/ EtcdDrain(c) \/ EtcdDrop(c) \/ GcpDrain(c) \/ GcpDrop(c)
           \/ AzureDrain(c) \/ AzureDrop(c) \/ AzureDropMetadata(c) \/ AwsDeleteTable(c)
    PROVE  AloneInv'
<1>0. req[c].op = "delete" /\ req[c] # Idle
  BY DEF InmemDeleteTable, EtcdDrain, EtcdDrop, GcpDrain, GcpDrop, AzureDrain, AzureDrop,
     AzureDropMetadata, AwsDeleteTable, Is, Idle
<1>a. ASSUME Goes(c, Drained(req[c])), items' = items \ At(Next1(req[c].left)),
             backend' = backend, backend # "etcd", req[c].at = "drain"
      PROVE  AloneInv'
  <2> DEFINE left == req[c].left \ {Next1(req[c].left)}
             a == IF left = {} THEN "drop" ELSE "drain"
             q == [req[c] EXCEPT !.left = left, !.at = a]
  <2>1. Goes(c, q)
    BY <1>a DEF Drained
  <2>2. (a = "drop" /\ left = {}) \/ a = "drain"
    OBVIOUS
  <2>3. alone = c /\ backend = "gcp" => \A i \in items' : i.loc \in left
    BY <1>0, <1>a DEF AloneInv, OnTheWay, At
  <2> HIDE DEF a, left
  <2>4. q.op = "delete" /\ q.at = a /\ q.left = left
    BY <1>0, DeleteBecomes
  <2> HIDE DEF q
  <2>5. alone = c => OnTheWay(q, backend', items', meta', native')
    BY <1>a, <2>2, <2>3, <2>4 DEF OnTheWay
  <2> QED BY <1>0, <2>1, <2>5, AloneGoes
<1>1. CASE InmemDeleteTable(c) \/ EtcdDrop(c) \/ GcpDrop(c) \/ AzureDropMetadata(c) \/ AwsDeleteTable(c)
  BY <1>1, AloneFails, AloneEnds DEF InmemDeleteTable, EtcdDrop, GcpDrop, AzureDropMetadata,
     AwsDeleteTable
<1>2. CASE EtcdDrain(c)
  <2> DEFINE q == [req[c] EXCEPT !.at = "drop"]
  <2>1. Goes(c, q) /\ items' = {}
    BY <1>2 DEF EtcdDrain
  <2>2. q.op = "delete" /\ q.at = "drop"
    BY <1>0, DeleteBecomes
  <2> HIDE DEF q
  <2>3. OnTheWay(q, backend', items', meta', native')
    BY <2>1, <2>2 DEF OnTheWay
  <2> QED BY <1>0, <2>1, <2>3, AloneGoes
<1>3. CASE GcpDrain(c)
  BY <1>3, <1>a DEF GcpDrain, Untouched, Is
<1>4. CASE AzureDrain(c)
  BY <1>4, <1>a, AloneFails DEF AzureDrain, Untouched, Is
<1>5. CASE AzureDrop(c)
  <2>1. CASE ~native
    BY <1>5, <2>1, AloneFails DEF AzureDrop
  <2>2. CASE native
    <3> DEFINE q == [req[c] EXCEPT !.at = "meta"]
    <3>1. Goes(c, q) /\ items' = {} /\ native' = FALSE
      BY <1>5, <2>2 DEF AzureDrop
    <3>2. q.op = "delete" /\ q.at = "meta"
      BY <1>0, DeleteBecomes
    <3> HIDE DEF q
    <3>3. OnTheWay(q, backend', items', meta', native')
      BY <3>1, <3>2 DEF OnTheWay
    <3> QED BY <1>0, <3>1, <3>3, AloneGoes
  <2> QED BY <2>1, <2>2
<1> QED BY <1>1, <1>2, <1>3, <1>4, <1>5

LEMMA AloneItems ==
    ASSUME NosqlInv, AloneInv, NEW c \in Clients,
           \/ PutItem(c) \/ PutItemRead(c) \/ PutItemWrite(c)
           \/ DeleteItem(c) \/ DeleteItemRead(c) \/ DeleteItemWrite(c)
    PROVE  AloneInv'
<1>1. CASE PutItem(c) \/ PutItemWrite(c) \/ DeleteItem(c) \/ DeleteItemWrite(c)
  BY <1>1, AloneFails, AloneEnds DEF PutItem, PutItemWrite, DeleteItem, DeleteItemWrite, Stores, Removes
<1>2. CASE PutItemRead(c)
  <2>1. CASE meta = None \/ ~HasKey(req[c])
    BY <1>2, <2>1, AloneFails DEF PutItemRead
  <2>2. CASE ~(meta = None \/ ~HasKey(req[c]))
    <3> DEFINE q == [req[c] EXCEPT !.at = "write", !.schema = meta.schema, !.life = life]
    <3>1. Reads(c, q) /\ req[c].op = "put" /\ req[c] # Idle /\ req[c] \in PutType
      BY <1>2, <2>2, Typed DEF PutItemRead, Is, Idle
    <3>2. q.op = "put" /\ q.schema = meta.schema
      BY <3>1 DEF PutType
    <3> HIDE DEF q
    <3>3. OnTheWay(q, backend, items, meta, native)
      BY <2>2, <3>2 DEF OnTheWay
    <3> QED BY <3>1, <3>3, AloneReads
  <2> QED BY <2>1, <2>2
<1>3. CASE DeleteItemRead(c)
  <2>1. CASE meta = None
    BY <1>3, <2>1, AloneFails DEF DeleteItemRead
  <2>2. CASE meta # None
    <3> DEFINE q == [req[c] EXCEPT !.at = "write"]
    <3>1. Reads(c, q) /\ req[c].op = "remove" /\ req[c] # Idle /\ req[c] \in RemoveType
      BY <1>3, <2>2, Typed DEF DeleteItemRead, Is, Idle
    <3>2. q.op = "remove"
      BY <3>1 DEF RemoveType
    <3> HIDE DEF q
    <3>3. OnTheWay(q, backend, items, meta, native)
      BY <3>2 DEF OnTheWay
    <3> QED BY <3>1, <3>3, AloneReads
  <2> QED BY <2>1, <2>2
<1> QED BY <1>1, <1>2, <1>3

(* Metadata with other tags.                                                *)
LEMMA RetaggedMeta ==
    ASSUME NEW m \in MetaType, NEW t \in SUBSET Tags
    PROVE  /\ [m EXCEPT !.tags = t] \in MetaType
           /\ [m EXCEPT !.tags = t].tags = t
           /\ [m EXCEPT !.tags = t] # None
<1>1. [m EXCEPT !.tags = t] \in MetaType /\ [m EXCEPT !.tags = t].tags = t
  BY DEF MetaType
<1> QED BY <1>1, MetaAssumption

LEMMA AloneTags ==
    ASSUME NosqlInv, AloneInv, NEW c \in Clients, TagSteps(c)
    PROVE  AloneInv'
<1>0. req[c].op = "tag" /\ req[c] # Idle /\ req[c] \in TagType
  BY Typed DEF TagSteps, UpdateTableTags, TagsRead, EtcdTagsWrite, AzureTagsWrite, GcpTagsWrite,
     AwsListTags, AwsUntag, AwsRetag, Is, Idle
<1>1. CASE UpdateTableTags(c) \/ EtcdTagsWrite(c) \/ AzureTagsWrite(c) \/ GcpTagsWrite(c) \/ AwsRetag(c)
  BY <1>1, AloneFails, AloneEnds DEF UpdateTableTags, EtcdTagsWrite, AzureTagsWrite, GcpTagsWrite,
     AwsRetag, SetsMeta
<1>2. CASE TagsRead(c)
  <2>1. CASE meta = None
    BY <1>2, <2>1, AloneFails DEF TagsRead
  <2>2. CASE meta # None
    <3> DEFINE q == [req[c] EXCEPT !.at = "write", !.meta = meta]
    <3>1. Reads(c, q)
      BY <1>2, <2>2 DEF TagsRead
    <3>2. q.op = "tag" /\ q.at = "write"
      BY <1>0 DEF TagType
    <3> HIDE DEF q
    <3>3. OnTheWay(q, backend, items, meta, native)
      BY <3>2 DEF OnTheWay
    <3> QED BY <1>0, <3>1, <3>3, AloneReads
  <2> QED BY <2>1, <2>2
<1>3. CASE AwsListTags(c)
  <2>1. CASE meta = None
    BY <1>3, <2>1, AloneFails DEF AwsListTags
  <2>2. CASE meta # None
    <3> DEFINE left == AwsUnwanted(req[c])
               q == [req[c] EXCEPT !.at = "untag", !.left = left]
    <3>1. Reads(c, q)
      BY <1>3, <2>2 DEF AwsListTags
    <3>2. left = meta.tags \ req[c].want
      BY DEF AwsUnwanted
    <3> HIDE DEF left
    <3>3. q.op = "tag" /\ q.at = "untag" /\ q.left = left /\ q.want = req[c].want
      BY <1>0 DEF TagType
    <3> HIDE DEF q
    <3>4. OnTheWay(q, backend, items, meta, native)
      BY <2>2, <3>2, <3>3 DEF OnTheWay
    <3> QED BY <1>0, <3>1, <3>4, AloneReads
  <2> QED BY <2>1, <2>2
<1>4. CASE AwsUntag(c)
  <2>1. CASE req[c].left # {} /\ meta = None
    BY <1>4, <2>1, AloneFails DEF AwsUntag
  <2>2. CASE ~(req[c].left # {} /\ meta = None)
    <3> DEFINE q == [req[c] EXCEPT !.at = "retag"]
    <3>1. Goes(c, q) /\ req[c].at = "untag"
          /\ meta' = IF req[c].left = {} THEN meta ELSE [meta EXCEPT !.tags = @ \ req[c].left]
      BY <1>4, <2>2 DEF AwsUntag, Is
    <3>2. q.op = "tag" /\ q.at = "retag" /\ q.want = req[c].want
      BY <1>0 DEF TagType
    <3>3. ASSUME alone = c PROVE meta' # None /\ meta'.tags \subseteq req[c].want
      <4>1. meta # None /\ req[c].left = meta.tags \ req[c].want
        BY <1>0, <3>1, <3>3 DEF AloneInv, OnTheWay
      <4>2. meta \in MetaType /\ meta.tags \in SUBSET Tags
        BY <4>1 DEF NosqlInv, TypeInv, MetaType
      <4>3. CASE req[c].left = {}
        BY <3>1, <4>1, <4>2, <4>3
      <4>4. CASE req[c].left # {}
        <5> DEFINE t == meta.tags \ req[c].left
        <5>1. meta' = [meta EXCEPT !.tags = t] /\ t \in SUBSET Tags /\ t \subseteq req[c].want
          BY <3>1, <4>1, <4>2, <4>4
        <5> HIDE DEF t
        <5> QED BY <4>2, <5>1, RetaggedMeta
      <4> QED BY <4>3, <4>4
    <3> HIDE DEF q
    <3>4. alone = c => OnTheWay(q, backend', items', meta', native')
      BY <3>2, <3>3 DEF OnTheWay
    <3> QED BY <1>0, <3>1, <3>4, AloneGoes
  <2> QED BY <2>1, <2>2
<1> QED BY <1>1, <1>2, <1>3, <1>4 DEF TagSteps

LEMMA AloneInvStep == NosqlInv /\ AloneInv /\ [NosqlNext]_nosqlVars => AloneInv'
<1> SUFFICES ASSUME NosqlInv, AloneInv, [NosqlNext]_nosqlVars PROVE AloneInv'
  OBVIOUS
<1>1. CASE UNCHANGED nosqlVars
  BY <1>1 DEF nosqlVars, AloneInv
<1>2. ASSUME NEW c \in Clients, Dynamodb(c) \/ Firestore(c) \/ Cosmos(c) PROVE AloneInv'
  BY <1>2, Beginnings, AloneBegin
<1>3. ASSUME NEW c \in Clients, Step(c) PROVE AloneInv'
  BY <1>3, AloneFrontRead, AloneCreates, AloneDeleteReads, AloneDeleteWrites, AloneItems,
     AloneTags DEF Step, TagSteps
<1>4. ASSUME NEW c \in Clients, Crash(c) PROVE AloneInv'
  BY <1>4, AloneFails DEF Crash
<1> QED BY <1>1, <1>2, <1>3, <1>4 DEF NosqlNext

LEMMA AloneInvInit == NosqlInit => AloneInv
BY NoneAssumption DEF NosqlInit, AloneInv

-----------------------------------------------------------------------------
(* What the step that answers a request has done.                           *)
Answers(c) == alone = c /\ answer' = "ok"

(* Only the step that ends the request answers it, and with success only    *)
(* when it says so.                                                         *)
LEMMA NoAnswer ==
    ASSUME NEW c \in Clients, Answers(c), NEW d \in Clients,
           \/ \E r : Begin(d, r) \/ Goes(d, r) \/ Reads(d, r)
           \/ Fails(d)
           \/ d # c /\ \E res : Ends(d, res)
    PROVE  FALSE
BY NoneIsNoAnswer DEF Answers, Begin, Goes, Reads, Fails, Ends

LEMMA CreatedIsDone ==
    ASSUME NosqlInv, AloneInv, NEW c \in Clients, Answers(c), NEW r, r = req[c],
           CreateTable(c) \/ AzureCreateTable(c) \/ AzureAddMetadata(c)
    PROVE  Done(r)'
<1>0. r.op = "create" /\ NewTable(r) \in MetaType
  BY Typed DEF CreateTable, AzureCreateTable, AzureAddMetadata, Is, NewTable, CreateType, MetaType
<1>1. backend' = backend /\ NewTable(r) # None
  BY <1>0, MetaAssumption DEF CreateTable, AzureCreateTable, AzureAddMetadata, Untouched, Fails
<1>2. /\ meta' # None /\ meta'.schema = r.schema
      /\ meta'.tags = r.tags \/ (backend' = "azure" /\ r.tags = {})
      /\ backend' = "azure" => native'
  <2>1. CASE CreateTable(c)
    BY <2>1, <1>1, NoAnswer DEF CreateTable, Is, NewTable
  <2>2. CASE AzureCreateTable(c)
    BY <2>2, NoAnswer DEF AzureCreateTable
  <2>3. CASE AzureAddMetadata(c)
    <3>1. native' = native /\ backend = "azure" /\ req[c].at = "meta" /\ meta' = Upserted(NewTable(r))
      BY <2>3 DEF AzureAddMetadata, Is
    <3>2. native
      BY <1>0, <3>1 DEF AloneInv, OnTheWay, Answers
    <3>3. NewTable(r).schema = r.schema /\ NewTable(r).tags = r.tags
      BY DEF NewTable
    <3> QED BY <1>0, <1>1, <3>1, <3>2, <3>3, UpsertedMeta
  <2> QED BY <2>1, <2>2, <2>3
<1> QED BY <1>0, <1>2 DEF Done, Exists, TagsDone

LEMMA DeletedIsDone ==
    ASSUME NosqlInv, AloneInv, NEW c \in Clients, Answers(c), NEW r, r = req[c],
           \/ InmemDeleteTable(c) \/ EtcdDrain(c) \/ EtcdDrop(c) \/ GcpDrain(c) \/ GcpDrop(c)
           \/ AzureDrain(c) \/ AzureDrop(c) \/ AzureDropMetadata(c) \/ AwsDeleteTable(c)
    PROVE  Done(r)'
<1>0. r.op = "delete" /\ backend' = backend
  BY DEF InmemDeleteTable, EtcdDrain, EtcdDrop, GcpDrain, GcpDrop, AzureDrain, AzureDrop,
     AzureDropMetadata, AwsDeleteTable, Is, Fails, Untouched
<1>1. OnTheWay(r, backend, items, meta, native)
  BY DEF AloneInv, Answers
<1>2. \/ items' = {} /\ meta' = None /\ backend # "azure"
      \/ items' = {} /\ ~native' /\ backend = "azure"
  <2>1. CASE InmemDeleteTable(c) \/ AwsDeleteTable(c)
    BY <2>1, NoAnswer DEF InmemDeleteTable, AwsDeleteTable, Is
  <2>2. CASE EtcdDrop(c)
    BY <2>2, <1>0, <1>1 DEF EtcdDrop, Is, OnTheWay
  <2>3. CASE GcpDrop(c)
    BY <2>3, <1>0, <1>1, NoAnswer DEF GcpDrop, Is, OnTheWay
  <2>4. CASE AzureDropMetadata(c)
    BY <2>4, <1>0, <1>1 DEF AzureDropMetadata, Is, OnTheWay
  <2>5. CASE EtcdDrain(c) \/ GcpDrain(c) \/ AzureDrain(c) \/ AzureDrop(c)
    BY <2>5, NoAnswer DEF EtcdDrain, GcpDrain, AzureDrain, AzureDrop
  <2> QED BY <2>1, <2>2, <2>3, <2>4, <2>5
<1> QED BY <1>0, <1>2 DEF Done, Exists

LEMMA ItemIsDone ==
    ASSUME NosqlInv, AloneInv, NEW c \in Clients, Answers(c), NEW r, r = req[c],
           \/ PutItem(c) \/ PutItemRead(c) \/ PutItemWrite(c)
           \/ DeleteItem(c) \/ DeleteItemRead(c) \/ DeleteItemWrite(c)
    PROVE  Done(r)'
<1>1. OnTheWay(r, backend, items, meta, native)
  BY DEF AloneInv, Answers
<1>a. ASSUME NEW n, Stores(c, meta.schema, r.key, n), meta # None, r.op = "put"
      PROVE  Done(r)'
  <2>1. meta' = meta /\ [loc |-> <<meta.schema, r.key>>, life |-> n] \in items'
    BY <1>a DEF Stores
  <2>2. At(<<meta.schema, r.key>>)' # {}
    BY <2>1 DEF At
  <2> QED BY <1>a, <2>1, <2>2 DEF Done
<1>b. ASSUME Removes(c), r.op = "remove" PROVE Done(r)'
  <2>1. At(<<r.schema, r.key>>)' = {}
    BY <1>b DEF Removes, At
  <2> QED BY <1>b, <2>1 DEF Done
<1>2. CASE PutItem(c)
  BY <1>2, <1>a, NoAnswer DEF PutItem, Is
<1>3. CASE PutItemRead(c) \/ DeleteItemRead(c)
  BY <1>3, NoAnswer DEF PutItemRead, DeleteItemRead
<1>4. CASE PutItemWrite(c)
  <2>1. Stores(c, r.schema, r.key, r.life) /\ r.op = "put" /\ r.at = "write"
    BY <1>4, NoAnswer DEF PutItemWrite, Is
  <2>2. meta # None /\ r.schema = meta.schema
    BY <2>1, <1>1 DEF OnTheWay
  <2> QED BY <2>1, <2>2, <1>a
<1>5. CASE DeleteItem(c) \/ DeleteItemWrite(c)
  BY <1>5, <1>b, NoAnswer DEF DeleteItem, DeleteItemWrite, Is
<1> QED BY <1>2, <1>3, <1>4, <1>5

LEMMA TagIsDone ==
    ASSUME NosqlInv, AloneInv, NEW c \in Clients, Answers(c), NEW r, r = req[c], TagSteps(c)
    PROVE  Done(r)'
<1>0. r.op = "tag" /\ r \in TagType /\ r.want \in SUBSET Tags
  <2>1. r.op = "tag"
    BY DEF TagSteps, UpdateTableTags, TagsRead, EtcdTagsWrite, AzureTagsWrite, GcpTagsWrite,
       AwsListTags, AwsUntag, AwsRetag, Is
  <2> QED BY <2>1, Typed DEF TagType
<1>1. OnTheWay(r, backend, items, meta, native)
  BY DEF AloneInv, Answers
<1>2. meta' # None /\ (meta'.tags = r.want \/ (backend' = "azure" /\ r.want = {}))
  <2>0. meta # None => meta \in MetaType /\ meta.tags \in SUBSET Tags
    BY DEF NosqlInv, TypeInv, MetaType
  <2>1. CASE UpdateTableTags(c)
    <3>1. meta # None /\ meta' = [meta EXCEPT !.tags = r.want]
      BY <2>1, NoAnswer DEF UpdateTableTags, SetsMeta
    <3> QED BY <3>1, <2>0, <1>0, RetaggedMeta
  <2>2. CASE EtcdTagsWrite(c)
    <3>1. meta' = [r.meta EXCEPT !.tags = r.want] /\ r.at = "write"
      BY <2>2, NoAnswer DEF EtcdTagsWrite, SetsMeta, Retagged, Is
    <3>2. r.meta \in MetaType
      BY <3>1, <1>0 DEF NosqlInv, TypeInv
    <3> QED BY <3>1, <3>2, <1>0, RetaggedMeta
  <2>6. CASE AzureTagsWrite(c)
    <3> DEFINE m == [r.meta EXCEPT !.tags = r.want]
    <3>1. meta' = Upserted(m) /\ r.at = "write" /\ backend' = "azure"
      BY <2>6 DEF AzureTagsWrite, SetsMeta, Retagged, Is, Untouched
    <3>2. r.meta \in MetaType
      BY <3>1, <1>0 DEF NosqlInv, TypeInv
    <3>3. m \in MetaType /\ m.tags = r.want
      BY <3>2, <1>0, RetaggedMeta
    <3> HIDE DEF m
    <3> QED BY <3>1, <3>3, UpsertedMeta
  <2>3. CASE GcpTagsWrite(c)
    <3>1. meta' = GcpPatched(r)
      BY <2>3 DEF GcpTagsWrite, SetsMeta
    <3>2. CASE meta = None
      <4>1. meta' = [schema |-> NoSchema, tags |-> r.want]
        BY <3>1, <3>2 DEF GcpPatched
      <4>2. meta' \in MetaType
        BY <4>1, <1>0 DEF MetaType
      <4> QED BY <4>1, <4>2, MetaAssumption
    <3>3. CASE meta # None
      <4>1. meta' = [meta EXCEPT !.tags = r.want]
        BY <3>1, <3>3 DEF GcpPatched, Retagged
      <4> QED BY <4>1, <3>3, <2>0, <1>0, RetaggedMeta
    <3> QED BY <3>2, <3>3
  <2>4. CASE TagsRead(c) \/ AwsListTags(c) \/ AwsUntag(c)
    BY <2>4, NoAnswer DEF TagsRead, AwsListTags, AwsUntag
  <2>5. CASE AwsRetag(c)
    <3>1. /\ r.at = "retag"
          /\ meta' = IF r.want = {} THEN meta ELSE [meta EXCEPT !.tags = @ \cup r.want]
      BY <2>5, NoAnswer DEF AwsRetag, SetsMeta, Is
    <3>2. meta # None /\ meta.tags \subseteq r.want
      BY <3>1, <1>0, <1>1 DEF OnTheWay
    <3>3. CASE r.want = {}
      BY <3>1, <3>2, <3>3
    <3>4. CASE r.want # {}
      <4>1. meta.tags \cup r.want = r.want
        BY <3>2
      <4>2. meta' = [meta EXCEPT !.tags = r.want]
        BY <3>1, <3>4, <4>1
      <4> QED BY <4>2, <3>2, <2>0, <1>0, RetaggedMeta
    <3> QED BY <3>3, <3>4
  <2> QED BY <2>1, <2>2, <2>3, <2>4, <2>5, <2>6 DEF TagSteps
<1> QED BY <1>0, <1>2 DEF Done, TagsDone

(* A request that no other overlapped and that was answered with success    *)
(* has done what it was asked for, on every backend, whatever half-done     *)
(* requests had left before it: AloneInv is what it knows on its way.       *)
THEOREM AnswersAreDone == NosqlSpec => AnsweredIsDone
<1>1. ASSUME NosqlInv, AloneInv, [NosqlNext]_nosqlVars
      PROVE  [\A c \in Clients : \A r \in {req[c]} :
                alone = c /\ answer' = "ok" => Done(r)']_nosqlVars
  <2>1. SUFFICES ASSUME NosqlNext, NEW c \in Clients, NEW r, r = req[c], Answers(c)
                 PROVE  Done(r)'
    BY <1>1 DEF Answers
  <2>2. PICK d \in Clients : Dynamodb(d) \/ Firestore(d) \/ Cosmos(d) \/ Step(d) \/ Crash(d)
    BY <2>1 DEF NosqlNext
  <2>3. CASE Dynamodb(d) \/ Firestore(d) \/ Cosmos(d)
    BY <2>1, <2>3, Beginnings, NoAnswer
  <2>4. CASE Crash(d)
    BY <2>1, <2>4, NoAnswer DEF Crash
  <2>5. CASE Step(d) /\ d # c
    <3>1. req[d] = Idle
      BY <1>1, <2>1, <2>5 DEF AloneInv, Answers
    <3>2. req[d] # Idle
      BY <2>5, StepRuns
    <3> QED BY <3>1, <3>2
  <2>6. CASE Step(d) /\ d = c
    <3>1. CASE \/ FrontRead(c) \/ EtcdDeleteRead(c) \/ EtcdDeleteCheck(c) \/ GcpDeleteCheck(c)
               \/ GcpList(c) \/ AzureDeleteList(c) \/ AwsDeleteCheck(c)
      BY <2>1, <3>1, NoAnswer DEF FrontRead, EtcdDeleteRead, EtcdDeleteCheck, GcpDeleteCheck,
         GcpList, AzureDeleteList, AwsDeleteCheck
    <3> QED BY <1>1, <2>1, <2>6, <3>1, CreatedIsDone, DeletedIsDone, ItemIsDone, TagIsDone
            DEF Step, TagSteps
  <2> QED BY <2>2, <2>3, <2>4, <2>5, <2>6
<1>2. NosqlSpec => []AloneInv
  BY NosqlInvariant, AloneInvInit, AloneInvStep, PTL DEF NosqlSpec
<1> QED BY <1>1, <1>2, NosqlInvariant, PTL DEF NosqlSpec, AnsweredIsDone
==============================================================================
