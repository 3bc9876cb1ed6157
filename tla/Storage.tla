------------------------------- MODULE Storage -------------------------------
(***************************************************************************)
(* Object storage (services/storage): the objects of one bucket and the    *)
(* multipart uploads into it, over the backends inmem, gcs, azureblob, aws *)
(* and minio, behind the frontends aws_s3, gcs and azure_blob.             *)
(*                                                                         *)
(* inmem works under a mutex, aws and minio forward each call to a service *)
(* that has multipart uploads of its own: their operations are one step.   *)
(* gcs and azureblob put an upload together from objects of the remote     *)
(* store and hide these from listings (names with ".uploads/"); every      *)
(* remote call is a step, a clean-up call whose error is discarded may     *)
(* fail, and the shim may crash between two calls.                         *)
(*                                                                         *)
(* An object's data is the sequence of the chunks it was put together      *)
(* from; the chunk <<u, n>> is part n of upload u, <<NoUpload, 1>> the body *)
(* of a PutObject. Keys are numbered in their order.                        *)
(***************************************************************************)
EXTENDS Naturals, FiniteSets, SequencesExt

CONSTANTS
    Backends,       \* the backends to explore
    Frontends,      \* the frontends to explore
    Clients,        \* requests in progress at a time
    MaxKey,         \* bound: keys 1..MaxKey
    Uploads,        \* bound: upload ids, each used once
    NoUpload,
    MaxPart,        \* bound: part numbers 1..MaxPart
    PartLists(_),   \* per upload, the part lists its Complete may be called with
    Types,          \* content types a caller may give
    DefaultType,    \* the content type of an object that was given none
    ComposeMax,     \* sources of one compose call (32 in the code)
    Failed,         \* a copy of azure that went wrong
    None            \* nothing there

Keys == 1..MaxKey
Parts == 1..MaxPart

VARIABLES
    backend, frontend,  \* fixed when the shim starts
    bucket,             \* the bucket exists
    object,             \* per key, its object
    upload,             \* per upload, its session record or marker object
    part,               \* per upload, the parts that are stored or staged
    scratch,            \* per upload, the intermediate objects of compose
    copying,            \* per key, the object an azure copy will put there
    req,                \* per client, the request it is in
    made,               \* history: per upload, key and type it was created with, and
                        \* whether two requests were composing it at once (gcs)
    alone               \* history: the client whose request no other overlapped

store == <<bucket, object, upload, part, scratch, copying>>
storageVars == <<backend, frontend, store, req, made, alone>>

Idle == [op |-> "idle"]
S3Like == {"aws", "minio"}
Present == {k \in Keys : object[k] # None}
Of(k) == {u \in Uploads : made[u] # None /\ made[u].key = k}
TypeOr(t) == IF t = None THEN DefaultType ELSE t
Chunks(u, list) == [i \in DOMAIN list |-> <<u, list[i]>>]
Numbers(u) == UNION {Range(list) : list \in PartLists(u)}
NoScratch == [i \in 0..MaxPart |-> None]

ASSUME NoUploadIsNoClient == NoUpload \notin Clients
ASSUME PartsAreNumbered == MaxPart \in Nat /\ \A u \in Uploads : PartLists(u) \subseteq Seq(Parts)

StorageInit ==
    /\ backend \in Backends /\ frontend \in Frontends
    /\ bucket = FALSE
    /\ object = [k \in Keys |-> None]
    /\ upload = [u \in Uploads |-> None]
    /\ part = [u \in Uploads |-> {}]
    /\ scratch = [u \in Uploads |-> NoScratch]
    /\ copying = [k \in Keys |-> None]
    /\ req = [c \in Clients |-> Idle]
    /\ made = [u \in Uploads |-> None]
    /\ alone = NoUpload

\* A request begins with its first call; Goes leaves it waiting for the
\* next, Ends answers it.  Begins keeps track of who is alone.
Begins(c) ==
    /\ req[c] = Idle
    /\ alone' = IF \A d \in Clients \ {c} : req[d] = Idle THEN c ELSE NoUpload
Goes(c, r) == req' = [req EXCEPT ![c] = r]
Ends(c) == req' = [req EXCEPT ![c] = Idle]

-----------------------------------------------------------------------------
(* Buckets and whole objects *)

\* A bucket that exists already is left as it is; only aws reports it.
CreateBucket(c) ==
    /\ Begins(c)
    /\ bucket' = TRUE
    /\ Ends(c)
    /\ UNCHANGED <<object, upload, part, scratch, copying, made>>

Hidden == \E u \in Uploads : upload[u] # None \/ part[u] # {} \/ scratch[u] # NoScratch

\* A container of azure goes with all it holds; for gcs the hidden objects
\* of uploads count like any other.
GcsMayDelete == Present = {} /\ ~Hidden
InmemMayDelete == Present = {}
MayDeleteBucket ==
    /\ bucket
    /\ \/ backend = "azureblob"
       \/ backend = "gcs" /\ GcsMayDelete
       \/ backend \in S3Like \cup {"inmem"} /\ InmemMayDelete

\* The uploads of inmem are kept apart from its buckets and outlive them.
DeleteBucket(c) ==
    /\ Begins(c)
    /\ MayDeleteBucket
    /\ bucket' = FALSE
    /\ object' = [k \in Keys |-> None]
    /\ IF backend = "inmem" THEN UNCHANGED <<upload, part, scratch, copying>>
       ELSE /\ upload' = [u \in Uploads |-> None]
            /\ part' = [u \in Uploads |-> {}]
            /\ scratch' = [u \in Uploads |-> NoScratch]
            /\ copying' = [k \in Keys |-> None]
    /\ Ends(c)
    /\ UNCHANGED made

\* Writing a blob drops the blocks that were staged for it.
Staged(k) == IF backend = "azureblob"
             THEN [u \in Uploads |-> IF u \in Of(k) THEN {} ELSE part[u]] ELSE part

PutObject(c, k, t) ==
    /\ Begins(c)
    /\ bucket
    /\ object' = [object EXCEPT ![k] = [data |-> <<<<NoUpload, 1>>>>, type |-> TypeOr(t)]]
    /\ part' = Staged(k)
    /\ copying' = [copying EXCEPT ![k] = None]
    /\ Ends(c)
    /\ UNCHANGED <<bucket, upload, scratch, made>>

\* Deleting a key that is not there is success.
DeleteObject(c, k) ==
    /\ Begins(c)
    /\ bucket
    /\ object' = [object EXCEPT ![k] = None]
    /\ copying' = [copying EXCEPT ![k] = None]
    /\ Ends(c)
    /\ UNCHANGED <<bucket, upload, part, scratch, made>>

\* The copy a backend makes of object o when the caller names type t: aws
\* passes the type on without the directive that would apply it.
InmemCopy(o, t) == IF t = None THEN o ELSE [o EXCEPT !.type = t]
GcsCopy(o, t) == IF t = None THEN o ELSE [o EXCEPT !.type = t]
AwsCopy(o, t) == o
MinioCopy(o, t) == o
Copied(o, t) ==
    CASE backend = "inmem" -> InmemCopy(o, t)
      [] backend = "gcs" -> GcsCopy(o, t)
      [] backend = "aws" -> AwsCopy(o, t)
      [] backend = "minio" -> MinioCopy(o, t)

CopyObject(c, k, l, t) ==
    /\ backend # "azureblob"
    /\ Begins(c)
    /\ bucket
    /\ object[k] # None
    /\ object' = [object EXCEPT ![l] = Copied(object[k], t)]
    /\ Ends(c)
    /\ UNCHANGED <<bucket, upload, part, scratch, copying, made>>

\* azure copies on its own: StartCopyFromURL answers with the copy done or
\* pending, and CopyObject polls the destination until its patience ends.
AzureStartCopy(c, k, l) ==
    /\ backend = "azureblob"
    /\ Begins(c)
    /\ bucket
    /\ object[k] # None
    /\ part' = Staged(l)
    /\ \/ /\ object' = [object EXCEPT ![l] = object[k]]
          /\ copying' = [copying EXCEPT ![l] = None]
          /\ Ends(c)
       \/ /\ k # l
          /\ object' = [object EXCEPT ![l] = [data |-> <<>>, type |-> object[k].type]]
          /\ copying' = [copying EXCEPT ![l] = object[k]]
          /\ Goes(c, [op |-> "azCopy", key |-> l])
    /\ UNCHANGED <<bucket, upload, scratch, made>>

\* The last poll: the copy is done, has failed, or is still pending when
\* the patience of 30 s ends.
AzurePollCopy(c) ==
    /\ req[c].op = "azCopy"
    /\ Ends(c)
    /\ UNCHANGED <<store, made, alone>>

\* A pending copy gets done, or fails and leaves an empty blob.
AzureCopyDone(k) ==
    /\ copying[k] \notin {None, Failed}
    /\ \/ /\ object' = [object EXCEPT ![k] = copying[k]]
          /\ copying' = [copying EXCEPT ![k] = None]
       \/ /\ copying' = [copying EXCEPT ![k] = Failed]
          /\ UNCHANGED object
    /\ UNCHANGED <<bucket, upload, part, scratch, req, made, alone>>

-----------------------------------------------------------------------------
(* Multipart uploads *)

CreateMultipartUpload(c, u, k, t) ==
    /\ Begins(c)
    /\ bucket
    /\ made[u] = None
    /\ made' = [made EXCEPT ![u] = [key |-> k, type |-> t, crossed |-> FALSE]]
    /\ upload' = [upload EXCEPT ![u] = [key |-> k, type |-> t]]
    /\ Ends(c)
    /\ UNCHANGED <<bucket, object, part, scratch, copying>>

\* gcs and azureblob write the part without looking for the upload.
UploadPart(c, u, n) ==
    /\ Begins(c)
    /\ made[u] # None
    /\ backend \in S3Like \cup {"inmem"} => upload[u] # None
    /\ backend # "inmem" => bucket
    /\ part' = [part EXCEPT ![u] = @ \cup {n}]
    /\ Ends(c)
    /\ UNCHANGED <<bucket, object, upload, scratch, copying, made>>

\* inmem puts together every part it has, whatever list it was given.
InmemComplete(c, u) ==
    /\ backend = "inmem"
    /\ Begins(c)
    /\ upload[u] # None
    /\ bucket
    /\ object' = [object EXCEPT ![upload[u].key] =
                    [data |-> Chunks(u, SetToSortSeq(part[u], <)),
                     type |-> TypeOr(upload[u].type)]]
    /\ upload' = [upload EXCEPT ![u] = None]
    /\ part' = [part EXCEPT ![u] = {}]
    /\ Ends(c)
    /\ UNCHANGED <<bucket, scratch, copying, made>>

S3Complete(c, u, list) ==
    /\ backend \in S3Like
    /\ Begins(c)
    /\ upload[u] # None
    /\ Range(list) \subseteq part[u]
    /\ object' = [object EXCEPT ![upload[u].key] =
                    [data |-> Chunks(u, list), type |-> TypeOr(upload[u].type)]]
    /\ upload' = [upload EXCEPT ![u] = None]
    /\ part' = [part EXCEPT ![u] = {}]
    /\ Ends(c)
    /\ UNCHANGED <<bucket, scratch, copying, made>>

AbortMultipartUpload(c, u) ==
    /\ backend \in S3Like \cup {"inmem"}
    /\ Begins(c)
    /\ upload[u] # None
    /\ upload' = [upload EXCEPT ![u] = None]
    /\ part' = [part EXCEPT ![u] = {}]
    /\ Ends(c)
    /\ UNCHANGED <<bucket, object, scratch, copying, made>>

-----------------------------------------------------------------------------
(* gcs: parts are objects; Complete composes them, ComposeMax at a time,   *)
(* into intermediate objects and those into the final one                  *)

PartNamed(n) == <<"part", n>>
TmpNamed(i) == <<"tmp", i>>
Final == <<"final", 0>>

\* The data behind an object name of upload u, None if there is no object.
Named(u, name) ==
    CASE name[1] = "part" -> IF name[2] \in part[u] THEN <<<<u, name[2]>>>> ELSE None
      [] name[1] = "tmp" -> scratch[u][name[2]]

\* Some request is composing upload u.
Composing(u) == \E d \in Clients : req[d].op = "gcsCompose" /\ req[d].upload = u

\* Complete reads the marker; an empty list is refused.
GcsReadMarker(c, u, list) ==
    /\ backend = "gcs"
    /\ Begins(c)
    /\ bucket
    /\ upload[u] # None
    /\ list # <<>>
    /\ LET names == [i \in DOMAIN list |-> PartNamed(list[i])]
       IN  Goes(c, [op |-> IF Len(list) = 1 THEN "gcsCopy" ELSE "gcsCompose",
                    upload |-> u, list |-> list, type |-> upload[u].type,
                    batch |-> names, next |-> <<>>])
    /\ made' = [made EXCEPT ![u].crossed = @ \/ (Len(list) > 1 /\ Composing(u))]
    /\ UNCHANGED store

CleaningUp(r) == [r EXCEPT !.op = "gcsCleanup",
                           !.batch = Append([i \in DOMAIN r.list |-> PartNamed(r.list[i])],
                                            <<"marker", 0>>)]

\* Mutation: the last group of a level goes into the final object.
TargetLastGroup(rest, next) == IF rest = <<>> THEN Final ELSE TmpNamed(Len(next))

\* The only group of a level is composed into the final object.
Target(rest, next) ==
    IF rest = <<>> /\ next = <<>> THEN Final ELSE TmpNamed(Len(next))

GroupSize(batch) == IF Len(batch) > ComposeMax THEN ComposeMax ELSE Len(batch)

\* One compose call: the next group of this level.
GcsCompose(c) ==
    LET r == req[c]
        u == r.upload
        group == SubSeq(r.batch, 1, GroupSize(r.batch))
        rest == SubSeq(r.batch, Len(group) + 1, Len(r.batch))
        target == Target(rest, r.next)
        data == FlattenSeq([i \in DOMAIN group |-> Named(u, group[i])])
        done == Append(r.next, target)
    IN  /\ r.op = "gcsCompose"
        /\ IF ~bucket \/ \E i \in DOMAIN group : Named(u, group[i]) = None
           THEN Ends(c) /\ UNCHANGED <<object, scratch>>
           ELSE /\ IF target = Final
                   THEN /\ object' = [object EXCEPT ![made[u].key] =
                                        [data |-> data, type |-> TypeOr(r.type)]]
                        /\ UNCHANGED scratch
                   ELSE /\ scratch' = [scratch EXCEPT ![u][target[2]] = data]
                        /\ UNCHANGED object
                /\ Goes(c, IF rest # <<>> THEN [r EXCEPT !.batch = rest, !.next = done]
                           ELSE IF Len(done) > 1 THEN [r EXCEPT !.batch = done, !.next = <<>>]
                           ELSE CleaningUp(r))
        /\ UNCHANGED <<bucket, upload, part, copying, made, alone>>

\* A single part is copied, with the type the part object has.
GcsCopyPart(c) ==
    LET r == req[c]
        data == Named(r.upload, r.batch[1])
    IN  /\ r.op = "gcsCopy"
        /\ IF ~bucket \/ data = None
           THEN Ends(c) /\ UNCHANGED object
           ELSE /\ object' = [object EXCEPT ![made[r.upload].key] =
                                [data |-> data, type |-> DefaultType]]
                /\ Goes(c, CleaningUp(r))
        /\ UNCHANGED <<bucket, upload, part, scratch, copying, made, alone>>

\* Mutation: Abort only deletes the marker.
DroppedMarkerOnly(u, name) == upload' = [upload EXCEPT ![u] = None] /\ UNCHANGED <<part, scratch>>

\* Deletes one object of upload u.
Dropped(u, name) ==
    CASE name[1] = "part" -> /\ part' = [part EXCEPT ![u] = @ \ {name[2]}]
                             /\ UNCHANGED <<upload, scratch>>
      [] name[1] = "tmp" -> /\ scratch' = [scratch EXCEPT ![u][name[2]] = None]
                            /\ UNCHANGED <<upload, part>>
      [] name[1] = "marker" -> /\ upload' = [upload EXCEPT ![u] = None]
                               /\ UNCHANGED <<part, scratch>>

\* The listed parts and the marker are deleted, errors ignored.
GcsCleanup(c) ==
    LET r == req[c]
    IN  /\ r.op = "gcsCleanup"
        /\ \/ /\ r.batch # <<>>
              /\ Dropped(r.upload, Head(r.batch))
              /\ Goes(c, [r EXCEPT !.batch = Tail(@)])
           \/ /\ r.batch # <<>>
              /\ Goes(c, [r EXCEPT !.batch = Tail(@)])
              /\ UNCHANGED <<upload, part, scratch>>
           \/ /\ r.batch = <<>>
              /\ Ends(c)
              /\ UNCHANGED <<upload, part, scratch>>
        /\ UNCHANGED <<bucket, object, copying, made, alone>>

\* Abort lists the objects of the upload and deletes them, errors ignored.
NamesOf(u) ==
    {PartNamed(n) : n \in part[u]}
    \cup {TmpNamed(i) : i \in {j \in 0..MaxPart : scratch[u][j] # None}}
    \cup (IF upload[u] # None THEN {<<"marker", 0>>} ELSE {})

\* The listing goes by name: ".compose-N", ".init", "part-N".
Rank(name) == CASE name[1] = "tmp" -> name[2]
                [] name[1] = "marker" -> MaxPart + 1
                [] name[1] = "part" -> MaxPart + 1 + name[2]

GcsAbortList(c, u) ==
    /\ backend = "gcs"
    /\ Begins(c)
    /\ bucket
    /\ NamesOf(u) # {}
    /\ Goes(c, [op |-> "gcsAbort", upload |-> u, todo |-> NamesOf(u), failed |-> FALSE])
    /\ UNCHANGED <<store, made>>

GcsAbortDelete(c) ==
    LET r == req[c]
        name == CHOOSE x \in r.todo : \A y \in r.todo : Rank(x) <= Rank(y)
    IN  /\ r.op = "gcsAbort"
        /\ \/ /\ r.todo # {}
              /\ Dropped(r.upload, name)
              /\ Goes(c, [r EXCEPT !.todo = @ \ {name}])
           \/ /\ r.todo # {}
              /\ Goes(c, [r EXCEPT !.todo = @ \ {name}, !.failed = TRUE])
              /\ UNCHANGED <<upload, part, scratch>>
           \/ /\ r.todo = {}
              /\ Ends(c)
              /\ UNCHANGED <<upload, part, scratch>>
        /\ UNCHANGED <<bucket, object, copying, made, alone>>

-----------------------------------------------------------------------------
(* azureblob: parts are blocks staged on the final blob under block ids    *)
(* made from upload and part number                                        *)

\* Complete looks for the marker only to learn the content type.
AzureReadMarker(c, u, list) ==
    /\ backend = "azureblob"
    /\ Begins(c)
    /\ made[u] # None
    /\ Goes(c, [op |-> "azCommit", upload |-> u, list |-> list,
                type |-> IF bucket /\ upload[u] # None THEN upload[u].type ELSE None])
    /\ UNCHANGED <<store, made>>

\* A block list may name staged blocks and blocks of the committed blob.
Blocks(u) ==
    LET o == object[made[u].key]
    IN  {<<u, n>> : n \in part[u]} \cup (IF o = None THEN {} ELSE Range(o.data))

\* CommitBlockList discards every other block staged on the blob.
AzureCommit(c) ==
    LET r == req[c]
        k == made[r.upload].key
    IN  /\ r.op = "azCommit"
        /\ IF ~bucket \/ ~(Range(Chunks(r.upload, r.list)) \subseteq Blocks(r.upload))
           THEN Ends(c) /\ UNCHANGED <<object, part, copying>>
           ELSE /\ object' = [object EXCEPT ![k] = [data |-> Chunks(r.upload, r.list),
                                                   type |-> TypeOr(r.type)]]
                /\ part' = Staged(k)
                /\ copying' = [copying EXCEPT ![k] = None]
                /\ Goes(c, [r EXCEPT !.op = "azDeleteMarker"])
        /\ UNCHANGED <<bucket, upload, scratch, made, alone>>

AzureDeleteMarker(c) ==
    /\ req[c].op = "azDeleteMarker"
    /\ upload' \in {[upload EXCEPT ![req[c].upload] = None], upload}
    /\ Ends(c)
    /\ UNCHANGED <<bucket, object, part, scratch, copying, made, alone>>

\* Mutation: Abort deletes the blob to be rid of the staged blocks.
AzureAbortBlob(c, u) ==
    /\ backend = "azureblob"
    /\ Begins(c)
    /\ bucket
    /\ upload[u] # None
    /\ upload' = [upload EXCEPT ![u] = None]
    /\ object' = [object EXCEPT ![upload[u].key] = None]
    /\ Ends(c)
    /\ UNCHANGED <<bucket, part, scratch, copying, made>>

\* Abort deletes the marker; the staged blocks stay until azure drops them.
AzureAbort(c, u) ==
    /\ backend = "azureblob"
    /\ Begins(c)
    /\ bucket
    /\ upload[u] # None
    /\ upload' = [upload EXCEPT ![u] = None]
    /\ Ends(c)
    /\ UNCHANGED <<bucket, object, part, scratch, copying, made>>

-----------------------------------------------------------------------------
(* The shim *)

\* The process dies and is restarted.  (A request to inmem is one step, and
\* a restarted inmem is StorageInit.)
Crash ==
    /\ \E c \in Clients : req[c] # Idle
    /\ req' = [c \in Clients |-> Idle]
    /\ UNCHANGED <<store, made, alone>>

\* aws_s3 offers buckets, objects and multipart uploads.
S3Objects(c) ==
    \E k, l \in Keys, t \in Types :
       \/ PutObject(c, k, t) \/ DeleteObject(c, k)
       \/ CopyObject(c, k, l, t) \/ AzureStartCopy(c, k, l)

S3Multipart(c) ==
    \E u \in Uploads :
       \/ \E k \in Keys, t \in Types : CreateMultipartUpload(c, u, k, t)
       \/ \E n \in Numbers(u) : UploadPart(c, u, n)
       \/ AbortMultipartUpload(c, u) \/ GcsAbortList(c, u) \/ AzureAbort(c, u)
       \/ InmemComplete(c, u)
       \/ \E list \in PartLists(u) :
             S3Complete(c, u, list) \/ GcsReadMarker(c, u, list) \/ AzureReadMarker(c, u, list)

\* gcs refuses resumable uploads; a copy may name another content type.
GcsObjects(c) ==
    \E k, l \in Keys, t \in Types \cup {None} :
       \/ t # None /\ PutObject(c, k, t)
       \/ DeleteObject(c, k)
       \/ CopyObject(c, k, l, t) \/ AzureStartCopy(c, k, l)

\* azure_blob passes no content type on with a copy and has no block lists.
AzureObjects(c) ==
    \E k, l \in Keys, t \in Types :
       \/ PutObject(c, k, t) \/ DeleteObject(c, k)
       \/ CopyObject(c, k, l, None) \/ AzureStartCopy(c, k, l)

Begin(c) ==
    \/ CreateBucket(c) \/ DeleteBucket(c)
    \/ frontend = "aws_s3" /\ (S3Objects(c) \/ S3Multipart(c))
    \/ frontend = "gcs" /\ GcsObjects(c)
    \/ frontend = "azure_blob" /\ AzureObjects(c)

Continue(c) ==
    \/ AzurePollCopy(c)
    \/ GcsCompose(c) \/ GcsCopyPart(c) \/ GcsCleanup(c) \/ GcsAbortDelete(c)
    \/ AzureCommit(c) \/ AzureDeleteMarker(c)

StorageNext ==
    /\ \/ \E c \in Clients : Begin(c) \/ Continue(c)
       \/ \E k \in Keys : AzureCopyDone(k)
       \/ Crash
    /\ UNCHANGED <<backend, frontend>>

StorageSpec == StorageInit /\ [][StorageNext]_storageVars

-----------------------------------------------------------------------------
(* Properties *)

Objects == [data : Seq(({NoUpload} \cup Uploads) \X Parts), type : Types \cup {DefaultType}]
Markers == [key : Keys, type : Types]
Uploaded == [key : Keys, type : Types, crossed : BOOLEAN]

\* Every variable keeps its shape: objects are chunks with a content type,
\* markers name a key, and no more intermediate objects than parts are made.
StorageTypeOK ==
    /\ backend \in Backends /\ frontend \in Frontends
    /\ bucket \in BOOLEAN
    /\ \A k \in Keys : object[k] \in Objects \cup {None} /\ copying[k] \in Objects \cup {None, Failed}
    /\ \A u \in Uploads : /\ upload[u] \in Markers \cup {None}
                          /\ made[u] \in Uploaded \cup {None}
                          /\ part[u] \subseteq Parts
                          /\ DOMAIN scratch[u] = 0..MaxPart

\* The chunks of an object belong to one upload or one PutObject.
OneSource(o) == \A i, j \in DOMAIN o.data : o.data[i][1] = o.data[j][1]

\* Objects are what some caller asked for: the body of one PutObject, or
\* the parts of ONE upload into a key, put together in the order of a
\* CompleteMultipartUpload list (of all its parts, for inmem) - whatever
\* composes, copies, aborts and crashes were interleaved, and however many
\* levels of intermediate objects gcs needed.  Of an upload that two Completes
\* were putting together at the same time on gcs, only that its chunks are not
\* mixed with others': their intermediate objects have the same names.
CompletedContent ==
    \A k \in Keys :
       LET o == object[k]
       IN  \/ o = None
           \/ o.data = <<>> /\ backend \in {"azureblob", "inmem"}
           \/ /\ OneSource(o)
              /\ \/ o.data[1][1] = NoUpload /\ Len(o.data) = 1
                 \/ o.data[1][1] # NoUpload /\
                    LET list == [i \in DOMAIN o.data |-> o.data[i][2]]
                    IN  IF backend = "inmem" THEN \A i, j \in DOMAIN list : i < j => list[i] < list[j]
                        ELSE list \in PartLists(o.data[1][1]) \/ made[o.data[1][1]].crossed

\* What a comment in CompleteMultipartUpload of gcs says: "the assembly order is
\* the order the caller declared".
AssembledAsDeclared ==
    backend = "gcs" =>
       \A k \in Keys, u \in Uploads :
          object[k] # None /\ object[k].data[1][1] = u =>
             [i \in DOMAIN object[k].data |-> object[k].data[i][2]] \in PartLists(u)

\* An abort that no other request overlapped and whose deletes all worked
\* leaves nothing of the upload behind that a listing or a bucket deletion
\* would meet.  (azure keeps staged blocks; they are no objects.)
QuietAbortCleans ==
    \A c \in Clients :
       req[c].op = "gcsAbort" /\ req[c].todo = {} /\ ~req[c].failed /\ alone = c =>
          LET u == req[c].upload
          IN  upload[u] = None /\ part[u] = {} /\ scratch[u] = NoScratch

\* Only what a caller names disappears: an object leaves the bucket through
\* DeleteObject of its key or with the bucket, never through the clean-up
\* of an upload, a failed compose or a crash.
ObjectsStay ==
    [][ \A k \in Keys :
          object[k] # None /\ object'[k] = None =>
             \E c \in Clients : DeleteObject(c, k) \/ DeleteBucket(c) ]_storageVars
=============================================================================
