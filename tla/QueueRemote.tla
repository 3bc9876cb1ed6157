----------------------------- MODULE QueueRemote -----------------------------
(***************************************************************************)
(* The administration of one queue name by the backends that keep it in    *)
(* another system: aws (SQS), gcp (Pub/Sub), azure (Service Bus) and nats   *)
(* (JetStream).  The shim keeps no state of its own: what a request knows  *)
(* is on its goroutine's stack (`req[c]'), and everything else is the      *)
(* remote system's.  Every remote call is one atomic step; between the     *)
(* calls of one request other requests run, a call may fail (network,      *)
(* cancelled context, remote 5xx), and the shim may crash.                 *)
(*                                                                         *)
(* A queue is one or two remote objects:                                   *)
(*    parent   the SQS / Service Bus queue, Pub/Sub topic, JetStream stream *)
(*    child    the Pub/Sub subscription or JetStream consumer              *)
(* A subscription whose topic is deleted stays, detached, and a new topic  *)
(* of the same name does not adopt it; a stream takes its consumer along.  *)
(***************************************************************************)
EXTENDS Naturals, FiniteSets

CONSTANTS
    Backends,       \* the backends to explore
    Clients,        \* concurrent requests
    Nobody,
    TagKeys,
    Timeouts,       \* VisibilityTimeoutSeconds of a request, 0 = not set
    Retentions,     \* MessageRetentionSeconds of a request, 0 = not set
    AckMax,         \* the largest ack deadline Pub/Sub takes (600)
    DefaultVis,     \* lock duration of a new queue
    DefaultRet      \* retention of a new queue

ASSUME RemoteInputs == /\ Timeouts \subseteq Nat
                       /\ Retentions \subseteq Nat
                       /\ {AckMax, DefaultVis, DefaultRet} \subseteq Nat
                       /\ Nobody \notin Clients

VARIABLES
    backend,        \* the backend this shim was started with
    parent,         \* BOOLEAN
    child,          \* "none", "attached" or "detached"
    vis, ret,       \* lock duration and retention
    labels,         \* the tag keys
    req,            \* per client, where its request is and what it holds
    result,         \* per client, how its last request ended
    alone,          \* history: the request that has run with no other, or Nobody
    promised        \* history: a create succeeded and nobody asked to delete since

cloud == <<parent, child, vis, ret, labels>>
history == <<alone, promised>>
remoteVars == <<backend, cloud, req, result, history>>

Idle == [at |-> "idle"]
Or(v, d) == IF v = 0 THEN d ELSE v

RemoteInit ==
    /\ backend \in Backends
    /\ parent = FALSE
    /\ child = "none"
    /\ vis = 0
    /\ ret = 0
    /\ labels = {}
    /\ req = [c \in Clients |-> Idle]
    /\ result = [c \in Clients |-> "none"]
    /\ alone = Nobody
    /\ promised = FALSE

Deleting(c) == req[c].at \in {"gcp.topics.delete", "aws.delete"}

\* A request of client c comes in and makes its first call; Goes leaves it
\* waiting for the next one, Ends answers it.
Arrives(c, b) == backend = b /\ req[c] = Idle
Goes(c, r) ==
    /\ req' = [req EXCEPT ![c] = r]
    /\ result' = [result EXCEPT ![c] = "none"]
    /\ UNCHANGED backend
Ends(c, res) ==
    /\ req' = [req EXCEPT ![c] = Idle]
    /\ result' = [result EXCEPT ![c] = res]
    /\ UNCHANGED backend

\* Bookkeeping of the histories.
Begins(c) == alone' = IF \A d \in Clients \ {c} : req[d] = Idle THEN c ELSE Nobody
Created == promised' = (\A d \in Clients : ~Deleting(d))
DeleteAsked == promised' = FALSE

-----------------------------------------------------------------------------
(* gcp: a topic and a subscription of the queue's name *)

\* CreateQueue: topics.create, then the check of the ack deadline.
GcpCreateTopic(c, v) ==
    /\ Arrives(c, "gcp")
    /\ ~parent
    /\ parent' = TRUE
    /\ Goes(c, [at |-> IF Or(v, DefaultVis) > AckMax THEN "gcp.rollback" ELSE "gcp.subs.create",
                vis |-> Or(v, DefaultVis)])
    /\ Begins(c)
    /\ UNCHANGED <<child, vis, ret, labels, promised>>

\* Mutation: a failed subscriptions.create returns without the clean-up.
GcpCreateSubscriptionNoCleanup(c) ==
    /\ req[c].at = "gcp.subs.create"
    /\ \/ /\ parent /\ child = "none"
          /\ child' = "attached"
          /\ vis' = req[c].vis /\ ret' = DefaultRet /\ labels' = {}
          /\ Ends(c, "created") /\ Created
       \/ /\ Ends(c, "undone")
          /\ UNCHANGED <<child, vis, ret, labels, promised>>
    /\ UNCHANGED <<parent, alone>>

\* subscriptions.create fails when the topic is gone (404), when a
\* subscription of that name exists (409), or for no reason of ours.
GcpCreateSubscription(c) ==
    /\ req[c].at = "gcp.subs.create"
    /\ \/ /\ parent /\ child = "none"
          /\ child' = "attached"
          /\ vis' = req[c].vis /\ ret' = DefaultRet /\ labels' = {}
          /\ Ends(c, "created") /\ Created
       \/ /\ Goes(c, [at |-> "gcp.rollback"])
          /\ UNCHANGED <<child, vis, ret, labels, promised>>
    /\ UNCHANGED <<parent, alone>>

\* topics.delete: of the topic of that name, whoever created it.
DropTopic ==
    /\ parent' = FALSE
    /\ child' = IF child = "attached" THEN "detached" ELSE child

\* The clean-up's own result is discarded.
GcpRollback(c) ==
    /\ req[c].at = "gcp.rollback"
    /\ \/ DropTopic /\ Ends(c, "undone")
       \/ UNCHANGED <<parent, child>> /\ Ends(c, "error")
    /\ UNCHANGED <<vis, ret, labels, history>>

\* Mutation: a missing subscription ends the delete.
GcpDeleteSubscriptionStrict(c) ==
    /\ Arrives(c, "gcp")
    /\ \/ /\ child # "none"
          /\ child' = "none"
          /\ Goes(c, [at |-> "gcp.topics.delete"])
       \/ /\ child = "none"
          /\ Ends(c, "absent")
          /\ UNCHANGED child
    /\ Begins(c)
    /\ DeleteAsked
    /\ UNCHANGED <<parent, vis, ret, labels>>

\* DeleteQueue: subscriptions.delete, and on to the topic even when there
\* was no subscription.
GcpDeleteSubscription(c) ==
    /\ Arrives(c, "gcp")
    /\ \/ child' = "none" /\ Goes(c, [at |-> "gcp.topics.delete"])
       \/ UNCHANGED child /\ Ends(c, "error")
    /\ Begins(c)
    /\ DeleteAsked
    /\ UNCHANGED <<parent, vis, ret, labels>>

GcpDeleteTopic(c) ==
    /\ req[c].at = "gcp.topics.delete"
    /\ \/ DropTopic /\ Ends(c, IF parent THEN "deleted" ELSE "absent")
       \/ UNCHANGED <<parent, child>> /\ Ends(c, "error")
    /\ UNCHANGED <<vis, ret, labels, history>>

\* TagQueue and UntagQueue: get the labels, then patch the whole map.
GcpGetLabels(c, add, drop) ==
    /\ Arrives(c, "gcp")
    /\ add \cup drop # {}
    /\ child # "none"
    /\ Goes(c, [at |-> "gcp.subs.patch", labels |-> (labels \cup add) \ drop,
                add |-> add, drop |-> drop])
    /\ Begins(c)
    /\ UNCHANGED <<cloud, promised>>

GcpPatchLabels(c) ==
    /\ req[c].at = "gcp.subs.patch"
    /\ \/ /\ child # "none"
          /\ labels' = req[c].labels
          /\ Ends(c, "ok")
       \/ /\ Ends(c, "error")
          /\ UNCHANGED labels
    /\ UNCHANGED <<parent, child, vis, ret, alone, promised>>

\* SetQueueAttributes: one patch with a field mask.
GcpSetQueueAttributes(c, v, r) ==
    /\ Arrives(c, "gcp")
    /\ child # "none"
    /\ v <= AckMax
    /\ vis' = Or(v, vis)
    /\ ret' = Or(r, ret)
    /\ Begins(c)
    /\ Ends(c, "ok")
    /\ UNCHANGED <<parent, child, labels, promised>>

-----------------------------------------------------------------------------
(* nats: a stream and its durable consumer *)

\* CreateQueue: AddStream (a stream of the very same configuration is taken
\* for the one asked for), then AddConsumer, with no way back.
NatsAddStream(c, v, r) ==
    /\ Arrives(c, "nats")
    /\ parent => ret = Or(r, DefaultRet) /\ labels = {}
    /\ parent' = TRUE
    /\ ret' = Or(r, DefaultRet)
    /\ labels' = {}
   
    /\ Goes(c, [at |-> "nats.consumer.add", vis |-> Or(v, DefaultVis)])
    /\ Begins(c)
    /\ UNCHANGED <<child, vis, promised>>

NatsAddConsumer(c) ==
    /\ req[c].at = "nats.consumer.add"
    /\ \/ /\ parent
          /\ child = "none" \/ vis = req[c].vis
          /\ child' = "attached"
          /\ vis' = req[c].vis
          /\ Ends(c, "created") /\ Created
       \/ /\ Ends(c, "error")
          /\ UNCHANGED <<child, vis, promised>>
    /\ UNCHANGED <<parent, ret, labels, alone>>

NatsDeleteQueue(c) ==
    /\ Arrives(c, "nats")
    /\ \/ /\ parent' = FALSE
          /\ child' = "none"
          /\ Ends(c, IF parent THEN "deleted" ELSE "absent")
       \/ UNCHANGED <<parent, child>> /\ Ends(c, "error")
    /\ Begins(c)
    /\ DeleteAsked
    /\ UNCHANGED <<vis, ret, labels>>

\* TagQueue, UntagQueue and SetQueueAttributes: StreamInfo, then
\* UpdateStream with the whole configuration that was read.
NatsStreamInfo(c, add, drop, v, r) ==
    /\ Arrives(c, "nats")
    /\ parent
    /\ Goes(c, [at |-> "nats.stream.update", ret |-> Or(r, ret),
                labels |-> (labels \cup add) \ drop,
                add |-> add, drop |-> drop, vis |-> v])
    /\ Begins(c)
    /\ UNCHANGED <<cloud, promised>>

NatsUpdateStream(c) ==
    /\ req[c].at = "nats.stream.update"
    /\ \/ /\ parent
          /\ labels' = req[c].labels
          /\ ret' = req[c].ret
          /\ IF req[c].vis > 0 THEN Goes(c, [at |-> "nats.consumer.update", vis |-> req[c].vis])
                               ELSE Ends(c, "ok")
       \/ /\ Ends(c, "error")
          /\ UNCHANGED <<labels, ret>>
    /\ UNCHANGED <<parent, child, vis, alone, promised>>

\* ConsumerInfo and UpdateConsumer: AckWait is the only field that differs
\* between two consumers of the shim, so the read-modify-write loses nothing.
NatsUpdateConsumer(c) ==
    /\ req[c].at = "nats.consumer.update"
    /\ \/ /\ child = "attached"
          /\ vis' = req[c].vis
          /\ Ends(c, "ok")
       \/ /\ Ends(c, "error")
          /\ UNCHANGED vis
    /\ UNCHANGED <<parent, child, ret, labels, history>>

-----------------------------------------------------------------------------
(* azure: one Service Bus queue, no tags *)

AzureCreateQueue(c, v, r) ==
    /\ Arrives(c, "azure")
    /\ ~parent
    /\ parent' = TRUE
    /\ vis' = Or(v, DefaultVis)
    /\ ret' = Or(r, DefaultRet)
    /\ Begins(c)
    /\ Ends(c, "created") /\ Created
    /\ UNCHANGED <<child, labels>>

AzureDeleteQueue(c) ==
    /\ Arrives(c, "azure")
    /\ \/ parent' = FALSE /\ Ends(c, IF parent THEN "deleted" ELSE "absent")
       \/ UNCHANGED parent /\ Ends(c, "error")
    /\ Begins(c)
    /\ DeleteAsked
    /\ UNCHANGED <<child, vis, ret, labels>>

\* SetQueueAttributes: GetQueue, then UpdateQueue with all properties.
AzureGetQueue(c, v, r) ==
    /\ Arrives(c, "azure")
    /\ parent
    /\ Goes(c, [at |-> "azure.update", vis |-> Or(v, vis), ret |-> Or(r, ret)])
    /\ Begins(c)
    /\ UNCHANGED <<cloud, promised>>

AzureUpdateQueue(c) ==
    /\ req[c].at = "azure.update"
    /\ \/ /\ parent
          /\ vis' = req[c].vis
          /\ ret' = req[c].ret
          /\ Ends(c, "ok")
       \/ /\ Ends(c, "error")
          /\ UNCHANGED <<vis, ret>>
    /\ UNCHANGED <<parent, child, labels, history>>

-----------------------------------------------------------------------------
(* aws: one SQS queue; every operation but CreateQueue resolves its URL first *)

\* SQS takes a queue of the very same attributes for the one asked for.
AwsCreateQueue(c, v, r) ==
    /\ Arrives(c, "aws")
    /\ parent => vis = Or(v, DefaultVis) /\ ret = Or(r, DefaultRet)
    /\ parent' = TRUE
    /\ vis' = Or(v, DefaultVis)
    /\ ret' = Or(r, DefaultRet)
    /\ labels' = IF parent THEN labels ELSE {}
    /\ Begins(c)
    /\ Ends(c, "created") /\ Created
    /\ UNCHANGED child

AwsQueueURL(c, r) ==
    /\ Arrives(c, "aws")
    /\ parent
    /\ Goes(c, r)
    /\ Begins(c)
    /\ IF r.at = "aws.delete" THEN DeleteAsked ELSE UNCHANGED promised
    /\ UNCHANGED cloud

AwsDeleteQueue(c) ==
    /\ req[c].at = "aws.delete"
    /\ \/ parent' = FALSE /\ Ends(c, IF parent THEN "deleted" ELSE "absent")
       \/ UNCHANGED parent /\ Ends(c, "error")
    /\ UNCHANGED <<child, vis, ret, labels, history>>

AwsSetQueueAttributes(c) ==
    /\ req[c].at = "aws.attributes"
    /\ \/ /\ parent
          /\ vis' = Or(req[c].vis, vis)
          /\ ret' = Or(req[c].ret, ret)
          /\ Ends(c, "ok")
       \/ Ends(c, "error") /\ UNCHANGED <<vis, ret>>
    /\ UNCHANGED <<parent, child, labels, history>>

\* TagQueue and UntagQueue name only the keys they touch.
AwsTagQueue(c) ==
    /\ req[c].at = "aws.tag"
    /\ \/ /\ parent
          /\ labels' = (labels \cup req[c].add) \ req[c].drop
          /\ Ends(c, "ok")
       \/ Ends(c, "error") /\ UNCHANGED labels
    /\ UNCHANGED <<parent, child, vis, ret, alone, promised>>

-----------------------------------------------------------------------------
\* The shim dies: every goroutine with it; the remote objects stay.
Crash ==
    /\ \E c \in Clients : req[c] # Idle
    /\ req' = [c \in Clients |-> Idle]
    /\ result' = [c \in Clients |-> "none"]
    /\ alone' = Nobody
    /\ UNCHANGED <<backend, cloud, promised>>

\* The tag changes a client asks for: keys to set, or keys to remove.
TagChanges == {<<T, {}>> : T \in SUBSET TagKeys} \cup {<<{}, T>> : T \in SUBSET TagKeys}

RemoteNext ==
    \/ Crash
    \/ \E c \in Clients :
        \/ GcpCreateSubscription(c) \/ GcpRollback(c) \/ GcpDeleteSubscription(c)
        \/ GcpDeleteTopic(c) \/ GcpPatchLabels(c)
        \/ NatsAddConsumer(c) \/ NatsDeleteQueue(c) \/ NatsUpdateStream(c)
        \/ NatsUpdateConsumer(c)
        \/ AzureDeleteQueue(c) \/ AzureUpdateQueue(c)
        \/ AwsDeleteQueue(c) \/ AwsSetQueueAttributes(c) \/ AwsTagQueue(c)
        \/ backend = "aws" /\ AwsQueueURL(c, [at |-> "aws.delete"])
        \/ \E v \in Timeouts : GcpCreateTopic(c, v)
        \/ \E v \in Timeouts, r \in Retentions :
              \/ GcpSetQueueAttributes(c, v, r)
              \/ NatsAddStream(c, v, r) \/ NatsStreamInfo(c, {}, {}, v, r)
              \/ AzureCreateQueue(c, v, r) \/ AzureGetQueue(c, v, r)
              \/ AwsCreateQueue(c, v, r)
              \/ backend = "aws" /\ AwsQueueURL(c, [at |-> "aws.attributes", vis |-> v, ret |-> r])
        \/ \E t \in TagChanges :
              \/ GcpGetLabels(c, t[1], t[2])
              \/ t[1] \cup t[2] # {} /\ NatsStreamInfo(c, t[1], t[2], 0, 0)
              \/ t[1] \cup t[2] # {} /\ AwsQueueURL(c, [at |-> "aws.tag", add |-> t[1], drop |-> t[2]])

RemoteSpec == RemoteInit /\ [][RemoteNext]_remoteVars

-----------------------------------------------------------------------------
(* Properties *)

\* The remote objects and the requests keep their types; an attached child
\* has a parent, and no lock duration of a Pub/Sub subscription is above the
\* limit that CreateQueue and SetQueueAttributes check.
RemoteTypeOK ==
    /\ parent \in BOOLEAN
    /\ child \in {"none", "attached", "detached"}
    /\ child = "attached" => parent
    /\ vis \in Nat /\ ret \in Nat
    /\ backend = "gcp" => vis <= AckMax
    /\ labels \subseteq TagKeys
    /\ result \in [Clients -> {"none", "ok", "error", "created", "undone", "deleted", "absent"}]
    /\ alone \in Clients \cup {Nobody}
    /\ promised \in BOOLEAN

\* The request c has just ended ran from beginning to end with no other, and
\* came to the result r; nobody has begun another one since.
EndedAlone(c, r) == alone = c /\ req[c] = Idle /\ result[c] = r

\* Whatever half-made or half-deleted queue a crash, a failed call or a race
\* left behind, a DeleteQueue that runs undisturbed and whose calls reach the
\* remote system leaves no object of that name: an orphan topic or a detached
\* subscription can always be cleared with the shim itself.
QuietDeleteCleans ==
    \A c \in Clients :
        EndedAlone(c, "deleted") \/ EndedAlone(c, "absent") => ~parent /\ child = "none"

\* A CreateQueue that runs undisturbed leaves a whole queue or gives back
\* what it created, whatever was lying about when it began; only a clean-up
\* that itself fails, and nats, which has none, leave half a queue.
QuietCreateAllOrNothing ==
    \A c \in Clients :
        /\ EndedAlone(c, "created") => parent /\ (backend \in {"gcp", "nats"} => child = "attached")
        /\ EndedAlone(c, "undone") => ~parent

\* OPERATIONS.md: "the domain op is atomic from the caller's perspective".
\* A queue whose CreateQueue succeeded is whole until somebody asks for it to
\* be deleted.
CreatedQueueIsWhole ==
    promised => parent /\ (backend \in {"gcp", "nats"} => child = "attached")
=============================================================================
