-------------------------- MODULE QueueRemoteProofs --------------------------
(***************************************************************************)
(* What an undisturbed request leaves of a remote queue, for any number of *)
(* concurrent requests, failing calls and crashes of the shim.             *)
(***************************************************************************)
EXTENDS QueueRemote, TLAPS

\* A request that has run alone is the only one in progress.
Solitary == \A c \in Clients : alone = c => \A d \in Clients \ {c} : req[d] = Idle
RemoteShape ==
    /\ req = [c \in Clients |-> req[c]]
    /\ result = [c \in Clients |-> result[c]]
    /\ parent \in BOOLEAN

\* A call is made by the backend it belongs to.
GcpCalls == {"gcp.subs.create", "gcp.rollback", "gcp.topics.delete", "gcp.subs.patch"}
NatsCalls == {"nats.consumer.add", "nats.stream.update", "nats.consumer.update"}
OwnCall(r) == /\ r.at \in GcpCalls => backend = "gcp"
              /\ r.at \in NatsCalls => backend = "nats"
              /\ r.at = "aws.delete" => backend = "aws"
Placed == \A c \in Clients : OwnCall(req[c])

\* A queue of aws or azure is one object.
OneObject == backend \in {"aws", "azure"} => child = "none"

\* A DeleteQueue that nobody disturbed finds the subscription still gone when
\* it comes to the topic.
SubscriptionGone == \A c \in Clients : alone = c /\ req[c].at = "gcp.topics.delete" => child = "none"

RemoteInv == /\ RemoteShape /\ Solitary /\ Placed /\ OneObject /\ SubscriptionGone
             /\ QuietDeleteCleans /\ QuietCreateAllOrNothing

-----------------------------------------------------------------------------
\* After a step of c no other request has run alone.
OnlyRun(c) == \A d \in Clients : alone' = d => d = c /\ \A e \in Clients \ {c} : req[e] = Idle

LEMMA BeginsAlone ==
    ASSUME NEW c \in Clients, Begins(c)
    PROVE  OnlyRun(c)
BY RemoteInputs DEF Begins, OnlyRun

LEMMA RunsAlone ==
    ASSUME Solitary, NEW c \in Clients, req[c] # Idle, UNCHANGED alone
    PROVE  OnlyRun(c)
BY DEF Solitary, OnlyRun

\* A request is answered: what its answer says must be so if it ran alone.
LEMMA EndsKeeps ==
    ASSUME RemoteShape, Placed, NEW c \in Clients, OnlyRun(c), NEW res, Ends(c, res), parent' \in BOOLEAN,
           OneObject',
           alone' = c /\ res \in {"deleted", "absent"} => ~parent' /\ child' = "none",
           alone' = c /\ res = "created" => parent' /\ (backend \in {"gcp", "nats"} => child' = "attached"),
           alone' = c /\ res = "undone" => ~parent'
    PROVE  RemoteInv'
<1>1. /\ req' = [req EXCEPT ![c] = Idle] /\ result' = [result EXCEPT ![c] = res] /\ backend' = backend
      /\ req'[c] = Idle /\ result'[c] = res
      /\ \A d \in Clients \ {c} : req'[d] = req[d] /\ result'[d] = result[d]
  BY DEF Ends, RemoteShape
<1>2. RemoteShape'
  BY <1>1 DEF RemoteShape
<1>3. Solitary'
  BY <1>1 DEF OnlyRun, Solitary
<1>4. Placed'
  BY <1>1 DEF Placed, OwnCall, Idle, GcpCalls, NatsCalls
<1>5. SubscriptionGone'
  BY <1>1 DEF SubscriptionGone, OnlyRun, Idle
<1>6. QuietDeleteCleans' /\ QuietCreateAllOrNothing'
  BY <1>1 DEF QuietDeleteCleans, QuietCreateAllOrNothing, EndedAlone, OnlyRun
<1> QED
  BY <1>2, <1>3, <1>4, <1>5, <1>6 DEF RemoteInv

\* A request goes on to another call.
LEMMA GoesKeeps ==
    ASSUME RemoteShape, Placed, NEW c \in Clients, OnlyRun(c), NEW r, Goes(c, r), parent' \in BOOLEAN,
           OneObject', r.at # "idle", OwnCall(r),
           alone' = c /\ r.at = "gcp.topics.delete" => child' = "none"
    PROVE  RemoteInv'
<1>1. /\ req' = [req EXCEPT ![c] = r] /\ result' = [result EXCEPT ![c] = "none"] /\ backend' = backend
      /\ req'[c] = r /\ result'[c] = "none"
      /\ \A d \in Clients \ {c} : req'[d] = req[d] /\ result'[d] = result[d]
  BY DEF Goes, RemoteShape
<1>2. RemoteShape'
  BY <1>1 DEF RemoteShape
<1>3. Solitary'
  BY <1>1 DEF OnlyRun, Solitary
<1>4. Placed'
  BY <1>1 DEF Placed, OwnCall
<1>5. SubscriptionGone'
  BY <1>1 DEF SubscriptionGone, OnlyRun
<1>6. QuietDeleteCleans' /\ QuietCreateAllOrNothing'
  BY <1>1 DEF QuietDeleteCleans, QuietCreateAllOrNothing, EndedAlone, OnlyRun
<1> QED
  BY <1>2, <1>3, <1>4, <1>5, <1>6 DEF RemoteInv
-----------------------------------------------------------------------------
(* gcp *)

LEMMA GcpKeeps ==
    ASSUME RemoteInv, NEW c \in Clients,
           \/ GcpCreateSubscription(c) \/ GcpRollback(c) \/ GcpDeleteSubscription(c)
           \/ GcpDeleteTopic(c) \/ GcpPatchLabels(c)
    PROVE  RemoteInv'
<1> USE DEF RemoteInv
<1>1. CASE GcpCreateSubscription(c)
  <2>1. backend = "gcp" /\ OnlyRun(c) /\ parent' = parent /\ backend' = backend
    BY <1>1, RunsAlone DEF GcpCreateSubscription, Placed, OwnCall, GcpCalls, Idle, Ends, Goes
  <2>2. OneObject' /\ parent' \in BOOLEAN
    BY <2>1 DEF OneObject, RemoteShape
  <2>3. CASE parent /\ child' = "attached" /\ Ends(c, "created")
    BY <2>1, <2>2, <2>3, EndsKeeps
  <2>4. CASE Goes(c, [at |-> "gcp.rollback"])
    <3>1. PICK r : r = [at |-> "gcp.rollback"]
      OBVIOUS
    <3>2. r.at = "gcp.rollback" /\ Goes(c, r) /\ OwnCall(r)
      BY <2>1, <2>4, <3>1 DEF OwnCall, NatsCalls
    <3> QED
      BY <2>1, <2>2, <3>2, GoesKeeps
  <2> QED
    BY <1>1, <2>3, <2>4 DEF GcpCreateSubscription
<1>2. CASE GcpRollback(c)
  <2>1. backend = "gcp" /\ OnlyRun(c) /\ backend' = backend
    BY <1>2, RunsAlone DEF GcpRollback, Placed, OwnCall, GcpCalls, Idle, Ends, history
  <2>2. OneObject' /\ parent' \in BOOLEAN
    BY <1>2, <2>1 DEF OneObject, RemoteShape, GcpRollback, DropTopic
  <2>3. CASE DropTopic /\ Ends(c, "undone")
    BY <2>1, <2>2, <2>3, EndsKeeps DEF DropTopic
  <2>4. CASE Ends(c, "error")
    BY <2>1, <2>2, <2>4, EndsKeeps
  <2> QED
    BY <1>2, <2>3, <2>4 DEF GcpRollback
<1>3. CASE GcpDeleteSubscription(c)
  <2>1. backend = "gcp" /\ OnlyRun(c) /\ backend' = backend /\ parent' = parent
    BY <1>3, BeginsAlone DEF GcpDeleteSubscription, Arrives, Ends, Goes
  <2>2. OneObject' /\ parent' \in BOOLEAN
    BY <2>1 DEF OneObject, RemoteShape
  <2>3. CASE Ends(c, "error")
    BY <2>1, <2>2, <2>3, EndsKeeps
  <2>4. CASE child' = "none" /\ Goes(c, [at |-> "gcp.topics.delete"])
    <3>1. PICK r : r = [at |-> "gcp.topics.delete"]
      OBVIOUS
    <3>2. r.at = "gcp.topics.delete" /\ Goes(c, r) /\ OwnCall(r)
      BY <2>1, <2>4, <3>1 DEF OwnCall, NatsCalls
    <3> QED
      BY <2>1, <2>2, <2>4, <3>2, GoesKeeps
  <2> QED
    BY <1>3, <2>3, <2>4 DEF GcpDeleteSubscription
<1>4. CASE GcpDeleteTopic(c)
  <2>1. backend = "gcp" /\ OnlyRun(c) /\ backend' = backend /\ alone' = alone
    BY <1>4, RunsAlone DEF GcpDeleteTopic, Placed, OwnCall, GcpCalls, Idle, Ends, history
  <2>2. OneObject' /\ parent' \in BOOLEAN
    BY <1>4, <2>1 DEF OneObject, RemoteShape, GcpDeleteTopic, DropTopic
  <2>3. alone = c => child = "none"
    BY <1>4 DEF GcpDeleteTopic, SubscriptionGone
  <2>4. CASE DropTopic /\ Ends(c, IF parent THEN "deleted" ELSE "absent")
    <3>1. PICK res \in {"deleted", "absent"} : Ends(c, res)
      BY <2>4
    <3>2. alone' = c => ~parent' /\ child' = "none"
      BY <2>1, <2>3, <2>4 DEF DropTopic
    <3> QED
      BY <2>1, <2>2, <3>1, <3>2, EndsKeeps
  <2>5. CASE Ends(c, "error")
    BY <2>1, <2>2, <2>5, EndsKeeps
  <2> QED
    BY <1>4, <2>4, <2>5 DEF GcpDeleteTopic
<1>5. CASE GcpPatchLabels(c)
  <2>1. backend = "gcp" /\ OnlyRun(c) /\ backend' = backend /\ parent' = parent
    BY <1>5, RunsAlone DEF GcpPatchLabels, Placed, OwnCall, GcpCalls, Idle, Ends
  <2>2. OneObject' /\ parent' \in BOOLEAN
    BY <2>1 DEF OneObject, RemoteShape
  <2>3. Ends(c, "ok") \/ Ends(c, "error")
    BY <1>5 DEF GcpPatchLabels
  <2> QED
    BY <2>1, <2>2, <2>3, EndsKeeps
<1> QED
  BY <1>1, <1>2, <1>3, <1>4, <1>5

LEMMA GcpAsked ==
    ASSUME RemoteInv, NEW c \in Clients, NEW v, NEW w, NEW add, NEW drop,
           GcpCreateTopic(c, v) \/ GcpSetQueueAttributes(c, v, w) \/ GcpGetLabels(c, add, drop)
    PROVE  RemoteInv'
<1> USE DEF RemoteInv
<1>1. backend = "gcp" /\ OnlyRun(c) /\ backend' = backend /\ parent' \in BOOLEAN
  BY BeginsAlone DEF GcpCreateTopic, GcpSetQueueAttributes, GcpGetLabels, Arrives, Ends, Goes, RemoteShape, cloud
<1>2. OneObject'
  BY <1>1 DEF OneObject
<1>3. CASE GcpCreateTopic(c, v)
  <2>1. PICK r : Goes(c, r) /\ r.at \in {"gcp.rollback", "gcp.subs.create"}
    BY <1>3 DEF GcpCreateTopic
  <2>2. OwnCall(r)
    BY <1>1, <2>1 DEF OwnCall, NatsCalls
  <2> QED
    BY <1>1, <1>2, <2>1, <2>2, GoesKeeps
<1>4. CASE GcpSetQueueAttributes(c, v, w)
  BY <1>1, <1>2, <1>4, EndsKeeps DEF GcpSetQueueAttributes
<1>5. CASE GcpGetLabels(c, add, drop)
  <2>1. PICK r : Goes(c, r) /\ r.at = "gcp.subs.patch"
    BY <1>5 DEF GcpGetLabels
  <2>2. OwnCall(r)
    BY <1>1, <2>1 DEF OwnCall, NatsCalls
  <2> QED
    BY <1>1, <1>2, <2>1, <2>2, GoesKeeps
<1> QED
  BY <1>3, <1>4, <1>5

-----------------------------------------------------------------------------
(* nats *)

LEMMA NatsKeeps ==
    ASSUME RemoteInv, NEW c \in Clients,
           NatsAddConsumer(c) \/ NatsDeleteQueue(c) \/ NatsUpdateStream(c) \/ NatsUpdateConsumer(c)
    PROVE  RemoteInv'
<1> USE DEF RemoteInv
<1>1. CASE NatsAddConsumer(c)
  <2>1. backend = "nats" /\ OnlyRun(c) /\ backend' = backend /\ parent' = parent
    BY <1>1, RunsAlone DEF NatsAddConsumer, Placed, OwnCall, NatsCalls, Idle, Ends
  <2>2. OneObject' /\ parent' \in BOOLEAN
    BY <2>1 DEF OneObject, RemoteShape
  <2>3. (parent /\ child' = "attached" /\ Ends(c, "created")) \/ Ends(c, "error")
    BY <1>1 DEF NatsAddConsumer
  <2> QED
    BY <2>1, <2>2, <2>3, EndsKeeps
<1>2. CASE NatsDeleteQueue(c)
  <2>1. backend = "nats" /\ OnlyRun(c) /\ backend' = backend
    BY <1>2, BeginsAlone DEF NatsDeleteQueue, Arrives, Ends
  <2>2. OneObject' /\ parent' \in BOOLEAN
    BY <1>2, <2>1 DEF OneObject, RemoteShape, NatsDeleteQueue
  <2>3. CASE parent' = FALSE /\ child' = "none" /\ Ends(c, IF parent THEN "deleted" ELSE "absent")
    <3>1. PICK res \in {"deleted", "absent"} : Ends(c, res)
      BY <2>3
    <3> QED
      BY <2>1, <2>2, <2>3, <3>1, EndsKeeps
  <2>4. CASE Ends(c, "error")
    BY <2>1, <2>2, <2>4, EndsKeeps
  <2> QED
    BY <1>2, <2>3, <2>4 DEF NatsDeleteQueue
<1>3. CASE NatsUpdateStream(c) \/ NatsUpdateConsumer(c)
  <2>1. backend = "nats" /\ OnlyRun(c) /\ backend' = backend /\ parent' = parent
    BY <1>3, RunsAlone DEF NatsUpdateStream, NatsUpdateConsumer, Placed, OwnCall, NatsCalls, Idle, Ends, Goes, history
  <2>2. OneObject' /\ parent' \in BOOLEAN
    BY <2>1 DEF OneObject, RemoteShape
  <2>3. CASE Ends(c, "ok") \/ Ends(c, "error")
    BY <2>1, <2>2, <2>3, EndsKeeps
  <2>4. CASE Goes(c, [at |-> "nats.consumer.update", vis |-> req[c].vis])
    <3>1. PICK r : Goes(c, r) /\ r.at = "nats.consumer.update"
      BY <2>4
    <3>2. OwnCall(r)
      BY <2>1, <3>1 DEF OwnCall, GcpCalls
    <3> QED
      BY <2>1, <2>2, <3>1, <3>2, GoesKeeps
  <2> QED
    BY <1>3, <2>3, <2>4 DEF NatsUpdateStream, NatsUpdateConsumer
<1> QED
  BY <1>1, <1>2, <1>3

LEMMA NatsAsked ==
    ASSUME RemoteInv, NEW c \in Clients, NEW v, NEW w, NEW add, NEW drop,
           NatsAddStream(c, v, w) \/ NatsStreamInfo(c, add, drop, v, w)
    PROVE  RemoteInv'
<1> USE DEF RemoteInv
<1>1. backend = "nats" /\ OnlyRun(c) /\ backend' = backend /\ parent' \in BOOLEAN
  BY BeginsAlone DEF NatsAddStream, NatsStreamInfo, Arrives, Goes, RemoteShape, cloud
<1>2. OneObject'
  BY <1>1 DEF OneObject
<1>3. PICK r : Goes(c, r) /\ r.at \in {"nats.consumer.add", "nats.stream.update"}
  BY DEF NatsAddStream, NatsStreamInfo
<1>4. OwnCall(r)
  BY <1>1, <1>3 DEF OwnCall, GcpCalls
<1> QED
  BY <1>1, <1>2, <1>3, <1>4, GoesKeeps

-----------------------------------------------------------------------------
(* azure and aws *)

LEMMA AzureKeeps ==
    ASSUME RemoteInv, NEW c \in Clients, AzureDeleteQueue(c) \/ AzureUpdateQueue(c)
    PROVE  RemoteInv'
<1> USE DEF RemoteInv
<1>1. CASE AzureDeleteQueue(c)
  <2>1. backend = "azure" /\ OnlyRun(c) /\ backend' = backend /\ child' = child
    BY <1>1, BeginsAlone DEF AzureDeleteQueue, Arrives, Ends
  <2>2. OneObject' /\ parent' \in BOOLEAN /\ child' = "none"
    BY <1>1, <2>1 DEF OneObject, RemoteShape, AzureDeleteQueue
  <2>3. CASE parent' = FALSE /\ Ends(c, IF parent THEN "deleted" ELSE "absent")
    <3>1. PICK res \in {"deleted", "absent"} : Ends(c, res)
      BY <2>3
    <3> QED
      BY <2>1, <2>2, <2>3, <3>1, EndsKeeps
  <2>4. CASE Ends(c, "error")
    BY <2>1, <2>2, <2>4, EndsKeeps
  <2> QED
    BY <1>1, <2>3, <2>4 DEF AzureDeleteQueue
<1>2. CASE AzureUpdateQueue(c)
  <2>1. OnlyRun(c) /\ backend' = backend /\ child' = child /\ parent' = parent
    BY <1>2, RunsAlone DEF AzureUpdateQueue, Idle, Ends, history
  <2>2. OneObject' /\ parent' \in BOOLEAN
    BY <2>1 DEF OneObject, RemoteShape
  <2>3. Ends(c, "ok") \/ Ends(c, "error")
    BY <1>2 DEF AzureUpdateQueue
  <2> QED
    BY <2>1, <2>2, <2>3, EndsKeeps
<1> QED
  BY <1>1, <1>2

LEMMA AzureAsked ==
    ASSUME RemoteInv, NEW c \in Clients, NEW v, NEW w, AzureCreateQueue(c, v, w) \/ AzureGetQueue(c, v, w)
    PROVE  RemoteInv'
<1> USE DEF RemoteInv
<1>1. backend = "azure" /\ OnlyRun(c) /\ backend' = backend /\ parent' \in BOOLEAN /\ child' = child
  BY BeginsAlone DEF AzureCreateQueue, AzureGetQueue, Arrives, Ends, Goes, RemoteShape, cloud
<1>2. OneObject'
  BY <1>1 DEF OneObject
<1>3. CASE AzureCreateQueue(c, v, w)
  BY <1>1, <1>2, <1>3, EndsKeeps DEF AzureCreateQueue
<1>4. CASE AzureGetQueue(c, v, w)
  <2>1. PICK r : Goes(c, r) /\ r.at = "azure.update"
    BY <1>4 DEF AzureGetQueue
  <2>2. OwnCall(r)
    BY <2>1 DEF OwnCall, GcpCalls, NatsCalls
  <2> QED
    BY <1>1, <1>2, <2>1, <2>2, GoesKeeps
<1> QED
  BY <1>3, <1>4

LEMMA AwsKeeps ==
    ASSUME RemoteInv, NEW c \in Clients, AwsDeleteQueue(c) \/ AwsSetQueueAttributes(c) \/ AwsTagQueue(c)
    PROVE  RemoteInv'
<1> USE DEF RemoteInv
<1>0. OnlyRun(c)
  BY RunsAlone DEF AwsDeleteQueue, AwsSetQueueAttributes, AwsTagQueue, Idle, history
<1>1. OnlyRun(c) /\ backend' = backend /\ child' = child /\ parent' \in BOOLEAN
  BY <1>0 DEF AwsDeleteQueue, AwsSetQueueAttributes, AwsTagQueue, Ends, RemoteShape
<1>2. OneObject'
  BY <1>1 DEF OneObject
<1>3. CASE AwsDeleteQueue(c)
  <2>1. child' = "none"
    BY <1>1, <1>3 DEF AwsDeleteQueue, Placed, OwnCall, OneObject
  <2>2. CASE parent' = FALSE /\ Ends(c, IF parent THEN "deleted" ELSE "absent")
    <3>1. PICK res \in {"deleted", "absent"} : Ends(c, res)
      BY <2>2
    <3> QED
      BY <1>1, <1>2, <2>1, <2>2, <3>1, EndsKeeps
  <2>3. CASE Ends(c, "error")
    BY <1>1, <1>2, <2>3, EndsKeeps
  <2> QED
    BY <1>3, <2>2, <2>3 DEF AwsDeleteQueue
<1>4. CASE AwsSetQueueAttributes(c) \/ AwsTagQueue(c)
  <2>1. Ends(c, "ok") \/ Ends(c, "error")
    BY <1>4 DEF AwsSetQueueAttributes, AwsTagQueue
  <2> QED
    BY <1>1, <1>2, <2>1, EndsKeeps
<1> QED
  BY <1>3, <1>4

LEMMA AwsAsked ==
    ASSUME RemoteInv, NEW c \in Clients, NEW v, NEW w, NEW r,
           AwsCreateQueue(c, v, w) \/ (AwsQueueURL(c, r) /\ r.at \in {"aws.delete", "aws.attributes", "aws.tag"})
    PROVE  RemoteInv'
<1> USE DEF RemoteInv
<1>1. backend = "aws" /\ OnlyRun(c) /\ backend' = backend /\ parent' \in BOOLEAN /\ child' = child
  BY BeginsAlone DEF AwsCreateQueue, AwsQueueURL, Arrives, Ends, Goes, RemoteShape, cloud
<1>2. OneObject'
  BY <1>1 DEF OneObject
<1>3. CASE AwsCreateQueue(c, v, w)
  BY <1>1, <1>2, <1>3, EndsKeeps DEF AwsCreateQueue
<1>4. CASE AwsQueueURL(c, r) /\ r.at \in {"aws.delete", "aws.attributes", "aws.tag"}
  <2>1. Goes(c, r) /\ OwnCall(r)
    BY <1>1, <1>4 DEF AwsQueueURL, OwnCall, GcpCalls, NatsCalls
  <2> QED
    BY <1>1, <1>2, <1>4, <2>1, GoesKeeps
<1> QED
  BY <1>3, <1>4

-----------------------------------------------------------------------------
LEMMA CrashKeeps ==
    ASSUME RemoteInv, Crash
    PROVE  RemoteInv'
BY RemoteInputs DEF RemoteInv, Crash, RemoteShape, Solitary, Placed, OwnCall, OneObject, SubscriptionGone,
   QuietDeleteCleans, QuietCreateAllOrNothing, EndedAlone, Idle, GcpCalls, NatsCalls, cloud

LEMMA RemoteInitInv == RemoteInit => RemoteInv
<1> SUFFICES ASSUME RemoteInit
             PROVE  RemoteInv
  OBVIOUS
<1>1. RemoteShape
  BY DEF RemoteInit, RemoteShape
<1>2. Placed /\ OneObject
  BY DEF RemoteInit, Placed, OwnCall, OneObject, Idle, GcpCalls, NatsCalls
<1>3. \A c \in Clients : alone # c
  BY RemoteInputs DEF RemoteInit
<1> QED
  BY <1>1, <1>2, <1>3 DEF RemoteInv, Solitary, SubscriptionGone, QuietDeleteCleans, QuietCreateAllOrNothing,
     EndedAlone

LEMMA RemoteNextInv ==
    ASSUME RemoteInv, [RemoteNext]_remoteVars
    PROVE  RemoteInv'
<1>1. CASE UNCHANGED remoteVars
  BY <1>1 DEF remoteVars, cloud, history, RemoteInv, RemoteShape, Solitary, Placed, OwnCall, OneObject,
     SubscriptionGone, QuietDeleteCleans, QuietCreateAllOrNothing, EndedAlone
<1>2. CASE Crash
  BY <1>2, CrashKeeps
<1>3. ASSUME NEW c \in Clients,
             \/ GcpCreateSubscription(c) \/ GcpRollback(c) \/ GcpDeleteSubscription(c)
             \/ GcpDeleteTopic(c) \/ GcpPatchLabels(c)
             \/ NatsAddConsumer(c) \/ NatsDeleteQueue(c) \/ NatsUpdateStream(c)
             \/ NatsUpdateConsumer(c)
             \/ AzureDeleteQueue(c) \/ AzureUpdateQueue(c)
             \/ AwsDeleteQueue(c) \/ AwsSetQueueAttributes(c) \/ AwsTagQueue(c)
      PROVE  RemoteInv'
  BY <1>3, GcpKeeps, NatsKeeps, AzureKeeps, AwsKeeps
<1>4. ASSUME NEW c \in Clients, NEW v \in Timeouts, NEW w \in Retentions,
             \/ GcpSetQueueAttributes(c, v, w)
             \/ NatsAddStream(c, v, w) \/ NatsStreamInfo(c, {}, {}, v, w)
             \/ AzureCreateQueue(c, v, w) \/ AzureGetQueue(c, v, w) \/ AwsCreateQueue(c, v, w)
      PROVE  RemoteInv'
  BY <1>4, GcpAsked, NatsAsked, AzureAsked, AwsAsked
<1>5. ASSUME NEW c \in Clients, NEW v \in Timeouts, GcpCreateTopic(c, v)
      PROVE  RemoteInv'
  BY <1>5, GcpAsked
<1>6. ASSUME NEW c \in Clients, NEW r, AwsQueueURL(c, r), r.at \in {"aws.delete", "aws.attributes", "aws.tag"}
      PROVE  RemoteInv'
  BY <1>6, AwsAsked
<1>7. ASSUME NEW c \in Clients, NEW v \in Timeouts, NEW w \in Retentions,
             AwsQueueURL(c, [at |-> "aws.attributes", vis |-> v, ret |-> w])
      PROVE  RemoteInv'
  <2>1. PICK r : AwsQueueURL(c, r) /\ r.at \in {"aws.delete", "aws.attributes", "aws.tag"}
    BY <1>7
  <2> QED
    BY <2>1, <1>6
<1>8. ASSUME NEW c \in Clients, AwsQueueURL(c, [at |-> "aws.delete"])
      PROVE  RemoteInv'
  <2>1. PICK r : AwsQueueURL(c, r) /\ r.at = "aws.delete"
    BY <1>8
  <2> QED
    BY <2>1, <1>6
<1>9. ASSUME NEW c \in Clients, NEW t \in TagChanges,
             \/ GcpGetLabels(c, t[1], t[2]) \/ NatsStreamInfo(c, t[1], t[2], 0, 0)
             \/ AwsQueueURL(c, [at |-> "aws.tag", add |-> t[1], drop |-> t[2]])
      PROVE  RemoteInv'
  <2>1. CASE AwsQueueURL(c, [at |-> "aws.tag", add |-> t[1], drop |-> t[2]])
    <3>1. PICK r : AwsQueueURL(c, r) /\ r.at = "aws.tag"
      BY <2>1
    <3> QED
      BY <3>1, <1>6
  <2> QED
    BY <1>9, <2>1, GcpAsked, NatsAsked
<1>10. CASE RemoteNext
  <2>1. CASE Crash
    BY <2>1, <1>2
  <2>2. ASSUME ~Crash PROVE RemoteInv'
    <3>1. PICK c \in Clients :
            \/ GcpCreateSubscription(c) \/ GcpRollback(c) \/ GcpDeleteSubscription(c)
            \/ GcpDeleteTopic(c) \/ GcpPatchLabels(c)
            \/ NatsAddConsumer(c) \/ NatsDeleteQueue(c) \/ NatsUpdateStream(c)
            \/ NatsUpdateConsumer(c)
            \/ AzureDeleteQueue(c) \/ AzureUpdateQueue(c)
            \/ AwsDeleteQueue(c) \/ AwsSetQueueAttributes(c) \/ AwsTagQueue(c)
            \/ backend = "aws" /\ AwsQueueURL(c, [at |-> "aws.delete"])
            \/ \E v \in Timeouts : GcpCreateTopic(c, v)
            \/ \E v \in Timeouts, r \in Retentions :
                  \/ GcpSetQueueAttributes(c, v, r)
                  \/ NatsAddStream(c, v, r) \/ NatsStreamInfo(c, {}, {}, v, r)
                  \/ AzureCreateQueue(c, v, r) \/ AzureGetQueue(c, v, r) \/ AwsCreateQueue(c, v, r)
                  \/ backend = "aws" /\ AwsQueueURL(c, [at |-> "aws.attributes", vis |-> v, ret |-> r])
            \/ \E t \in TagChanges :
                  \/ GcpGetLabels(c, t[1], t[2])
                  \/ t[1] \cup t[2] # {} /\ NatsStreamInfo(c, t[1], t[2], 0, 0)
                  \/ t[1] \cup t[2] # {} /\ AwsQueueURL(c, [at |-> "aws.tag", add |-> t[1], drop |-> t[2]])
      BY <1>10, <2>2, SMT DEF RemoteNext
    <3>2. ASSUME \E v \in Timeouts, r \in Retentions :
                  \/ GcpSetQueueAttributes(c, v, r)
                  \/ NatsAddStream(c, v, r) \/ NatsStreamInfo(c, {}, {}, v, r)
                  \/ AzureCreateQueue(c, v, r) \/ AzureGetQueue(c, v, r) \/ AwsCreateQueue(c, v, r)
                  \/ backend = "aws" /\ AwsQueueURL(c, [at |-> "aws.attributes", vis |-> v, ret |-> r])
          PROVE  RemoteInv'
      BY <3>2, <1>4, <1>7, Zenon
    <3>3. ASSUME \E t \in TagChanges :
                  \/ GcpGetLabels(c, t[1], t[2])
                  \/ t[1] \cup t[2] # {} /\ NatsStreamInfo(c, t[1], t[2], 0, 0)
                  \/ t[1] \cup t[2] # {} /\ AwsQueueURL(c, [at |-> "aws.tag", add |-> t[1], drop |-> t[2]])
          PROVE  RemoteInv'
      BY <3>3, <1>9, Zenon
    <3>4. ASSUME \E v \in Timeouts : GcpCreateTopic(c, v) PROVE RemoteInv'
      BY <3>4, <1>5, Zenon
    <3>5. ASSUME AwsQueueURL(c, [at |-> "aws.delete"]) PROVE RemoteInv'
      BY <3>5, <1>8, Zenon
    <3> QED BY <3>1, <3>2, <3>3, <3>4, <3>5, <1>3, Zenon
  <2> QED BY <2>1, <2>2
<1> QED BY <1>1, <1>10

\* The inductive invariant of the remote queues: besides the two properties,
\* whose calls a request makes, that an undisturbed request is the only one in
\* progress, and that the subscription DeleteQueue has deleted is still gone
\* when it comes to the topic (services/queue/backends).
THEOREM RemoteInvariant == RemoteSpec => []RemoteInv
BY RemoteInitInv, RemoteNextInv, PTL DEF RemoteSpec

\* DeleteQueue of the gcp, nats, azure and aws backends: undisturbed, and with
\* its calls answered, it leaves no object of the queue's name, whatever
\* crashes, failed calls and races had left of it.
THEOREM DeleteAlwaysCleans == RemoteSpec => []QuietDeleteCleans
<1>1. RemoteInv => QuietDeleteCleans
  BY DEF RemoteInv
<1> QED
  BY <1>1, RemoteInvariant, PTL

\* CreateQueue: undisturbed, it leaves a whole queue or takes back the topic
\* it created.
THEOREM CreateAlwaysAllOrNothing == RemoteSpec => []QuietCreateAllOrNothing
<1>1. RemoteInv => QuietCreateAllOrNothing
  BY DEF RemoteInv
<1> QED
  BY <1>1, RemoteInvariant, PTL
==============================================================================
